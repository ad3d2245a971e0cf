----------------------------- MODULE FilesProofs -----------------------------
(***************************************************************************)
(* Proofs about Files, for disks, directories and files of any size.       *)
(***************************************************************************)
EXTENDS Files, Lists

Header == [numBytes : Size, dataSectors : Seq(Sector)]
OpenFile == [name : Name, hdr : Header, seekPosition : Nat]

HeaderOf(i) == header[directory[i].sector]
AllSectors(s, hdr) == {s} \cup ToSet(hdr.dataSectors)

Typed ==
  /\ freeMap \subseteq Sector
  /\ directory \in [1 .. NumDirEntries -> [name : Name, sector : Sector] \cup {NoEntry}]
  /\ header \in [Sector -> Header \cup {NoHeader}]
  /\ data \in [Sector -> [Offset -> Byte]]
  /\ opened \in [Handle -> OpenFile \cup {Closed}]

(* The header of a file lists as many sectors as the length needs, all     *)
(* different, and not the one that the header is in.                       *)
WellFormed(s, hdr) ==
  /\ hdr \in Header
  /\ Len(hdr.dataSectors) = divRoundUp(hdr.numBytes, SectorSize)
  /\ IsInjective(hdr.dataSectors)
  /\ s \notin ToSet(hdr.dataSectors)
  /\ AllSectors(s, hdr) \cap (0 .. Reserved - 1) = {}

HeadersWellFormed == \A i \in Entries : WellFormed(directory[i].sector, HeaderOf(i))

NamesDiffer == \A i, j \in Entries : directory[i].name = directory[j].name => i = j

FilesDisjoint ==
  \A i, j \in Entries : i # j =>
    AllSectors(directory[i].sector, HeaderOf(i)) \cap
    AllSectors(directory[j].sector, HeaderOf(j)) = {}

MapIsRight ==
  \A s \in Sector : s \in freeMap <=>
    s < Reserved \/ \E i \in Entries : s \in AllSectors(directory[i].sector, HeaderOf(i))

OpenedOnDisk ==
  \A h \in Handle : opened[h] # Closed =>
    \E i \in Entries : directory[i].name = opened[h].name /\ opened[h].hdr = HeaderOf(i)

FilesInv ==
  /\ Typed /\ HeadersWellFormed /\ NamesDiffer /\ FilesDisjoint /\ MapIsRight
  /\ OpenedOnDisk

-----------------------------------------------------------------------------
(* Numbers of sectors: SectorSize divides the bytes of a file, counted     *)
(* from 0, into sectors and offsets.                                       *)
LEMMA Bytes ==
  /\ SectorSize \in Nat \ {0}
  /\ \A n \in Nat : /\ n \div SectorSize \in Nat /\ n % SectorSize \in Offset
                    /\ n = (n \div SectorSize) * SectorSize + (n % SectorSize)
  /\ \A i \in Nat, o \in Offset : /\ (i * SectorSize + o) \div SectorSize = i
                                  /\ (i * SectorSize + o) % SectorSize = o
                                  /\ i * SectorSize + o \in Nat
<1>1. SectorSize \in Nat \ {0}
  BY FilesAssumption
<1>2. \A n \in Nat : /\ n \div SectorSize \in Nat /\ n % SectorSize \in 0 .. SectorSize - 1
                     /\ n = (n \div SectorSize) * SectorSize + (n % SectorSize)
  BY <1>1
<1>3. \A i \in Nat, o \in 0 .. SectorSize - 1 :
         /\ (i * SectorSize + o) \div SectorSize = i
         /\ (i * SectorSize + o) % SectorSize = o
         /\ i * SectorSize + o \in Nat
  BY <1>1
<1> QED
  BY <1>1, <1>2, <1>3 DEF Offset

LEMMA SizesRoundUp ==
  \A n \in Nat : /\ divRoundUp(n, SectorSize) \in Nat
                 /\ \A k \in Nat : k < n => k \div SectorSize + 1 \in 1 .. divRoundUp(n, SectorSize)
<1>1. SectorSize \in Nat \ {0}
  BY FilesAssumption
<1>2. SUFFICES ASSUME NEW n \in Nat
               PROVE  /\ (n + SectorSize - 1) \div SectorSize \in Nat
                      /\ \A k \in Nat : k < n =>
                           k \div SectorSize + 1 \in 1 .. (n + SectorSize - 1) \div SectorSize
  BY DEF divRoundUp
<1>3. n + SectorSize - 1 \in Nat
  BY <1>1
<1>4. (n + SectorSize - 1) \div SectorSize \in Nat
  BY <1>1, <1>3
<1>5. ASSUME NEW k \in Nat, k < n
      PROVE  k \div SectorSize + 1 \in 1 .. (n + SectorSize - 1) \div SectorSize
  <2>1. PICK i \in Nat : i = k \div SectorSize
    BY <1>1
  <2>2. PICK j \in Nat : j = (n + SectorSize - 1) \div SectorSize
    BY <1>4
  <2>3. i * SectorSize <= k
    BY <1>1, <2>1
  <2>4. n + SectorSize - 1 < j * SectorSize + SectorSize
    BY <1>1, <1>3, <2>2
  <2>5. i * SectorSize + SectorSize < j * SectorSize + SectorSize
    <3>1. i * SectorSize \in Nat /\ j * SectorSize \in Nat
      BY <1>1
    <3> QED
      BY <1>1, <1>5, <2>3, <2>4, <3>1
  <2>6. i < j
    <3> SUFFICES ASSUME j <= i PROVE FALSE
      OBVIOUS
    <3>1. j * SectorSize <= i * SectorSize
      BY <1>1
    <3>2. i * SectorSize \in Nat /\ j * SectorSize \in Nat
      BY <1>1
    <3> QED
      BY <1>1, <2>5, <3>1, <3>2
  <2> QED
    BY <2>1, <2>2, <2>6
<1> QED
  BY <1>4, <1>5

(* A byte of a file is in a sector of the file.                            *)
LEMMA ByteInFile ==
  ASSUME data \in [Sector -> [Offset -> Byte]], NEW s, NEW hdr, WellFormed(s, hdr),
         NEW k \in Nat, k < hdr.numBytes
  PROVE  /\ k \div SectorSize + 1 \in 1 .. Len(hdr.dataSectors)
         /\ hdr.dataSectors[k \div SectorSize + 1] \in Sector
         /\ ByteAt(hdr, k) \in Byte
<1>1. hdr \in Header /\ Len(hdr.dataSectors) = divRoundUp(hdr.numBytes, SectorSize)
  BY DEF WellFormed
<1>2. hdr.numBytes \in Nat /\ hdr.dataSectors \in Seq(Sector)
  BY <1>1, FilesAssumption DEF Header
<1>3. k \div SectorSize + 1 \in 1 .. Len(hdr.dataSectors)
  BY <1>1, <1>2, SizesRoundUp
<1>4. hdr.dataSectors[k \div SectorSize + 1] \in Sector
  BY <1>2, <1>3, ElementOfSeq
<1>5. k % SectorSize \in Offset
  BY Bytes
<1> QED
  BY <1>3, <1>4, <1>5 DEF ByteAt

LEMMA EntryFacts ==
  ASSUME Typed, NEW i \in Entries
  PROVE  /\ i \in 1 .. NumDirEntries
         /\ directory[i] \in [name : Name, sector : Sector]
         /\ directory[i].name \in Name /\ directory[i].sector \in Sector
BY DEF Typed, Entries

(* Nothing happens to the directory and the headers of the files in it.    *)
LEMMA FilesKept ==
  ASSUME FilesInv, UNCHANGED <<freeMap, directory>>,
         \A i \in Entries : header'[directory[i].sector] = HeaderOf(i),
         header' \in [Sector -> Header \cup {NoHeader}],
         data' \in [Sector -> [Offset -> Byte]],
         opened' \in [Handle -> OpenFile \cup {Closed}],
         \A h \in Handle : opened'[h] # Closed =>
           \E i \in Entries : /\ directory[i].name = opened'[h].name
                              /\ opened'[h].hdr = HeaderOf(i)
  PROVE  FilesInv'
<1>1. Entries' = Entries /\ \A i \in Entries : HeaderOf(i)' = HeaderOf(i)
  BY DEF Entries, HeaderOf
<1>2. Typed'
  BY DEF FilesInv, Typed
<1>3. HeadersWellFormed'
  BY <1>1 DEF FilesInv, HeadersWellFormed
<1>4. NamesDiffer' /\ FilesDisjoint'
  BY <1>1 DEF FilesInv, NamesDiffer, FilesDisjoint
<1>5. MapIsRight'
  BY <1>1 DEF FilesInv, MapIsRight
<1>6. OpenedOnDisk'
  BY <1>1 DEF OpenedOnDisk
<1> QED
  BY <1>2, <1>3, <1>4, <1>5, <1>6 DEF FilesInv

-----------------------------------------------------------------------------
LEMMA RemoveStep ==
  ASSUME FilesInv, NEW n \in Name, RemoveFile(n)
  PROVE  FilesInv'
<1>1. OpenAs(n) = {} /\ UNCHANGED <<header, data, opened>>
  BY DEF RemoveFile
<1>2. CASE UNCHANGED <<freeMap, directory>>
  BY <1>1, <1>2, FilesKept DEF FilesInv, Typed, OpenedOnDisk, HeaderOf
<1>3. ASSUME NEW i \in FindIndex(n),
             freeMap' = freeMap \ Deallocated(HeaderOf(i), directory[i].sector),
             directory' = [directory EXCEPT ![i] = NoEntry]
      PROVE  FilesInv'
  <2>1. i \in Entries /\ directory[i].name = n
    BY DEF FindIndex
  <2>2. Entries' = Entries \ {i} /\ \A j \in Entries' : directory'[j] = directory[j]
    BY <1>3, <2>1 DEF FilesInv, Typed, Entries
  <2>3. \A j \in Entries' : j \in Entries /\ HeaderOf(j)' = HeaderOf(j) /\ j # i
    BY <1>1, <2>2 DEF HeaderOf
  <2>4. Deallocated(HeaderOf(i), directory[i].sector) = AllSectors(directory[i].sector, HeaderOf(i))
    BY DEF Deallocated, AllSectors
  <2>5. Typed'
    BY <1>1, <1>3, <2>1 DEF FilesInv, Typed, Entries
  <2>6. HeadersWellFormed' /\ NamesDiffer' /\ FilesDisjoint'
    BY <2>2, <2>3 DEF FilesInv, HeadersWellFormed, NamesDiffer, FilesDisjoint
  <2>7. MapIsRight'
    <3> SUFFICES ASSUME NEW s \in Sector
                 PROVE  s \in freeMap' <=>
                          s < Reserved \/ \E j \in Entries' : s \in AllSectors(directory[j].sector, HeaderOf(j))
      BY <2>2, <2>3 DEF MapIsRight
    <3>1. s \in freeMap' <=> s \in freeMap /\ s \notin AllSectors(directory[i].sector, HeaderOf(i))
      BY <1>3, <2>4
    <3>2. s < Reserved => s \notin AllSectors(directory[i].sector, HeaderOf(i))
      BY <2>1, FilesAssumption DEF FilesInv, HeadersWellFormed, WellFormed, Sector
    <3>3. \A j \in Entries' : s \in AllSectors(directory[j].sector, HeaderOf(j)) =>
            s \notin AllSectors(directory[i].sector, HeaderOf(i))
      BY <2>1, <2>3 DEF FilesInv, FilesDisjoint
    <3> QED
      BY <2>1, <2>2, <3>1, <3>2, <3>3 DEF FilesInv, MapIsRight
  <2>8. OpenedOnDisk'
    <3> SUFFICES ASSUME NEW h \in Handle, opened[h] # Closed
                 PROVE  \E j \in Entries' : directory[j].name = opened[h].name /\ opened[h].hdr = HeaderOf(j)
      BY <1>1, <2>2, <2>3 DEF OpenedOnDisk
    <3>1. PICK j \in Entries : directory[j].name = opened[h].name /\ opened[h].hdr = HeaderOf(j)
      BY DEF FilesInv, OpenedOnDisk
    <3>2. opened[h].name # n
      BY <1>1 DEF OpenAs
    <3> QED
      BY <2>1, <2>2, <3>1, <3>2
  <2> QED
    BY <2>5, <2>6, <2>7, <2>8 DEF FilesInv
<1> QED
  BY <1>2, <1>3 DEF RemoveFile, HeaderOf

-----------------------------------------------------------------------------
(* The sectors of the files in the directory are marked, and not those at  *)
(* the front of the disk.                                                  *)
LEMMA SectorsMarked ==
  ASSUME FilesInv, NEW i \in Entries
  PROVE  /\ AllSectors(directory[i].sector, HeaderOf(i)) \subseteq Sector
         /\ AllSectors(directory[i].sector, HeaderOf(i)) \subseteq freeMap
         /\ HeaderOf(i) \in Header /\ HeaderOf(i).dataSectors \in Seq(Sector)
         /\ HeaderOf(i).numBytes \in Nat
<1>1. WellFormed(directory[i].sector, HeaderOf(i)) /\ directory[i].sector \in Sector
  BY EntryFacts DEF FilesInv, HeadersWellFormed
<1>2. /\ HeaderOf(i) \in Header /\ HeaderOf(i).dataSectors \in Seq(Sector)
      /\ HeaderOf(i).numBytes \in Nat
  BY <1>1, FilesAssumption DEF WellFormed, Header
<1>3. ToSet(HeaderOf(i).dataSectors) \subseteq Sector
  BY <1>2, SeqFacts
<1>4. AllSectors(directory[i].sector, HeaderOf(i)) \subseteq Sector
  BY <1>1, <1>3 DEF AllSectors
<1> QED
  BY <1>2, <1>4 DEF FilesInv, MapIsRight

(* FindAndSet gives clear sectors, and none twice.                         *)
LEMMA FoundSectors ==
  ASSUME Typed, NEW k \in Nat, NEW found \in [1 .. 1 + k -> ClearSectors], FindAndSet(found)
  PROVE  /\ Head(found) \in ClearSectors
         /\ Tail(found) \in Seq(Sector) /\ Len(Tail(found)) = k
         /\ IsInjective(Tail(found)) /\ Head(found) \notin ToSet(Tail(found))
         /\ ToSet(found) = {Head(found)} \cup ToSet(Tail(found))
         /\ ToSet(found) \subseteq ClearSectors
<1>1. DOMAIN found = 1 .. 1 + k /\ \A i \in 1 .. 1 + k : found[i] \in ClearSectors
  OBVIOUS
<1>2. ClearSectors \subseteq Sector /\ ClearSectors \subseteq Int
  BY DEF ClearSectors, Sector
<1>3. \A i, j \in 1 .. 1 + k : j < i => found[i] # found[j]
  BY <1>1 DEF FindAndSet
<1>4. IsInjective(found)
  BY <1>1, <1>3 DEF IsInjective
<1>5. found \in Seq(ClearSectors) /\ Len(found) = 1 + k
  BY <1>1
<1>6. found # <<>>
  BY <1>5, EmptySeq
<1>7. PICK T : T = ClearSectors
  OBVIOUS
<1>8. /\ Head(found) \in ToSet(found) /\ Head(found) \in T /\ Tail(found) \in Seq(T)
      /\ ToSet(found) = ToSet(Tail(found)) \cup {Head(found)}
      /\ IsInjective(Tail(found)) /\ Head(found) \notin ToSet(Tail(found))
  BY <1>4, <1>5, <1>6, <1>7, TailSet
<1>9. ToSet(found) \subseteq T
  BY <1>5, <1>7, SeqFacts
<1>10. Len(Tail(found)) = k
  BY <1>5, <1>6, HeadTailProperties
<1>11. Tail(found) \in Seq(Sector)
  <2>1. PICK rest \in Seq(T) : rest = Tail(found)
    BY <1>8
  <2>2. PICK m \in Nat : rest \in [1 .. m -> T]
    BY <2>1, LenProperties
  <2>3. rest \in [1 .. m -> Sector]
    BY <1>2, <1>7, <2>2
  <2>4. rest \in Seq(Sector)
    BY <2>3
  <2> QED
    BY <2>1, <2>4
<1> QED
  BY <1>7, <1>8, <1>9, <1>10, <1>11

(* Add takes an entry that is not in use.                                  *)
LEMMA FreeEntry ==
  ASSUME Entries # 1 .. NumDirEntries
  PROVE  Min(1 .. NumDirEntries \ Entries) \in 1 .. NumDirEntries \ Entries
<1>1. Entries \subseteq 1 .. NumDirEntries
  BY DEF Entries
<1>2. NumDirEntries \in Nat
  BY FilesAssumption
<1>3. \E x \in 1 .. NumDirEntries : x \notin Entries
  <2> SUFFICES ASSUME \A x \in 1 .. NumDirEntries : x \in Entries
               PROVE  Entries = 1 .. NumDirEntries
    OBVIOUS
  <2> QED
    BY <1>1
<1>4. 1 .. NumDirEntries \ Entries \subseteq Nat /\ 1 .. NumDirEntries \ Entries # {}
  BY <1>2, <1>3
<1> QED
  BY <1>4, MinIsElement

(* What CreateFile does, said of an entry e and a sector s.                *)
Creates(n, size, e, s, sectors) ==
  /\ e \in 1 .. NumDirEntries /\ e \notin Entries
  /\ s \in ClearSectors /\ sectors \in Seq(Sector) /\ s \notin ToSet(sectors)
  /\ Len(sectors) = divRoundUp(size, SectorSize) /\ IsInjective(sectors)
  /\ ToSet(sectors) \subseteq ClearSectors
  /\ header' = [header EXCEPT ![s] = [numBytes |-> size, dataSectors |-> sectors]]
  /\ data' = [data EXCEPT ![s] = [o \in Offset |-> HeaderByte]]
  /\ directory' = [directory EXCEPT ![e] = [name |-> n, sector |-> s]]
  /\ freeMap' = freeMap \cup {s} \cup ToSet(sectors)

LEMMA CreateFacts ==
  ASSUME Typed, NEW n \in Name, NEW size \in Size, ~ CreateFails(n, size), CreateFile(n, size)
  PROVE  FindIndex(n) = {} /\ \E e, s, sectors : Creates(n, size, e, s, sectors)
<1>1. FindIndex(n) = {} /\ Entries # 1 .. NumDirEntries
  BY DEF CreateFails
<1>2. size \in Nat
  BY FilesAssumption
<1>3. PICK k \in Nat : k = divRoundUp(size, SectorSize)
  BY <1>2, SizesRoundUp
<1>4. PICK found \in [1 .. 1 + k -> ClearSectors] :
        /\ FindAndSet(found)
        /\ header' = [header EXCEPT ![Head(found)] =
             [numBytes |-> size, dataSectors |-> Tail(found)]]
        /\ data' = [data EXCEPT ![Head(found)] = [o \in Offset |-> HeaderByte]]
        /\ directory' = [directory EXCEPT ![Min(1 .. NumDirEntries \ Entries)] =
                                             [name |-> n, sector |-> Head(found)]]
        /\ freeMap' = freeMap \cup ToSet(found)
  BY <1>3 DEF CreateFile
<1>5. Min(1 .. NumDirEntries \ Entries) \in 1 .. NumDirEntries \ Entries
  BY <1>1, FreeEntry
<1>6. /\ Head(found) \in ClearSectors
      /\ Tail(found) \in Seq(Sector) /\ Len(Tail(found)) = k
      /\ IsInjective(Tail(found)) /\ Head(found) \notin ToSet(Tail(found))
      /\ ToSet(found) = {Head(found)} \cup ToSet(Tail(found))
      /\ ToSet(found) \subseteq ClearSectors
  BY <1>4, FoundSectors
<1>7. Creates(n, size, Min(1 .. NumDirEntries \ Entries), Head(found), Tail(found))
  BY <1>3, <1>4, <1>5, <1>6 DEF Creates
<1> QED
  BY <1>1, <1>7

LEMMA CreateKeepsInv ==
  ASSUME FilesInv, NEW n \in Name, NEW size \in Size, FindIndex(n) = {}, UNCHANGED opened,
         NEW e, NEW s, NEW sectors, Creates(n, size, e, s, sectors)
  PROVE  FilesInv'
<1> DEFINE hdr == [numBytes |-> size, dataSectors |-> sectors]
<1>1. /\ e \in 1 .. NumDirEntries /\ e \notin Entries
      /\ s \in Sector /\ s \notin freeMap /\ sectors \in Seq(Sector) /\ s \notin ToSet(sectors)
      /\ Len(sectors) = divRoundUp(size, SectorSize) /\ IsInjective(sectors)
      /\ ToSet(sectors) \subseteq Sector /\ ToSet(sectors) \cap freeMap = {}
      /\ header' = [header EXCEPT ![s] = hdr]
      /\ data' = [data EXCEPT ![s] = [o \in Offset |-> HeaderByte]]
      /\ directory' = [directory EXCEPT ![e] = [name |-> n, sector |-> s]]
      /\ freeMap' = freeMap \cup {s} \cup ToSet(sectors)
  BY DEF Creates, ClearSectors
<1>2. hdr \in Header /\ hdr.numBytes = size /\ hdr.dataSectors = sectors
  BY <1>1 DEF Header
<1>3. PICK all : all = AllSectors(s, hdr)
  OBVIOUS
<1>4. all = {s} \cup ToSet(sectors) /\ all \subseteq Sector /\ all \cap freeMap = {}
  BY <1>1, <1>2, <1>3 DEF AllSectors
<1> HIDE DEF hdr
<1>5. /\ Entries' = Entries \cup {e} /\ directory'[e] = [name |-> n, sector |-> s]
      /\ \A i \in Entries : directory'[i] = directory[i] /\ i # e
  <2>1. [name |-> n, sector |-> s] # NoEntry
    BY <1>1, FilesAssumption
  <2> QED
    BY <1>1, <2>1 DEF FilesInv, Typed, Entries
<1>6. HeaderOf(e)' = hdr /\ AllSectors(directory[e].sector, HeaderOf(e))' = all
  BY <1>1, <1>3, <1>5 DEF FilesInv, Typed, HeaderOf, AllSectors
<1>7. \A i \in Entries : HeaderOf(i)' = HeaderOf(i)
  <2> TAKE i \in Entries
  <2>1. directory[i].sector \in freeMap
    BY SectorsMarked DEF AllSectors
  <2> QED
    BY <1>1, <1>5, <2>1 DEF HeaderOf
<1>8. \A i \in Entries : AllSectors(directory[i].sector, HeaderOf(i))'
                           = AllSectors(directory[i].sector, HeaderOf(i))
  BY <1>5, <1>7 DEF AllSectors
<1>9. Typed'
  <2>1. header' \in [Sector -> Header \cup {NoHeader}]
    BY <1>1, <1>2 DEF FilesInv, Typed
  <2>2. data' \in [Sector -> [Offset -> Byte]]
    BY <1>1, FilesAssumption DEF FilesInv, Typed
  <2>3. directory' \in [1 .. NumDirEntries -> [name : Name, sector : Sector] \cup {NoEntry}]
    BY <1>1 DEF FilesInv, Typed
  <2> QED
    BY <1>1, <2>1, <2>2, <2>3 DEF FilesInv, Typed
<1>10. 0 .. Reserved - 1 \subseteq freeMap
  BY FilesAssumption DEF FilesInv, MapIsRight, Sector
<1>11. WellFormed(s, hdr)
  <2>1. AllSectors(s, hdr) \cap (0 .. Reserved - 1) = {}
    BY <1>3, <1>4, <1>10
  <2> QED
    BY <1>1, <1>2, <2>1 DEF WellFormed
<1>12. HeadersWellFormed'
  <2>1. ASSUME NEW i \in Entries
        PROVE  WellFormed(directory[i].sector, HeaderOf(i))'
    BY <1>5, <1>7 DEF FilesInv, HeadersWellFormed, WellFormed, AllSectors
  <2>2. WellFormed(directory[e].sector, HeaderOf(e))'
    BY <1>5, <1>6, <1>11 DEF WellFormed, AllSectors
  <2> QED
    BY <1>5, <2>1, <2>2 DEF HeadersWellFormed
<1>13. NamesDiffer'
  <2>1. \A i \in Entries : directory[i].name # n
    BY DEF FindIndex
  <2> QED
    BY <1>5, <2>1 DEF FilesInv, NamesDiffer
<1>14. FilesDisjoint'
  <2>1. \A i \in Entries : AllSectors(directory[i].sector, HeaderOf(i)) \cap all = {}
    BY <1>4, SectorsMarked
  <2> QED
    BY <1>5, <1>6, <1>8, <2>1 DEF FilesInv, FilesDisjoint
<1>15. MapIsRight'
  <2> SUFFICES ASSUME NEW t \in Sector
               PROVE  t \in freeMap' <=>
                        \/ t < Reserved
                        \/ \E i \in Entries' : t \in AllSectors(directory[i].sector, HeaderOf(i))'
    BY DEF MapIsRight
  <2>1. t \in freeMap' <=> t \in freeMap \/ t \in all
    BY <1>1, <1>4
  <2> QED
    BY <1>5, <1>6, <1>8, <2>1 DEF FilesInv, MapIsRight
<1>16. OpenedOnDisk'
  <2> SUFFICES ASSUME NEW h \in Handle, opened[h] # Closed
               PROVE  \E i \in Entries' : directory'[i].name = opened[h].name /\ opened[h].hdr = HeaderOf(i)'
    BY DEF OpenedOnDisk
  <2>1. PICK i \in Entries : directory[i].name = opened[h].name /\ opened[h].hdr = HeaderOf(i)
    BY DEF FilesInv, OpenedOnDisk
  <2> QED
    BY <1>5, <1>7, <2>1
<1> QED
  BY <1>9, <1>12, <1>13, <1>14, <1>15, <1>16 DEF FilesInv

LEMMA CreateStep ==
  ASSUME FilesInv, NEW n \in Name, NEW size \in Size, Create(n, size)
  PROVE  FilesInv'
<1>1. CASE CreateFails(n, size)
  <2>1. UNCHANGED <<freeMap, directory, header, data, opened>>
    BY <1>1 DEF Create
  <2> QED
    BY <2>1, FilesKept DEF FilesInv, Typed, OpenedOnDisk, HeaderOf
<1>2. CASE ~ CreateFails(n, size)
  <2>1. CreateFile(n, size) /\ UNCHANGED opened
    BY <1>2 DEF Create
  <2> QED
    BY <1>2, <2>1, CreateFacts, CreateKeepsInv DEF FilesInv
<1> QED
  BY <1>1, <1>2

-----------------------------------------------------------------------------
(* Operations on an OpenFile: what is open stays open, with the same name  *)
(* and header.                                                             *)
LEMMA Moves ==
  ASSUME FilesInv, NEW h \in Handle, opened[h] # Closed, NEW p \in Nat,
         opened' = [opened EXCEPT ![h].seekPosition = p]
  PROVE  /\ opened[h] \in OpenFile
         /\ opened' \in [Handle -> OpenFile \cup {Closed}]
         /\ opened'[h] = [opened[h] EXCEPT !.seekPosition = p] /\ opened'[h] # Closed
         /\ opened'[h].seekPosition = p
         /\ \A g \in Handle : opened'[g] # Closed =>
              /\ opened[g] # Closed
              /\ opened'[g].name = opened[g].name /\ opened'[g].hdr = opened[g].hdr
         /\ \A g \in Handle \ {h} : opened'[g] = opened[g]
<1>1. opened \in [Handle -> OpenFile \cup {Closed}] /\ opened[h] \in OpenFile
  BY DEF FilesInv, Typed
<1>2. PICK file : file = [opened[h] EXCEPT !.seekPosition = p]
  OBVIOUS
<1>3. /\ file \in OpenFile /\ file.name = opened[h].name /\ file.hdr = opened[h].hdr
      /\ file.seekPosition = p
  BY <1>1, <1>2 DEF OpenFile
<1>4. file # Closed
  BY <1>3, FilesAssumption DEF OpenFile, Header
<1>5. opened' = [opened EXCEPT ![h] = file]
  BY <1>1, <1>2
<1>6. opened'[h] = file /\ \A g \in Handle \ {h} : opened'[g] = opened[g]
  BY <1>1, <1>5
<1>7. opened' \in [Handle -> OpenFile \cup {Closed}]
  BY <1>1, <1>3, <1>5
<1> QED
  BY <1>1, <1>2, <1>3, <1>4, <1>6, <1>7

LEMMA MovedFacts ==
  ASSUME NEW file \in OpenFile, NEW n \in Nat
  PROVE  /\ file.seekPosition \in Nat /\ file.hdr \in Header /\ file.hdr.numBytes \in Nat
         /\ Moved(file, n) \in Nat /\ Moved(file, n) <= n
         /\ Moved(file, n) > 0 => file.seekPosition + Moved(file, n) <= file.hdr.numBytes
         /\ n <= file.hdr.numBytes - file.seekPosition => Moved(file, n) = n
         /\ file.hdr.numBytes - file.seekPosition < n =>
              \/ Moved(file, n) = file.hdr.numBytes - file.seekPosition
              \/ Moved(file, n) = 0 /\ file.hdr.numBytes - file.seekPosition < 0
<1>1. file.seekPosition \in Nat /\ file.hdr \in Header /\ file.hdr.numBytes \in Nat
  BY FilesAssumption DEF OpenFile, Header
<1> QED
  BY <1>1 DEF Moved, Greatest, Least

LEMMA DataFacts ==
  ASSUME NEW bytes \in Data
  PROVE  /\ bytes \in Seq(Byte) /\ Len(bytes) \in Size /\ Len(bytes) \in Nat
<1>1. PICK n \in Size : bytes \in [1 .. n -> Byte]
  BY DEF Data
<1>2. n \in Nat
  BY FilesAssumption
<1> QED
  BY <1>1, <1>2

(* The file of an OpenFile, in the directory.                              *)
LEMMA FileOfHandle ==
  ASSUME FilesInv, NEW h \in Handle, opened[h] # Closed
  PROVE  /\ opened[h] \in OpenFile /\ opened[h].hdr.dataSectors \in Seq(Sector)
         /\ \E i \in Entries : /\ directory[i].name = opened[h].name
                               /\ opened[h].hdr = HeaderOf(i)
                               /\ WellFormed(directory[i].sector, opened[h].hdr)
<1>1. opened[h] \in OpenFile
  BY DEF FilesInv, Typed
<1>2. opened[h].hdr.dataSectors \in Seq(Sector)
  BY <1>1 DEF OpenFile, Header
<1>3. PICK i \in Entries : directory[i].name = opened[h].name /\ opened[h].hdr = HeaderOf(i)
  BY DEF FilesInv, OpenedOnDisk
<1>4. WellFormed(directory[i].sector, opened[h].hdr)
  BY <1>3 DEF FilesInv, HeadersWellFormed
<1> QED
  BY <1>1, <1>2, <1>3, <1>4

LEMMA OpenStep ==
  ASSUME FilesInv, NEW h \in Handle, NEW n \in Name, Open(h, n)
  PROVE  FilesInv'
<1>1. UNCHANGED <<freeMap, directory, header, data>>
  BY DEF Open
<1>2. CASE UNCHANGED opened
  BY <1>1, <1>2, FilesKept DEF FilesInv, Typed, OpenedOnDisk, HeaderOf
<1>3. ASSUME NEW i \in FindIndex(n),
             opened' = [opened EXCEPT ![h] =
               [name |-> n, hdr |-> HeaderOf(i), seekPosition |-> 0]]
      PROVE  FilesInv'
  <2>1. i \in Entries /\ directory[i].name = n
    BY DEF FindIndex
  <2>2. HeaderOf(i) \in Header
    BY <2>1, SectorsMarked
  <2>3. PICK file : file = [name |-> n, hdr |-> HeaderOf(i), seekPosition |-> 0]
    OBVIOUS
  <2>4. file \in OpenFile /\ file.name = n /\ file.hdr = HeaderOf(i)
    BY <2>2, <2>3 DEF OpenFile
  <2>5. /\ opened' \in [Handle -> OpenFile \cup {Closed}]
        /\ opened'[h] = file /\ \A g \in Handle \ {h} : opened'[g] = opened[g]
    BY <1>3, <2>3, <2>4 DEF FilesInv, Typed
  <2>6. \A g \in Handle : opened'[g] # Closed =>
          \E j \in Entries : directory[j].name = opened'[g].name /\ opened'[g].hdr = HeaderOf(j)
    BY <2>1, <2>4, <2>5 DEF FilesInv, OpenedOnDisk
  <2> QED
    BY <1>1, <2>5, <2>6, FilesKept DEF FilesInv, Typed, HeaderOf
<1> QED
  BY <1>2, <1>3 DEF Open, HeaderOf

(* Seek and Read change the position of an OpenFile only.                  *)
LEMMA OnlyMoves ==
  ASSUME FilesInv, NEW h \in Handle, opened[h] # Closed, NEW p \in Nat,
         opened' = [opened EXCEPT ![h].seekPosition = p],
         UNCHANGED Disk
  PROVE  FilesInv'
<1>1. UNCHANGED <<freeMap, directory, header, data>>
  BY DEF Disk
<1>2. \A g \in Handle : opened'[g] # Closed =>
        \E i \in Entries : directory[i].name = opened'[g].name /\ opened'[g].hdr = HeaderOf(i)
  BY Moves DEF FilesInv, OpenedOnDisk
<1>3. opened' \in [Handle -> OpenFile \cup {Closed}]
  BY Moves
<1> QED
  BY <1>1, <1>2, <1>3, FilesKept DEF FilesInv, Typed, HeaderOf

LEMMA SeekStep ==
  ASSUME FilesInv, NEW h \in Handle, NEW n \in Size, Seek(h, n)
  PROVE  FilesInv'
BY OnlyMoves, FilesAssumption DEF Seek

(* What Read and Write do to the position.                                 *)
LEMMA Advances ==
  ASSUME FilesInv, NEW h \in Handle, opened[h] # Closed, NEW n \in Nat,
         opened' = [opened EXCEPT ![h].seekPosition = @ + n]
  PROVE  /\ opened' = [opened EXCEPT ![h].seekPosition = opened[h].seekPosition + n]
         /\ opened[h].seekPosition + n \in Nat
<1>1. opened[h] \in OpenFile
  BY DEF FilesInv, Typed
<1> QED
  BY <1>1 DEF OpenFile

LEMMA ReadStep ==
  ASSUME FilesInv, NEW h \in Handle, NEW n \in Size, Read(h, n)
  PROVE  FilesInv'
<1>1. opened[h] # Closed /\ opened[h] \in OpenFile /\ n \in Nat /\ UNCHANGED Disk
  BY FilesAssumption DEF Read, FilesInv, Typed
<1>2. PICK count \in Nat : count = Moved(opened[h], n)
  BY <1>1, MovedFacts
<1>3. opened' = [opened EXCEPT ![h].seekPosition = @ + count]
  BY <1>2 DEF Read
<1> QED
  BY <1>1, <1>3, Advances, OnlyMoves

LEMMA CloseStep ==
  ASSUME FilesInv, NEW h \in Handle, Close(h)
  PROVE  FilesInv'
<1>1. UNCHANGED <<freeMap, directory, header, data>>
  BY DEF Close, Disk
<1>2. /\ opened' \in [Handle -> OpenFile \cup {Closed}]
      /\ \A g \in Handle : opened'[g] # Closed => opened'[g] = opened[g]
  BY DEF Close, FilesInv, Typed
<1> QED
  BY <1>1, <1>2, FilesKept DEF FilesInv, Typed, OpenedOnDisk, HeaderOf

LEMMA RestartStep ==
  ASSUME FilesInv, Restart
  PROVE  FilesInv'
<1>1. UNCHANGED <<freeMap, directory, header, data>>
  BY DEF Restart, Disk
<1>2. /\ opened' \in [Handle -> OpenFile \cup {Closed}]
      /\ \A g \in Handle : opened'[g] = Closed
  BY DEF Restart
<1> QED
  BY <1>1, <1>2, FilesKept DEF FilesInv, Typed, HeaderOf

-----------------------------------------------------------------------------
(* What Write does, said of the header and the position of the OpenFile.   *)
DataWritten(hdr, pos, end, bytes, junk) ==
  data' = [s \in Sector |->
             IF Touched(hdr, s, pos, end) = {} THEN data[s]
             ELSE NewSector(hdr, CHOOSE i \in Touched(hdr, s, pos, end) : TRUE, pos, bytes, junk)]

Writes(h, hdr, pos, end, bytes, junk) ==
  /\ opened' = [opened EXCEPT ![h].seekPosition = end]
  /\ DataWritten(hdr, pos, end, bytes, junk)
  /\ header' = [s \in Sector |->
                  IF Touched(hdr, s, pos, end) = {} THEN header[s] ELSE NoHeader]
  /\ UNCHANGED <<freeMap, directory>>

LEMMA WriteFacts ==
  ASSUME FilesInv, NEW h \in Handle, NEW from \in Data, Write(h, from)
  PROVE  /\ opened[h] # Closed /\ opened[h] \in OpenFile
         /\ \E bytes \in Seq(Byte) :
              /\ bytes = SubSeq(from, 1, Moved(opened[h], Len(from)))
              /\ Len(bytes) = Moved(opened[h], Len(from)) /\ Len(bytes) \in Nat
              /\ result' = [ok |-> TRUE, bytes |-> bytes]
              /\ \/ Len(bytes) = 0 /\ UNCHANGED <<freeMap, directory, header, data, opened>>
                 \/ /\ Len(bytes) > 0
                    /\ opened[h].seekPosition + Len(bytes) <= opened[h].hdr.numBytes
                    /\ \E junk \in [Offset -> Byte] :
                         Writes(h, opened[h].hdr, opened[h].seekPosition,
                                opened[h].seekPosition + Len(bytes), bytes, junk)
<1> DEFINE bytes == SubSeq(from, 1, Moved(opened[h], Len(from)))
<1>1. /\ opened \in [Handle -> OpenFile \cup {Closed}]
      /\ opened[h] # Closed /\ opened[h] \in OpenFile
  BY DEF Write, FilesInv, Typed
<1>2. opened[h].seekPosition \in Nat
  BY <1>1 DEF OpenFile
<1>3. from \in Seq(Byte) /\ Len(from) \in Nat
  BY DataFacts
<1>4. PICK count \in Nat : count = Moved(opened[h], Len(from))
  BY <1>1, <1>3, MovedFacts
<1>5. count <= Len(from) /\ (count > 0 => opened[h].seekPosition + count <= opened[h].hdr.numBytes)
  BY <1>1, <1>3, <1>4, MovedFacts
<1>6. bytes \in Seq(Byte) /\ Len(bytes) = count /\ (bytes = <<>> <=> count = 0)
  <2>1. PICK b \in Seq(Byte) : b = SubSeq(from, 1, count) /\ Len(b) = count
    <3>1. \A k \in 1 .. count : from[k] \in Byte
      BY <1>3, <1>5, ElementOfSeq
    <3>2. /\ SubSeq(from, 1, count) \in Seq(Byte)
          /\ Len(SubSeq(from, 1, count)) = IF 1 <= count THEN count - 1 + 1 ELSE 0
      BY <3>1, SubSeqProperties
    <3>3. (IF 1 <= count THEN count - 1 + 1 ELSE 0) = count
      OBVIOUS
    <3> QED
      BY <3>2, <3>3, Zenon
  <2>2. b = <<>> <=> Len(b) = 0
    BY SeqFacts
  <2> QED
    BY <1>4, <2>1, <2>2
<1>7. /\ result' = [ok |-> TRUE, bytes |-> bytes]
      /\ opened' = [opened EXCEPT ![h].seekPosition = @ + Len(bytes)]
      /\ UNCHANGED <<freeMap, directory>>
  BY DEF Write, Answer
<1>8. bytes = <<>> => UNCHANGED <<header, data>>
  BY DEF Write
<1>9. bytes # <<>> => \E junk \in [Offset -> Byte] :
        /\ data' = [s \in Sector |->
             IF Touched(opened[h].hdr, s, opened[h].seekPosition,
                        opened[h].seekPosition + Len(bytes)) = {} THEN data[s]
             ELSE NewSector(opened[h].hdr,
                    CHOOSE i \in Touched(opened[h].hdr, s, opened[h].seekPosition,
                                         opened[h].seekPosition + Len(bytes)) : TRUE,
                    opened[h].seekPosition, bytes, junk)]
        /\ header' = [s \in Sector |->
             IF Touched(opened[h].hdr, s, opened[h].seekPosition,
                        opened[h].seekPosition + Len(bytes)) = {} THEN header[s]
             ELSE NoHeader]
  BY Zenon DEF Write
<1> HIDE DEF bytes
<1>10. opened' = [opened EXCEPT ![h].seekPosition = opened[h].seekPosition + Len(bytes)]
  BY <1>1, <1>6, <1>7, Advances
<1>11. CASE count = 0
  <2>1. opened' = opened
    BY <1>1, <1>2, <1>6, <1>10, <1>11 DEF OpenFile
  <2> QED
    BY <1>1, <1>4, <1>6, <1>7, <1>8, <1>11, <2>1 DEF bytes
<1>12. CASE count > 0
  <2>1. PICK junk \in [Offset -> Byte] :
          Writes(h, opened[h].hdr, opened[h].seekPosition,
                 opened[h].seekPosition + Len(bytes), bytes, junk)
    <3>1. bytes # <<>>
      BY <1>6, <1>12
    <3> QED
      BY <1>7, <1>9, <1>10, <3>1, Zenon DEF Writes, DataWritten
  <2>2. bytes = SubSeq(from, 1, Moved(opened[h], Len(from)))
    BY DEF bytes
  <2> QED
    BY <1>1, <1>4, <1>5, <1>6, <1>7, <1>12, <2>1, <2>2
<1> QED
  BY <1>4, <1>11, <1>12

(* A sector that is touched is one of the data of the file, at the only    *)
(* place that the file has it.                                             *)
LEMMA TouchedFacts ==
  ASSUME NEW s, NEW hdr, WellFormed(s, hdr), NEW t, NEW pos \in Nat, NEW end \in Nat,
         NEW i \in Touched(hdr, t, pos, end)
  PROVE  /\ i \in Nat /\ i + 1 \in 1 .. Len(hdr.dataSectors) /\ hdr.dataSectors[i + 1] = t
         /\ i \in pos \div SectorSize .. (end - 1) \div SectorSize
         /\ t \in ToSet(hdr.dataSectors) /\ t # s
         /\ \A j \in Touched(hdr, t, pos, end) : j = i
<1>1. hdr.dataSectors \in Seq(Sector) /\ IsInjective(hdr.dataSectors)
      /\ s \notin ToSet(hdr.dataSectors)
  BY DEF WellFormed, Header
<1>2. PICK list \in Seq(Sector) : list = hdr.dataSectors
  BY <1>1
<1>3. Len(list) \in Nat /\ DOMAIN list = 1 .. Len(list)
  BY LenProperties
<1>4. \A j \in Touched(hdr, t, pos, end) :
        /\ j \in Nat /\ j + 1 \in 1 .. Len(list) /\ list[j + 1] = t
        /\ j \in pos \div SectorSize .. (end - 1) \div SectorSize
  BY <1>2, <1>3 DEF Touched
<1>5. t \in ToSet(list)
  BY <1>3, <1>4 DEF ToSet
<1>6. \A j \in Touched(hdr, t, pos, end) : j = i
  <2> TAKE j \in Touched(hdr, t, pos, end)
  <2>1. j + 1 = i + 1
    BY <1>1, <1>2, <1>3, <1>4 DEF IsInjective
  <2> QED
    BY <1>4, <2>1
<1> QED
  BY <1>1, <1>2, <1>4, <1>5, <1>6

(* What is in a sector afterwards are bytes: the rest of a sector of which *)
(* a part is written comes from the disk only where the file goes.         *)
LEMMA NewSectorBytes ==
  ASSUME data \in [Sector -> [Offset -> Byte]], NEW s, NEW hdr, WellFormed(s, hdr),
         NEW i \in Nat, NEW pos \in Nat, NEW bytes \in Seq(Byte), NEW junk \in [Offset -> Byte]
  PROVE  NewSector(hdr, i, pos, bytes, junk) \in [Offset -> Byte]
<1> DEFINE at(o) == i * SectorSize + o
           byte(o) == IF at(o) \in pos .. pos + Len(bytes) - 1 THEN bytes[at(o) - pos + 1]
                      ELSE IF ReadFirst(i, pos, pos + Len(bytes)) /\ at(o) < hdr.numBytes
                           THEN ByteAt(hdr, at(o))
                      ELSE junk[o]
<1>1. NewSector(hdr, i, pos, bytes, junk) = [o \in Offset |-> byte(o)]
  BY DEF NewSector
<1>2. ASSUME NEW o \in Offset PROVE byte(o) \in Byte
  <2>1. at(o) \in Nat
    BY Bytes
  <2>2. CASE at(o) \in pos .. pos + Len(bytes) - 1
    <3>1. at(o) - pos + 1 \in 1 .. Len(bytes)
      BY <2>1, <2>2, LenProperties
    <3> HIDE DEF at
    <3> QED
      BY <2>2, <3>1, ElementOfSeq
  <2>3. CASE at(o) \notin pos .. pos + Len(bytes) - 1
    <3>1. at(o) < hdr.numBytes => ByteAt(hdr, at(o)) \in Byte
      BY <2>1, ByteInFile
    <3> HIDE DEF at
    <3> QED
      BY <2>3, <3>1
  <2> QED
    BY <2>2, <2>3
<1> HIDE DEF byte
<1> QED
  BY <1>1, <1>2

(* The headers of the files stay: none of them is in a sector that is      *)
(* written.                                                                *)
LEMMA HeadersStay ==
  ASSUME FilesInv, NEW h \in Handle, opened[h] # Closed, NEW pos \in Nat, NEW end \in Nat,
         NEW j \in Entries
  PROVE  Touched(opened[h].hdr, directory[j].sector, pos, end) = {}
<1> SUFFICES ASSUME NEW k \in Touched(opened[h].hdr, directory[j].sector, pos, end)
             PROVE  FALSE
  OBVIOUS
<1>1. PICK i \in Entries : /\ directory[i].name = opened[h].name
                           /\ opened[h].hdr = HeaderOf(i)
                           /\ WellFormed(directory[i].sector, opened[h].hdr)
  BY FileOfHandle
<1>2. /\ directory[j].sector \in ToSet(HeaderOf(i).dataSectors)
      /\ directory[j].sector # directory[i].sector
  BY <1>1, TouchedFacts
<1> QED
  BY <1>2 DEF FilesInv, FilesDisjoint, AllSectors

LEMMA WriteStep ==
  ASSUME FilesInv, NEW h \in Handle, NEW from \in Data, Write(h, from)
  PROVE  FilesInv'
<1>1. opened[h] # Closed /\ opened[h] \in OpenFile
  BY WriteFacts
<1>2. CASE UNCHANGED <<freeMap, directory, header, data, opened>>
  BY <1>2, FilesKept DEF FilesInv, Typed, OpenedOnDisk, HeaderOf
<1>3. ASSUME NEW bytes \in Seq(Byte), NEW junk \in [Offset -> Byte],
             Writes(h, opened[h].hdr, opened[h].seekPosition,
                    opened[h].seekPosition + Len(bytes), bytes, junk)
      PROVE  FilesInv'
  <2>1. PICK pos \in Nat : pos = opened[h].seekPosition
    BY <1>1 DEF OpenFile
  <2>2. PICK hdr : hdr = opened[h].hdr
    OBVIOUS
  <2>3. PICK end \in Nat : end = pos + Len(bytes)
    BY LenProperties
  <2>4. /\ opened' = [opened EXCEPT ![h].seekPosition = end]
        /\ data' = [s \in Sector |->
                IF Touched(hdr, s, pos, end) = {} THEN data[s]
                ELSE NewSector(hdr, CHOOSE i \in Touched(hdr, s, pos, end) : TRUE,
                               pos, bytes, junk)]
        /\ header' = [s \in Sector |->
                IF Touched(hdr, s, pos, end) = {} THEN header[s] ELSE NoHeader]
        /\ UNCHANGED <<freeMap, directory>>
    <3>1. Writes(h, hdr, pos, end, bytes, junk)
      BY <1>3, <2>1, <2>2, <2>3
    <3> QED
      BY <3>1, Zenon DEF Writes, DataWritten
  <2>5. PICK e \in Entries : WellFormed(directory[e].sector, hdr)
    BY <1>1, <2>2, FileOfHandle
  <2>6. data' \in [Sector -> [Offset -> Byte]]
    <3>1. ASSUME NEW s \in Sector, Touched(hdr, s, pos, end) # {}
          PROVE  NewSector(hdr, CHOOSE i \in Touched(hdr, s, pos, end) : TRUE, pos, bytes, junk)
                   \in [Offset -> Byte]
      <4>1. PICK i : i = CHOOSE j \in Touched(hdr, s, pos, end) : TRUE
        OBVIOUS
      <4>2. i \in Touched(hdr, s, pos, end)
        BY <3>1, <4>1
      <4>3. i \in Nat
        BY <2>5, <4>2, TouchedFacts
      <4> QED
        BY <2>5, <4>1, <4>3, NewSectorBytes DEF FilesInv, Typed
    <3> QED
      BY <2>4, <3>1 DEF FilesInv, Typed
  <2>7. header' \in [Sector -> Header \cup {NoHeader}]
    BY <2>4 DEF FilesInv, Typed
  <2>8. \A j \in Entries : header'[directory[j].sector] = HeaderOf(j)
    <3> TAKE j \in Entries
    <3>1. Touched(hdr, directory[j].sector, pos, end) = {}
      BY <1>1, <2>2, HeadersStay
    <3>2. directory[j].sector \in Sector
      BY EntryFacts DEF FilesInv
    <3> QED
      BY <2>4, <3>1, <3>2 DEF HeaderOf
  <2>9. opened' \in [Handle -> OpenFile \cup {Closed}]
    BY <1>1, <2>4, Moves
  <2>10. \A g \in Handle : opened'[g] # Closed =>
           \E i \in Entries : directory[i].name = opened'[g].name /\ opened'[g].hdr = HeaderOf(i)
    BY <1>1, <2>4, Moves DEF FilesInv, OpenedOnDisk
  <2> QED
    BY <2>4, <2>6, <2>7, <2>8, <2>9, <2>10, FilesKept
<1> QED
  BY <1>2, <1>3, WriteFacts

-----------------------------------------------------------------------------
LEMMA InitHolds == Init => FilesInv
<1> SUFFICES ASSUME Init PROVE FilesInv
  OBVIOUS
<1>1. Entries = {}
  BY DEF Init, Entries
<1>2. Typed
  <2>1. freeMap \subseteq Sector
    BY FilesAssumption DEF Init, Sector
  <2> QED
    BY <2>1 DEF Init, Typed
<1>3. MapIsRight
  BY <1>1, FilesAssumption DEF Init, MapIsRight, Sector
<1>4. OpenedOnDisk
  BY DEF Init, OpenedOnDisk
<1> QED
  BY <1>1, <1>2, <1>3, <1>4 DEF FilesInv, HeadersWellFormed, NamesDiffer, FilesDisjoint

LEMMA NextHolds == FilesInv /\ [Next]_vars => FilesInv'
<1> SUFFICES ASSUME FilesInv, [Next]_vars PROVE FilesInv'
  OBVIOUS
<1>1. ASSUME NEW n \in Name, NEW size \in Size, Create(n, size) PROVE FilesInv'
  BY <1>1, CreateStep
<1>2. ASSUME NEW n \in Name, RemoveFile(n) PROVE FilesInv'
  BY <1>2, RemoveStep
<1>3. ASSUME NEW h \in Handle, NEW n \in Name, Open(h, n) PROVE FilesInv'
  BY <1>3, OpenStep
<1>4. ASSUME NEW h \in Handle, NEW n \in Size, Seek(h, n) \/ Read(h, n) PROVE FilesInv'
  BY <1>4, SeekStep, ReadStep
<1>5. ASSUME NEW h \in Handle, NEW bytes \in Data, Write(h, bytes) PROVE FilesInv'
  BY <1>5, WriteStep
<1>6. ASSUME NEW h \in Handle, Close(h) PROVE FilesInv'
  BY <1>6, CloseStep
<1>7. CASE Restart
  BY <1>7, RestartStep
<1>8. CASE UNCHANGED vars
  BY <1>8, FilesKept DEF vars, FilesInv, Typed, OpenedOnDisk, HeaderOf
<1> QED
  BY <1>1, <1>2, <1>3, <1>4, <1>5, <1>6, <1>7, <1>8 DEF Next

(* The headers of the files in the directory are as long as their files    *)
(* need, no two files share a sector or a name, and the bitmap is the set  *)
(* of their sectors, however long the system runs and is started again.    *)
THEOREM FilesInvariant == Spec => []FilesInv
BY InitHolds, NextHolds, PTL DEF Spec

LEMMA InvOwns == FilesInv => SectorsOwned
<1> SUFFICES ASSUME FilesInv PROVE SectorsOwned
  OBVIOUS
<1>1. \A i \in Entries : AllSectors(directory[i].sector, HeaderOf(i)) = Owns(directory[i].sector)
  BY DEF AllSectors, HeaderOf, Owns
<1>2. TypeOK
  BY DEF TypeOK, FilesInv, Typed, Header
<1>3. ASSUME NEW i \in Entries
      PROVE  /\ HeaderOf(i) # NoHeader
             /\ Cardinality(Owns(directory[i].sector)) = 1 + divRoundUp(HeaderOf(i).numBytes, SectorSize)
             /\ Owns(directory[i].sector) \cap (0 .. Reserved - 1) = {}
             /\ \A j \in Entries \ {i} :
                  /\ directory[i].name # directory[j].name
                  /\ Owns(directory[i].sector) \cap Owns(directory[j].sector) = {}
  <2>1. PICK s : s = directory[i].sector
    OBVIOUS
  <2>2. PICK list \in Seq(Sector) : list = HeaderOf(i).dataSectors
    BY SectorsMarked
  <2>3. WellFormed(s, HeaderOf(i))
    BY <2>1 DEF FilesInv, HeadersWellFormed
  <2>4. /\ HeaderOf(i) \in Header /\ Len(list) = divRoundUp(HeaderOf(i).numBytes, SectorSize)
        /\ IsInjective(list) /\ s \notin ToSet(list)
        /\ AllSectors(s, HeaderOf(i)) \cap (0 .. Reserved - 1) = {}
    BY <2>2, <2>3 DEF WellFormed
  <2>5. HeaderOf(i) # NoHeader
    BY <2>4, FilesAssumption DEF Header
  <2>6. Owns(s) = ToSet(list) \cup {s}
    BY <2>1, <2>2 DEF Owns, HeaderOf
  <2>7. IsFiniteSet(ToSet(list)) /\ Cardinality(ToSet(list)) = Len(list) /\ Len(list) \in Nat
    BY <2>4, InjectiveLength, LenProperties
  <2>8. Cardinality(ToSet(list) \cup {s}) = Len(list) + 1
    BY <2>4, <2>7, FS_AddElement
  <2>9. Cardinality(Owns(s)) = 1 + divRoundUp(HeaderOf(i).numBytes, SectorSize)
    BY <2>4, <2>6, <2>7, <2>8
  <2> QED
    BY <1>1, <2>1, <2>4, <2>5, <2>9 DEF FilesInv, NamesDiffer, FilesDisjoint
<1>4. freeMap = 0 .. Reserved - 1 \cup UNION {Owns(directory[i].sector) : i \in Entries}
  <2>1. ASSUME NEW s \in freeMap
        PROVE  s \in 0 .. Reserved - 1 \/ \E i \in Entries : s \in Owns(directory[i].sector)
    <3>1. s \in Sector
      BY DEF FilesInv, Typed
    <3> QED
      BY <1>1, <3>1, FilesAssumption DEF FilesInv, MapIsRight, Sector
  <2>2. 0 .. Reserved - 1 \subseteq freeMap
    BY FilesAssumption DEF FilesInv, MapIsRight, Sector
  <2>3. \A i \in Entries : Owns(directory[i].sector) \subseteq freeMap
    BY <1>1, SectorsMarked
  <2> QED
    BY <2>1, <2>2, <2>3
<1>5. \A h \in Handle : opened[h] # Closed =>
        \E i \in FindIndex(opened[h].name) : opened[h].hdr = header[directory[i].sector]
  BY DEF FilesInv, OpenedOnDisk, FindIndex, HeaderOf
<1> QED
  BY <1>2, <1>3, <1>4, <1>5 DEF SectorsOwned, HeaderOf

(* The bitmap, the directory and the headers agree at all times.           *)
THEOREM SectorsAreOwned == Spec => []SectorsOwned
BY FilesInvariant, InvOwns, PTL

-----------------------------------------------------------------------------
(* What a program sees: the bytes of the files by name, and the positions  *)
(* of what it has open.                                                    *)
SeenOK ==
  /\ \A n : n \in DOMAIN FilesSeen <=> \E i \in Entries : directory[i].name = n
  /\ \A i \in Entries :
       /\ FilesSeen[directory[i].name] = Contents(i)
       /\ Contents(i) = [k \in 1 .. HeaderOf(i).numBytes |-> ByteAt(HeaderOf(i), k - 1)]
       /\ Contents(i) \in [1 .. HeaderOf(i).numBytes -> Byte]
       /\ DOMAIN Contents(i) = 1 .. HeaderOf(i).numBytes
       /\ Len(Contents(i)) = HeaderOf(i).numBytes /\ HeaderOf(i).numBytes \in Nat

LEMMA SeenFacts == FilesInv => SeenOK
<1> SUFFICES ASSUME FilesInv PROVE SeenOK
  OBVIOUS
<1>1. DOMAIN FilesSeen = {directory[i].name : i \in Entries}
  BY DEF FilesSeen
<1>2. ASSUME NEW i \in Entries
      PROVE  /\ FilesSeen[directory[i].name] = Contents(i)
             /\ Contents(i) = [k \in 1 .. HeaderOf(i).numBytes |-> ByteAt(HeaderOf(i), k - 1)]
             /\ Contents(i) \in [1 .. HeaderOf(i).numBytes -> Byte]
             /\ DOMAIN Contents(i) = 1 .. HeaderOf(i).numBytes
             /\ Len(Contents(i)) = HeaderOf(i).numBytes /\ HeaderOf(i).numBytes \in Nat
  <2>1. PICK j : j = CHOOSE e \in Entries : directory[e].name = directory[i].name
    OBVIOUS
  <2>2. j \in Entries /\ directory[j].name = directory[i].name
    BY <2>1
  <2>3. j = i
    BY <2>2 DEF FilesInv, NamesDiffer
  <2>4. FilesSeen[directory[i].name] = Contents(i)
    BY <2>1, <2>3 DEF FilesSeen
  <2>5. PICK n \in Nat : n = HeaderOf(i).numBytes
    BY SectorsMarked
  <2>6. PICK hdr : hdr = HeaderOf(i)
    OBVIOUS
  <2>7. Contents(i) = [k \in 1 .. n |-> ByteAt(hdr, k - 1)]
    BY <2>5, <2>6 DEF Contents, HeaderOf
  <2>8. \A k \in 1 .. n : ByteAt(hdr, k - 1) \in Byte
    <3> TAKE k \in 1 .. n
    <3>1. WellFormed(directory[i].sector, hdr) /\ k - 1 \in Nat /\ k - 1 < hdr.numBytes
      BY <2>5, <2>6 DEF FilesInv, HeadersWellFormed
    <3> QED
      BY <3>1, ByteInFile DEF FilesInv, Typed
  <2>9. Contents(i) \in [1 .. n -> Byte] /\ DOMAIN Contents(i) = 1 .. n
    BY <2>7, <2>8
  <2>10. Len(Contents(i)) = n
    BY <2>9
  <2> QED
    BY <2>4, <2>5, <2>6, <2>7, <2>9, <2>10
<1> QED
  BY <1>1, <1>2 DEF SeenOK

(* A step that leaves the directory and the sectors of the files as they   *)
(* are does not show in what a program sees of the files.                  *)
LEMMA SameFiles ==
  ASSUME UNCHANGED <<directory, header, data>>
  PROVE  FilesSeen' = FilesSeen
BY DEF FilesSeen, Contents, ByteAt, Entries

LEMMA SeenNames ==
  ASSUME FilesInv, NEW n
  PROVE  n \in DOMAIN FilesSeen <=> FindIndex(n) # {}
BY SeenFacts DEF SeenOK, FindIndex

(* An open file, on the disk and as a program sees it.                     *)
LEMMA OpenFacts ==
  ASSUME FilesInv, NEW h \in Handle
  PROVE  /\ opened[h] = Closed <=> OpenSeen[h] = Closed
         /\ opened[h] # Closed =>
              /\ OpenSeen[h] = [name |-> opened[h].name, pos |-> opened[h].seekPosition]
              /\ OpenSeen[h].name = opened[h].name /\ OpenSeen[h].pos = opened[h].seekPosition
              /\ opened[h].seekPosition \in Nat /\ opened[h].name \in DOMAIN FilesSeen
              /\ Len(FilesSeen[opened[h].name]) = opened[h].hdr.numBytes
              /\ opened[h].hdr.numBytes \in Nat
              /\ FilesSeen[opened[h].name] =
                   [k \in 1 .. opened[h].hdr.numBytes |-> ByteAt(opened[h].hdr, k - 1)]
<1>1. OpenSeen[h] = IF opened[h] = Closed THEN Closed
                    ELSE [name |-> opened[h].name, pos |-> opened[h].seekPosition]
  BY DEF OpenSeen
<1>2. CASE opened[h] = Closed
  BY <1>1, <1>2
<1>3. CASE opened[h] # Closed
  <2>1. /\ opened[h] \in OpenFile /\ opened[h].seekPosition \in Nat /\ opened[h].name \in Name
    BY <1>3 DEF FilesInv, Typed, OpenFile
  <2>2. OpenSeen[h] = [name |-> opened[h].name, pos |-> opened[h].seekPosition]
    BY <1>1, <1>3
  <2>3. OpenSeen[h] # Closed
    BY <2>1, <2>2, FilesAssumption
  <2>4. PICK i \in Entries : directory[i].name = opened[h].name /\ opened[h].hdr = HeaderOf(i)
    BY <1>3 DEF FilesInv, OpenedOnDisk
  <2>5. /\ opened[h].name \in DOMAIN FilesSeen
        /\ FilesSeen[opened[h].name] = Contents(i)
        /\ Len(Contents(i)) = HeaderOf(i).numBytes /\ HeaderOf(i).numBytes \in Nat
        /\ Contents(i) = [k \in 1 .. HeaderOf(i).numBytes |-> ByteAt(HeaderOf(i), k - 1)]
    BY <2>4, SeenFacts DEF SeenOK
  <2> QED
    BY <1>3, <2>1, <2>2, <2>3, <2>4, <2>5
<1> QED
  BY <1>2, <1>3

(* The names of what is open, and the others that are open, do not change. *)
LEMMA OpenSeenMoves ==
  ASSUME FilesInv, NEW h \in Handle, opened[h] # Closed, NEW p \in Nat,
         opened' = [opened EXCEPT ![h].seekPosition = p]
  PROVE  OpenSeen' = [OpenSeen EXCEPT ![h].pos = p]
<1>1. OpenSeen[h] = [name |-> opened[h].name, pos |-> opened[h].seekPosition]
  BY OpenFacts
<1>2. /\ opened'[h].name = opened[h].name /\ opened'[h].seekPosition = p
      /\ opened'[h] # Closed
      /\ \A g \in Handle \ {h} : opened'[g] = opened[g]
  BY Moves
<1>3. OpenSeen'[h] = [name |-> opened[h].name, pos |-> p]
  BY <1>2 DEF OpenSeen
<1>4. \A g \in Handle \ {h} : OpenSeen'[g] = OpenSeen[g]
  BY <1>2 DEF OpenSeen
<1>5. [OpenSeen[h] EXCEPT !.pos = p] = [name |-> opened[h].name, pos |-> p]
  BY <1>1
<1>6. OpenSeen \in [Handle -> {OpenSeen[g] : g \in Handle}]
  BY DEF OpenSeen
<1>7. OpenSeen' = [g \in Handle |-> OpenSeen'[g]]
  BY DEF OpenSeen
<1>8. [OpenSeen EXCEPT ![h].pos = p] = [OpenSeen EXCEPT ![h] = [OpenSeen[h] EXCEPT !.pos = p]]
  BY <1>6
<1> QED
  BY <1>3, <1>4, <1>5, <1>6, <1>7, <1>8

-----------------------------------------------------------------------------
LEMMA OpenRefines ==
  ASSUME FilesInv, NEW h \in Handle, NEW n \in Name, Open(h, n)
  PROVE  Seen!Open(h, n)
<1>1. opened[h] = Closed /\ FilesSeen' = FilesSeen
  BY SameFiles DEF Open
<1>2. OpenSeen[h] = Closed
  BY <1>1, OpenFacts
<1>3. CASE FindIndex(n) = {}
  <2>1. UNCHANGED opened /\ Answer(FALSE, <<>>)
    BY <1>3 DEF Open
  <2>2. OpenSeen' = [OpenSeen EXCEPT ![h] = Closed]
    BY <1>2, <2>1 DEF OpenSeen
  <2>3. (n \in DOMAIN FilesSeen) = FALSE
    BY <1>3, SeenNames
  <2>4. result' = [ok |-> n \in DOMAIN FilesSeen, bytes |-> <<>>]
    BY <2>1, <2>3 DEF Answer
  <2> QED
    BY <1>1, <1>2, <2>2, <2>3, <2>4 DEF Seen!Open, Seen!Answer
<1>4. CASE FindIndex(n) # {}
  <2>1. PICK i \in FindIndex(n) : opened' = [opened EXCEPT ![h] =
               [name |-> n, hdr |-> HeaderOf(i), seekPosition |-> 0]]
    BY <1>4 DEF Open, HeaderOf
  <2>2. Answer(TRUE, <<>>)
    BY <1>4 DEF Open
  <2>3. HeaderOf(i) \in Header
    BY SectorsMarked DEF FindIndex
  <2>4. PICK file : file = [name |-> n, hdr |-> HeaderOf(i), seekPosition |-> 0]
    OBVIOUS
  <2>5. file \in OpenFile /\ file.name = n /\ file.seekPosition = 0
    BY <2>3, <2>4 DEF OpenFile
  <2>6. file # Closed
    BY <2>5, FilesAssumption DEF OpenFile, Header
  <2>7. opened'[h] = file /\ \A g \in Handle \ {h} : opened'[g] = opened[g]
    BY <2>1, <2>4 DEF FilesInv, Typed
  <2>8. OpenSeen' = [OpenSeen EXCEPT ![h] = [name |-> n, pos |-> 0]]
    BY <2>5, <2>6, <2>7 DEF OpenSeen
  <2>9. (n \in DOMAIN FilesSeen) = TRUE
    BY <1>4, SeenNames
  <2>10. result' = [ok |-> n \in DOMAIN FilesSeen, bytes |-> <<>>]
    BY <2>2, <2>9 DEF Answer
  <2> QED
    BY <1>1, <1>2, <2>8, <2>9, <2>10 DEF Seen!Open, Seen!Answer
<1> QED
  BY <1>3, <1>4

LEMMA SeekRefines ==
  ASSUME FilesInv, NEW h \in Handle, NEW p \in Size, Seek(h, p)
  PROVE  Seen!Seek(h, p)
<1>1. /\ opened[h] # Closed /\ opened' = [opened EXCEPT ![h].seekPosition = p]
      /\ UNCHANGED result /\ p \in Nat /\ FilesSeen' = FilesSeen
  BY FilesAssumption, SameFiles DEF Seek, Disk
<1>2. OpenSeen[h] # Closed /\ OpenSeen' = [OpenSeen EXCEPT ![h].pos = p]
  BY <1>1, OpenFacts, OpenSeenMoves
<1> QED
  BY <1>1, <1>2 DEF Seen!Seek

LEMMA CloseRefines ==
  ASSUME FilesInv, NEW h \in Handle, Close(h)
  PROVE  Seen!Close(h)
<1>1. /\ opened' = [opened EXCEPT ![h] = Closed] /\ UNCHANGED result /\ FilesSeen' = FilesSeen
  BY SameFiles DEF Close, Disk
<1>2. OpenSeen' = [OpenSeen EXCEPT ![h] = Closed]
  BY <1>1 DEF OpenSeen, FilesInv, Typed
<1> QED
  BY <1>1, <1>2 DEF Seen!Close

LEMMA RestartRefines ==
  ASSUME Restart
  PROVE  Seen!Restart
<1>1. /\ opened' = [h \in Handle |-> Closed] /\ UNCHANGED result /\ FilesSeen' = FilesSeen
  BY SameFiles DEF Restart, Disk
<1>2. OpenSeen' = [h \in Handle |-> Closed]
  BY <1>1 DEF OpenSeen
<1> QED
  BY <1>1, <1>2 DEF Seen!Restart

LEMMA RemoveRefines ==
  ASSUME FilesInv, FilesInv', NEW n \in Name, RemoveFile(n)
  PROVE  Seen!Remove(n)
<1>0. UNCHANGED <<header, data, opened>>
  BY DEF RemoveFile
<1>1. OpenSeen' = OpenSeen
  BY <1>0 DEF OpenSeen
<1>2. SeenOK /\ SeenOK'
  BY SeenFacts, PTL
<1>3. CASE FindIndex(n) = {}
  <2>1. UNCHANGED directory /\ Answer(FALSE, <<>>)
    BY <1>3 DEF RemoveFile
  <2>2. FilesSeen' = FilesSeen
    BY <1>0, <2>1, SameFiles
  <2>3. n \notin DOMAIN FilesSeen
    BY <1>3, SeenNames
  <2>4. FilesSeen = [m \in DOMAIN FilesSeen \ {n} |-> FilesSeen[m]]
    <3>1. DOMAIN FilesSeen \ {n} = DOMAIN FilesSeen
      BY <2>3
    <3>2. FilesSeen = [m \in DOMAIN FilesSeen |-> FilesSeen[m]]
      BY DEF FilesSeen
    <3> QED
      BY <3>1, <3>2
  <2>5. result' = [ok |-> n \in DOMAIN FilesSeen, bytes |-> <<>>]
    <3>1. (n \in DOMAIN FilesSeen) = FALSE
      BY <2>3
    <3> QED
      BY <2>1, <3>1 DEF Answer
  <2> QED
    BY <1>1, <2>2, <2>4, <2>5 DEF Seen!Remove, Seen!Answer
<1>4. CASE FindIndex(n) # {}
  <2>1. PICK i \in FindIndex(n) : directory' = [directory EXCEPT ![i] = NoEntry]
    BY <1>4 DEF RemoveFile
  <2>2. Answer(TRUE, <<>>)
    BY <1>4 DEF RemoveFile
  <2>3. i \in Entries /\ directory[i].name = n
    BY DEF FindIndex
  <2>4. Entries' = Entries \ {i} /\ \A j \in Entries' : directory'[j] = directory[j]
    BY <2>1, <2>3 DEF FilesInv, Typed, Entries
  <2>5. \A j \in Entries' : /\ j \in Entries /\ directory'[j].name = directory[j].name
                            /\ Contents(j)' = Contents(j) /\ directory[j].name # n
    BY <1>0, <2>3, <2>4 DEF Contents, ByteAt, FilesInv, NamesDiffer
  <2>6. \A m : m \in DOMAIN FilesSeen' <=> m \in DOMAIN FilesSeen \ {n}
    <3>1. \A m : m \in DOMAIN FilesSeen' <=> \E j \in Entries' : directory'[j].name = m
      BY <1>2 DEF SeenOK
    <3>2. \A m : m \in DOMAIN FilesSeen <=> \E j \in Entries : directory[j].name = m
      BY <1>2 DEF SeenOK
    <3> QED
      BY <2>3, <2>4, <2>5, <3>1, <3>2
  <2>7. \A m \in DOMAIN FilesSeen' : FilesSeen'[m] = FilesSeen[m]
    <3> TAKE m \in DOMAIN FilesSeen'
    <3>1. PICK j \in Entries' : directory'[j].name = m
      BY <1>2 DEF SeenOK
    <3>2. FilesSeen'[m] = Contents(j)'
      BY <1>2, <3>1 DEF SeenOK
    <3>3. FilesSeen[m] = Contents(j)
      BY <1>2, <2>5, <3>1 DEF SeenOK
    <3> QED
      BY <2>5, <3>2, <3>3
  <2>8. FilesSeen' = [m \in DOMAIN FilesSeen' |-> FilesSeen'[m]]
    BY DEF FilesSeen
  <2>9. FilesSeen' = [m \in DOMAIN FilesSeen \ {n} |-> FilesSeen[m]]
    BY <2>6, <2>7, <2>8
  <2>10. result' = [ok |-> n \in DOMAIN FilesSeen, bytes |-> <<>>]
    <3>1. (n \in DOMAIN FilesSeen) = TRUE
      BY <1>4, SeenNames
    <3> QED
      BY <2>2, <3>1 DEF Answer
  <2> QED
    BY <1>1, <2>9, <2>10 DEF Seen!Remove, Seen!Answer
<1> QED
  BY <1>3, <1>4

(* Moved, of the length and the position that a program sees.              *)
LEMMA MovedSeen ==
  ASSUME FilesInv, NEW h \in Handle, opened[h] # Closed, NEW n \in Nat
  PROVE  /\ Moved(opened[h], n) \in Nat
         /\ Moved(opened[h], n) > 0 => Seen!Moved(h, n) = Moved(opened[h], n)
         /\ Moved(opened[h], n) = 0 => ~ Seen!Moved(h, n) > 0
<1>1. opened[h] \in OpenFile
  BY DEF FilesInv, Typed
<1>0. /\ OpenSeen[h].pos = opened[h].seekPosition /\ OpenSeen[h].name = opened[h].name
      /\ opened[h].seekPosition \in Nat /\ opened[h].hdr.numBytes \in Nat
      /\ Len(FilesSeen[opened[h].name]) = opened[h].hdr.numBytes
  BY OpenFacts
<1>2. PICK pos \in Nat, size \in Nat :
        /\ pos = opened[h].seekPosition /\ size = opened[h].hdr.numBytes
        /\ OpenSeen[h].pos = pos
        /\ Len(FilesSeen[OpenSeen[h].name]) = size
  BY <1>0, Zenon
<1>3. Seen!Moved(h, n) = IF n < size - pos THEN n ELSE size - pos
  BY <1>2 DEF Seen!Moved, Seen!Least
<1>4. Moved(opened[h], n) = Greatest(0, Least(n, size - pos))
  BY <1>2 DEF Moved
<1> QED
  BY <1>2, <1>3, <1>4 DEF Greatest, Least

LEMMA ReadRefines ==
  ASSUME FilesInv, NEW h \in Handle, NEW n \in Size, Read(h, n)
  PROVE  Seen!Read(h, n)
<1>1. opened[h] # Closed /\ opened[h] \in OpenFile /\ n \in Nat
  BY FilesAssumption DEF Read, FilesInv, Typed
<1>2. FilesSeen' = FilesSeen
  BY SameFiles DEF Read, Disk
<1>3. PICK count \in Nat : count = Moved(opened[h], n)
  BY <1>1, MovedFacts
<1>4. PICK pos \in Nat : pos = opened[h].seekPosition
  BY <1>1 DEF OpenFile
<1>5. PICK hdr : hdr = opened[h].hdr
  OBVIOUS
<1>6. /\ Answer(TRUE, [i \in 1 .. count |-> ByteAt(hdr, pos + i - 1)])
      /\ opened' = [opened EXCEPT ![h].seekPosition = @ + count]
  BY <1>3, <1>4, <1>5 DEF Read
<1>7. opened' = [opened EXCEPT ![h].seekPosition = pos + count] /\ pos + count \in Nat
  BY <1>1, <1>4, <1>6, Advances
<1>8. OpenSeen' = [OpenSeen EXCEPT ![h].pos = pos + count]
  BY <1>1, <1>7, OpenSeenMoves
<1>9. PICK bytes : bytes = FilesSeen[opened[h].name]
  OBVIOUS
<1>10. /\ OpenSeen[h] # Closed /\ OpenSeen[h].pos = pos /\ OpenSeen[h].name = opened[h].name
       /\ OpenSeen[h] = [name |-> opened[h].name, pos |-> pos]
       /\ hdr.numBytes \in Nat
       /\ bytes = [k \in 1 .. hdr.numBytes |-> ByteAt(hdr, k - 1)]
  BY <1>1, <1>4, <1>5, <1>9, OpenFacts
<1>11. CASE count > 0
  <2>1. Seen!Moved(h, n) = count
    BY <1>1, <1>3, <1>11, MovedSeen
  <2>2. pos + count <= hdr.numBytes
    BY <1>1, <1>3, <1>4, <1>5, <1>11, MovedFacts
  <2>3. PICK m \in Nat : m = hdr.numBytes
    BY <1>10
  <2>4. SubSeq(bytes, pos + 1, pos + count) = [i \in 1 .. count |-> ByteAt(hdr, pos + i - 1)]
    <3>1. SubSeq(bytes, pos + 1, pos + count) = [i \in 1 .. count |-> bytes[pos + i]]
      BY <1>11
    <3>2. \A i \in 1 .. count : bytes[pos + i] = ByteAt(hdr, pos + i - 1)
      BY <1>10, <2>2, <2>3
    <3> QED
      BY <3>1, <3>2
  <2>5. Seen!Answer(TRUE, SubSeq(bytes, pos + 1, pos + count))
    BY <1>6, <2>4 DEF Answer, Seen!Answer
  <2> QED
    BY <1>2, <1>8, <1>9, <1>10, <1>11, <2>1, <2>5 DEF Seen!Read
<1>12. CASE count = 0
  <2>1. ~ Seen!Moved(h, n) > 0
    BY <1>1, <1>3, <1>12, MovedSeen
  <2>2. [i \in 1 .. count |-> ByteAt(hdr, pos + i - 1)] = <<>>
    BY <1>12
  <2>3. Seen!Answer(TRUE, <<>>)
    BY <1>6, <2>2 DEF Answer, Seen!Answer
  <2>4. OpenSeen' = OpenSeen
    <3>1. opened' = opened
      BY <1>1, <1>4, <1>7, <1>12 DEF FilesInv, Typed, OpenFile
    <3> QED
      BY <3>1 DEF OpenSeen
  <2> QED
    BY <1>2, <1>10, <2>1, <2>3, <2>4 DEF Seen!Read
<1> QED
  BY <1>11, <1>12

-----------------------------------------------------------------------------
(* WriteAt touches every sector of which it writes a byte, and reads every *)
(* sector first of which it leaves one.                                    *)
LEMMA DivMonotone ==
  \A j, k \in Nat : j <= k => j \div SectorSize <= k \div SectorSize
<1>1. SUFFICES ASSUME NEW j \in Nat, NEW k \in Nat, j <= k,
                      k \div SectorSize < j \div SectorSize
               PROVE  FALSE
  BY Bytes
<1>2. PICK d \in Nat : d = SectorSize /\ d > 0
  BY Bytes
<1>3. PICK a \in Nat, x \in Nat : a = j \div d /\ j = a * d + x
  BY <1>2, Bytes DEF Offset
<1>4. PICK b \in Nat, y \in Nat : b = k \div d /\ k = b * d + y /\ y < d
  BY <1>2, Bytes DEF Offset
<1>5. a >= b + 1
  BY <1>1, <1>2, <1>3, <1>4
<1>6. a * d >= b * d + d
  BY <1>2, <1>5
<1>7. a * d \in Nat /\ b * d \in Nat
  BY <1>2
<1> QED
  BY <1>1, <1>2, <1>3, <1>4, <1>6, <1>7

LEMMA PartsAreRead ==
  ASSUME NEW pos \in Nat, NEW end \in Nat, pos < end, NEW k \in Nat,
         k \div SectorSize \in pos \div SectorSize .. (end - 1) \div SectorSize,
         k \notin pos .. end - 1
  PROVE  ReadFirst(k \div SectorSize, pos, end)
<1>1. PICK d \in Nat : d = SectorSize /\ d > 0
  BY Bytes
<1>2. PICK i \in Nat, o \in Nat : i = k \div d /\ k = i * d + o /\ o < d
  BY <1>1, Bytes DEF Offset
<1>3. PICK a \in Nat, x \in Nat : a = pos \div d /\ x = pos % d /\ pos = a * d + x /\ x < d
  BY <1>1, Bytes DEF Offset
<1>4. PICK last \in Nat : last = end - 1
  OBVIOUS
<1>5. a <= i /\ i <= last \div d
  BY <1>1, <1>2, <1>3, <1>4
<1>6. CASE k < pos
  <2>1. i <= a
    BY <1>1, <1>2, <1>3, <1>6, DivMonotone
  <2>2. i = a
    BY <1>5, <2>1
  <2>3. i * d \in Nat
    BY <1>1
  <2>4. x # 0
    BY <1>2, <1>3, <1>6, <2>2, <2>3
  <2> QED
    BY <1>1, <1>2, <1>3, <2>2, <2>4 DEF ReadFirst
<1>7. CASE end <= k
  <2>1. last \div d <= i
    BY <1>1, <1>2, <1>4, <1>7, DivMonotone
  <2>2. i = last \div d
    BY <1>1, <1>4, <1>5, <2>1, Bytes
  <2>3. end % d # 0
    <3> SUFFICES ASSUME end % d = 0 PROVE FALSE
      OBVIOUS
    <3>1. PICK q \in Nat : end = q * d /\ q = end \div d
      BY <1>1, Bytes
    <3>2. q <= i
      BY <1>1, <1>2, <1>7, <3>1, DivMonotone
    <3>3. PICK y \in Nat : last = i * d + y
      BY <1>1, <1>4, <2>2, Bytes DEF Offset
    <3>4. q * d <= i * d /\ q * d \in Nat /\ i * d \in Nat
      BY <1>1, <3>2
    <3> QED
      BY <1>4, <3>1, <3>3, <3>4
  <2> QED
    BY <1>1, <1>2, <1>3, <1>4, <2>2, <2>3 DEF ReadFirst
<1> QED
  BY <1>4, <1>6, <1>7

(* Every byte of the file afterwards: what was written where it was        *)
(* written, what was there everywhere else.                                *)
LEMMA WrittenByte ==
  ASSUME NEW s, NEW hdr, WellFormed(s, hdr), NEW pos \in Nat, NEW end \in Nat,
         NEW bytes \in Seq(Byte), Len(bytes) > 0, end = pos + Len(bytes),
         NEW junk \in [Offset -> Byte],
         DataWritten(hdr, pos, end, bytes, junk),
         NEW k \in Nat, k < hdr.numBytes, data \in [Sector -> [Offset -> Byte]]
  PROVE  ByteAt(hdr, k)' = IF k \in pos .. end - 1 THEN bytes[k - pos + 1] ELSE ByteAt(hdr, k)
<1>1. PICK i \in Nat, o \in Offset :
        i = k \div SectorSize /\ o = k % SectorSize /\ k = i * SectorSize + o
  BY Bytes
<1>2. PICK t \in Sector : t = hdr.dataSectors[i + 1]
  BY <1>1, ByteInFile
<1>3. i + 1 \in 1 .. Len(hdr.dataSectors)
  BY <1>1, ByteInFile
<1>4. ByteAt(hdr, k)' = data'[t][o] /\ ByteAt(hdr, k) = data[t][o]
  BY <1>1, <1>2 DEF ByteAt
<1>5. Len(hdr.dataSectors) \in Nat
  BY LenProperties DEF WellFormed, Header
<1>6. CASE i \in pos \div SectorSize .. (end - 1) \div SectorSize
  <2>1. i \in Touched(hdr, t, pos, end)
    BY <1>2, <1>3, <1>5, <1>6 DEF Touched
  <2>2. (CHOOSE j \in Touched(hdr, t, pos, end) : TRUE) = i
    <3>1. PICK j : j = CHOOSE m \in Touched(hdr, t, pos, end) : TRUE
      OBVIOUS
    <3>2. j \in Touched(hdr, t, pos, end)
      BY <2>1, <3>1
    <3>3. j = i
      BY <2>1, <3>2, TouchedFacts
    <3> QED
      BY <3>1, <3>3
  <2>3. data'[t] = NewSector(hdr, i, pos, bytes, junk)
    BY <2>1, <2>2 DEF DataWritten
  <2>4. data'[t][o] = IF k \in pos .. pos + Len(bytes) - 1 THEN bytes[k - pos + 1]
                      ELSE IF ReadFirst(i, pos, pos + Len(bytes)) /\ k < hdr.numBytes
                           THEN ByteAt(hdr, k)
                      ELSE junk[o]
    BY <1>1, <2>3 DEF NewSector
  <2>5. k \notin pos .. end - 1 => ReadFirst(i, pos, end)
    BY <1>1, <1>6, PartsAreRead, LenProperties
  <2> QED
    BY <1>4, <2>4, <2>5
<1>7. CASE i \notin pos \div SectorSize .. (end - 1) \div SectorSize
  <2>1. Touched(hdr, t, pos, end) = {}
    <3> SUFFICES ASSUME NEW j \in Touched(hdr, t, pos, end) PROVE FALSE
      OBVIOUS
    <3>1. /\ j \in Nat /\ j + 1 \in 1 .. Len(hdr.dataSectors) /\ hdr.dataSectors[j + 1] = t
          /\ j \in pos \div SectorSize .. (end - 1) \div SectorSize
      BY TouchedFacts
    <3>2. PICK list \in Seq(Sector) : list = hdr.dataSectors /\ IsInjective(list)
      BY DEF WellFormed, Header
    <3>3. j + 1 = i + 1
      BY <1>2, <1>3, <3>1, <3>2, LenProperties DEF IsInjective
    <3> QED
      BY <1>1, <1>7, <3>1, <3>3
  <2>2. k \notin pos .. end - 1
    <3> SUFFICES ASSUME k \in pos .. end - 1 PROVE FALSE
      OBVIOUS
    <3>1. end - 1 \in Nat /\ pos <= k /\ k <= end - 1
      BY LenProperties
    <3>2. pos \div SectorSize <= i /\ i <= (end - 1) \div SectorSize
      BY <1>1, <3>1, DivMonotone
    <3>3. pos \div SectorSize \in Nat /\ (end - 1) \div SectorSize \in Nat
      BY <3>1, Bytes
    <3> QED
      BY <1>7, <3>2, <3>3
  <2> QED
    BY <1>4, <2>1, <2>2 DEF DataWritten
<1> QED
  BY <1>6, <1>7

(* The other files keep their bytes: Write touches sectors of one file.    *)
LEMMA OthersKeepBytes ==
  ASSUME FilesInv, NEW e \in Entries, NEW j \in Entries, j # e,
         NEW pos \in Nat, NEW end \in Nat, NEW bytes, NEW junk,
         NEW mine, mine = HeaderOf(e), NEW hdr, hdr = HeaderOf(j),
         DataWritten(mine, pos, end, bytes, junk),
         NEW k \in Nat, k < hdr.numBytes
  PROVE  ByteAt(hdr, k)' = ByteAt(hdr, k)
<1>1. WellFormed(directory[j].sector, hdr) /\ WellFormed(directory[e].sector, mine)
  BY DEF FilesInv, HeadersWellFormed
<1>2. PICK t \in Sector : t = hdr.dataSectors[k \div SectorSize + 1]
  BY <1>1, ByteInFile DEF FilesInv, Typed
<1>3. k \div SectorSize + 1 \in 1 .. Len(hdr.dataSectors)
  BY <1>1, ByteInFile DEF FilesInv, Typed
<1>4. t \in ToSet(hdr.dataSectors)
  <2>1. PICK list \in Seq(Sector) : list = hdr.dataSectors
    BY <1>1 DEF WellFormed, Header
  <2> QED
    BY <1>2, <1>3, <2>1, LenProperties DEF ToSet
<1>5. Touched(mine, t, pos, end) = {}
  <2> SUFFICES ASSUME NEW i \in Touched(mine, t, pos, end) PROVE FALSE
    OBVIOUS
  <2>1. t \in ToSet(mine.dataSectors)
    BY <1>1, TouchedFacts
  <2> QED
    BY <1>4, <2>1 DEF FilesInv, FilesDisjoint, AllSectors
<1> QED
  BY <1>2, <1>5 DEF ByteAt, DataWritten

LEMMA WriteRefines ==
  ASSUME FilesInv, FilesInv', NEW h \in Handle, NEW from \in Data, Write(h, from)
  PROVE  Seen!Write(h, from)
<1>0. SeenOK /\ SeenOK'
  BY SeenFacts, PTL
<1>1. opened[h] # Closed /\ opened[h] \in OpenFile /\ Len(from) \in Nat /\ from \in Seq(Byte)
  BY WriteFacts, DataFacts
<1>2. PICK bytes \in Seq(Byte) :
              /\ bytes = SubSeq(from, 1, Moved(opened[h], Len(from)))
              /\ Len(bytes) = Moved(opened[h], Len(from)) /\ Len(bytes) \in Nat
              /\ result' = [ok |-> TRUE, bytes |-> bytes]
              /\ \/ Len(bytes) = 0 /\ UNCHANGED <<freeMap, directory, header, data, opened>>
                 \/ /\ Len(bytes) > 0
                    /\ opened[h].seekPosition + Len(bytes) <= opened[h].hdr.numBytes
                    /\ \E junk \in [Offset -> Byte] :
                         Writes(h, opened[h].hdr, opened[h].seekPosition,
                                opened[h].seekPosition + Len(bytes), bytes, junk)
  BY WriteFacts
<1>3. PICK pos \in Nat : pos = opened[h].seekPosition
  BY <1>1 DEF OpenFile
<1>4. PICK count \in Nat : count = Len(bytes) /\ count = Moved(opened[h], Len(from))
  BY <1>2
<1>5. PICK name : name = opened[h].name
  OBVIOUS
<1>6. /\ OpenSeen[h] # Closed /\ OpenSeen[h].pos = pos /\ OpenSeen[h].name = name
      /\ name \in DOMAIN FilesSeen
  BY <1>1, <1>3, <1>5, OpenFacts
<1>7. CASE count = 0
  <2>1. UNCHANGED <<directory, header, data, opened>>
    BY <1>2, <1>4, <1>7
  <2>2. FilesSeen' = FilesSeen /\ OpenSeen' = OpenSeen
    BY <2>1, SameFiles DEF OpenSeen
  <2>3. ~ Seen!Moved(h, Len(from)) > 0
    BY <1>1, <1>4, <1>7, MovedSeen
  <2>4. bytes = <<>>
    <3>1. bytes = <<>> <=> Len(bytes) = 0
      BY SeqFacts
    <3> QED
      BY <1>4, <1>7, <3>1
  <2>5. Seen!Answer(TRUE, <<>>)
    BY <1>2, <2>4 DEF Seen!Answer
  <2> QED
    BY <1>6, <2>2, <2>3, <2>5 DEF Seen!Write
<1>8. CASE count > 0
  <2>1. PICK hdr : hdr = opened[h].hdr
    OBVIOUS
  <2>2. PICK end \in Nat : end = pos + count
    OBVIOUS
  <2>3. PICK junk \in [Offset -> Byte] : Writes(h, hdr, pos, end, bytes, junk)
    BY <1>2, <1>3, <1>4, <1>8, <2>1, <2>2
  <2>4. end <= hdr.numBytes
    BY <1>2, <1>3, <1>4, <1>8, <2>1, <2>2
  <2>5. /\ opened' = [opened EXCEPT ![h].seekPosition = end]
        /\ DataWritten(hdr, pos, end, bytes, junk)
        /\ header' = [s \in Sector |->
                IF Touched(hdr, s, pos, end) = {} THEN header[s] ELSE NoHeader]
        /\ directory' = directory
    BY <2>3, Zenon DEF Writes
  <2>6. OpenSeen' = [OpenSeen EXCEPT ![h].pos = end]
    BY <1>1, <2>5, OpenSeenMoves
  <2>7. Seen!Moved(h, Len(from)) = count
    BY <1>1, <1>4, <1>8, MovedSeen
  <2>8. PICK e \in Entries : /\ directory[e].name = name /\ hdr = HeaderOf(e)
                             /\ WellFormed(directory[e].sector, hdr)
    BY <1>1, <1>5, <2>1, FileOfHandle
  <2>9. Entries' = Entries /\ \A j \in Entries : HeaderOf(j)' = HeaderOf(j)
    <3>1. Entries' = Entries
      BY <2>5 DEF Entries
    <3>2. ASSUME NEW j \in Entries PROVE HeaderOf(j)' = HeaderOf(j)
      <4>1. Touched(hdr, directory[j].sector, pos, end) = {}
        BY <1>1, <2>1, HeadersStay
      <4>2. directory[j].sector \in Sector
        BY EntryFacts DEF FilesInv
      <4> QED
        BY <2>5, <4>1, <4>2 DEF HeaderOf
    <3> QED
      BY <3>1, <3>2
  <2>10. \A j \in Entries \ {e} : Contents(j)' = Contents(j)
    <3> TAKE j \in Entries \ {e}
    <3>1. PICK other : other = HeaderOf(j)
      OBVIOUS
    <3>2. PICK n \in Nat : n = other.numBytes
      BY <3>1, SectorsMarked
    <3>3. \A k \in 1 .. n : ByteAt(other, k - 1)' = ByteAt(other, k - 1)
      <4> TAKE k \in 1 .. n
      <4>1. PICK x \in Nat : x = k - 1 /\ x < n
        OBVIOUS
      <4>2. ByteAt(other, x)' = ByteAt(other, x)
        BY <2>5, <2>8, <3>1, <3>2, <4>1, OthersKeepBytes
      <4> QED
        BY <4>1, <4>2
    <3>4. Contents(j) = [k \in 1 .. n |-> ByteAt(other, k - 1)]
      BY <3>1, <3>2 DEF Contents, HeaderOf
    <3>5. Contents(j)' = [k \in 1 .. n |-> ByteAt(other, k - 1)']
      <4>1. header'[directory'[j].sector] = other
        BY <2>5, <2>9, <3>1 DEF HeaderOf
      <4> QED
        BY <3>2, <4>1 DEF Contents
    <3> QED
      BY <3>3, <3>4, <3>5
  <2>11. PICK n \in Nat : n = hdr.numBytes /\ Contents(e) = [k \in 1 .. n |-> ByteAt(hdr, k - 1)]
    BY <1>0, <2>8 DEF SeenOK
  <2>12. Contents(e)' = [k \in 1 .. n |-> IF k \in pos + 1 .. pos + count THEN from[k - pos]
                                         ELSE Contents(e)[k]]
    <3>1. header'[directory'[e].sector] = hdr
      BY <2>5, <2>8, <2>9 DEF HeaderOf
    <3>2. Contents(e)' = [k \in 1 .. n |-> ByteAt(hdr, k - 1)']
      BY <2>11, <3>1 DEF Contents
    <3>3. \A x \in Nat : x < n =>
             ByteAt(hdr, x)' = IF x \in pos .. end - 1 THEN bytes[x - pos + 1] ELSE ByteAt(hdr, x)
      <4> SUFFICES ASSUME NEW x \in Nat, x < hdr.numBytes
                   PROVE  ByteAt(hdr, x)' = IF x \in pos .. end - 1 THEN bytes[x - pos + 1]
                                            ELSE ByteAt(hdr, x)
        BY <2>11
      <4>1. /\ data \in [Sector -> [Offset -> Byte]] /\ Len(bytes) > 0
            /\ end = pos + Len(bytes) /\ WellFormed(directory[e].sector, hdr)
        BY <1>4, <1>8, <2>2, <2>8 DEF FilesInv, Typed
      <4>2. DataWritten(hdr, pos, end, bytes, junk)
        BY <2>5
      <4> QED
        BY <4>1, <4>2, WrittenByte
    <3>4. \A k \in 1 .. count : bytes[k] = from[k]
      <4>1. count <= Len(from)
        BY <1>1, <1>4, MovedFacts
      <4> QED
        BY <1>1, <1>2, <1>4, <4>1
    <3>5. ASSUME NEW k \in 1 .. n
          PROVE  ByteAt(hdr, k - 1)' = IF k \in pos + 1 .. pos + count THEN from[k - pos]
                                       ELSE Contents(e)[k]
      <4>1. PICK x \in Nat : x = k - 1 /\ x < n
        OBVIOUS
      <4>2. ByteAt(hdr, x)' = IF x \in pos .. end - 1 THEN bytes[x - pos + 1] ELSE ByteAt(hdr, x)
        BY <3>3, <4>1
      <4>3. Contents(e)[k] = ByteAt(hdr, x)
        BY <2>11, <4>1
      <4>4. x \in pos .. end - 1 <=> k \in pos + 1 .. pos + count
        BY <2>2, <4>1
      <4>5. k \in pos + 1 .. pos + count => x - pos + 1 = k - pos /\ k - pos \in 1 .. count
        BY <4>1
      <4>6. k \in pos + 1 .. pos + count => bytes[x - pos + 1] = from[k - pos]
        BY <3>4, <4>5
      <4> QED
        BY <4>1, <4>2, <4>3, <4>4, <4>6
    <3> QED
      BY <3>2, <3>5
  <2>13. \A m : m \in DOMAIN FilesSeen' <=> m \in DOMAIN FilesSeen
    BY <1>0, <2>5, <2>9 DEF SeenOK
  <2>14. FilesSeen[name] = Contents(e) /\ FilesSeen'[name] = Contents(e)'
    BY <1>0, <2>5, <2>8, <2>9 DEF SeenOK
  <2>15. \A m \in DOMAIN FilesSeen : m # name => FilesSeen'[m] = FilesSeen[m]
    <3> SUFFICES ASSUME NEW m \in DOMAIN FilesSeen, m # name PROVE FilesSeen'[m] = FilesSeen[m]
      OBVIOUS
    <3>1. PICK j \in Entries : directory[j].name = m
      BY <1>0 DEF SeenOK
    <3>2. FilesSeen'[m] = Contents(j)' /\ FilesSeen[m] = Contents(j)
      BY <1>0, <2>5, <2>9, <3>1 DEF SeenOK
    <3> QED
      BY <2>8, <2>10, <3>1, <3>2
  <2>16. DOMAIN FilesSeen[name] = 1 .. n
    BY <2>11, <2>14
  <2>17. PICK new : new = [i \in DOMAIN FilesSeen[name] |->
                             IF i \in pos + 1 .. pos + count THEN from[i - pos]
                             ELSE FilesSeen[name][i]]
    OBVIOUS
  <2>18. FilesSeen'[name] = new
    BY <2>12, <2>14, <2>16, <2>17
  <2>19. FilesSeen' = [FilesSeen EXCEPT ![name] = new]
    <3>1. FilesSeen = [m \in DOMAIN FilesSeen |-> FilesSeen[m]]
          /\ FilesSeen' = [m \in DOMAIN FilesSeen' |-> FilesSeen'[m]]
      BY DEF FilesSeen
    <3>2. DOMAIN FilesSeen' = DOMAIN FilesSeen
      BY <2>13
    <3> QED
      BY <2>15, <2>18, <3>1, <3>2
  <2>20. Seen!Answer(TRUE, SubSeq(from, 1, count))
    BY <1>2, <1>4 DEF Seen!Answer
  <2>21. FilesSeen' = [FilesSeen EXCEPT ![name] =
            [i \in DOMAIN @ |-> IF i \in pos + 1 .. pos + count THEN from[i - pos] ELSE @[i]]]
    BY <2>17, <2>19
  <2> QED
    BY <1>6, <1>8, <2>2, <2>6, <2>7, <2>20, <2>21 DEF Seen!Write
<1> QED
  BY <1>7, <1>8

-----------------------------------------------------------------------------
(* A sector of the disk for every number that the abstract file system     *)
(* counts: the sectors of a file, the first for its header.                *)
SectorAt(i, k) == IF k = 1 THEN directory[i].sector ELSE HeaderOf(i).dataSectors[k - 1]

LEMMA SectorsInOrder ==
  ASSUME FilesInv, NEW i \in Entries, NEW m \in Nat, m = 1 + Len(HeaderOf(i).dataSectors)
  PROVE  /\ \A k \in 1 .. m : SectorAt(i, k) \in AllSectors(directory[i].sector, HeaderOf(i))
         /\ \A k, l \in 1 .. m : SectorAt(i, k) = SectorAt(i, l) => k = l
         /\ \A s \in AllSectors(directory[i].sector, HeaderOf(i)) :
              \E k \in 1 .. m : SectorAt(i, k) = s
<1>1. PICK list \in Seq(Sector) : list = HeaderOf(i).dataSectors
  BY SectorsMarked
<1>2. PICK s : s = directory[i].sector
  OBVIOUS
<1>3. IsInjective(list) /\ s \notin ToSet(list)
  BY <1>1, <1>2 DEF FilesInv, HeadersWellFormed, WellFormed
<1>4. Len(list) \in Nat /\ DOMAIN list = 1 .. Len(list) /\ m = 1 + Len(list)
  BY <1>1, LenProperties
<1>5. PICK all : all = AllSectors(directory[i].sector, HeaderOf(i))
  OBVIOUS
<1>6. all = {s} \cup ToSet(list)
  BY <1>1, <1>2, <1>5 DEF AllSectors
<1>7. \A k \in 1 .. m : SectorAt(i, k) = IF k = 1 THEN s ELSE list[k - 1]
  BY <1>1, <1>2 DEF SectorAt
<1>8. \A k \in 1 .. m : k # 1 => k - 1 \in 1 .. Len(list)
  BY <1>4
<1>9. \A k \in 1 .. m : k # 1 => list[k - 1] \in ToSet(list)
  BY <1>4, <1>8 DEF ToSet
<1>10. \A k \in 1 .. m : SectorAt(i, k) \in all
  BY <1>6, <1>7, <1>9
<1>11. \A k, l \in 1 .. m : SectorAt(i, k) = SectorAt(i, l) => k = l
  <2> SUFFICES ASSUME NEW k \in 1 .. m, NEW l \in 1 .. m, SectorAt(i, k) = SectorAt(i, l)
               PROVE  k = l
    OBVIOUS
  <2>1. CASE k = 1 \/ l = 1
    BY <1>3, <1>7, <1>9, <2>1
  <2>2. CASE k # 1 /\ l # 1
    <3>1. k - 1 = l - 1
      BY <1>3, <1>4, <1>7, <1>8, <2>2 DEF IsInjective
    <3> QED
      BY <1>4, <3>1
  <2> QED
    BY <2>1, <2>2
<1>12. \A t \in all : \E k \in 1 .. m : SectorAt(i, k) = t
  <2> SUFFICES ASSUME NEW t \in all PROVE \E k \in 1 .. m : SectorAt(i, k) = t
    OBVIOUS
  <2>1. CASE t = s
    BY <1>4, <1>7, <2>1
  <2>2. CASE t \in ToSet(list)
    <3>1. PICK x \in 1 .. Len(list) : list[x] = t
      BY <1>4, <2>2 DEF ToSet
    <3>2. x + 1 \in 1 .. m /\ x + 1 # 1 /\ x + 1 - 1 = x
      BY <1>4
    <3> QED
      BY <1>7, <3>1, <3>2
  <2> QED
    BY <1>6, <2>1, <2>2
<1> QED
  BY <1>5, <1>10, <1>11, <1>12

(* As many sectors are in use as the abstract file system counts.          *)
LEMMA UsedSectors ==
  ASSUME FilesInv
  PROVE  ExistsBijection(Seen!Used, freeMap \ 0 .. Reserved - 1)
<1> DEFINE Used == Seen!Used
           Taken == freeMap \ 0 .. Reserved - 1
           Size1(i) == 1 + Len(HeaderOf(i).dataSectors)
<1>1. \A i \in Entries : Size1(i) \in Nat /\ Seen!Sectors(Len(FilesSeen[directory[i].name])) = Size1(i)
  <2> TAKE i \in Entries
  <2>1. HeaderOf(i).dataSectors \in Seq(Sector) /\ HeaderOf(i).numBytes \in Nat
    BY SectorsMarked
  <2>2. Len(HeaderOf(i).dataSectors) = divRoundUp(HeaderOf(i).numBytes, SectorSize)
    BY DEF FilesInv, HeadersWellFormed, WellFormed
  <2>3. Len(FilesSeen[directory[i].name]) = HeaderOf(i).numBytes
    BY SeenFacts DEF SeenOK
  <2>4. Len(HeaderOf(i).dataSectors) \in Nat
    BY <2>1, LenProperties
  <2> QED
    BY <2>2, <2>3, <2>4 DEF Seen!Sectors, divRoundUp
<1>2. ASSUME NEW u \in Used
      PROVE  \E i \in Entries : \E k \in 1 .. Size1(i) : u = <<directory[i].name, k>>
  <2>1. PICK n \in DOMAIN FilesSeen : u \in {n} \X (1 .. Seen!Sectors(Len(FilesSeen[n])))
    BY DEF Seen!Used
  <2>2. PICK i \in Entries : directory[i].name = n
    BY SeenFacts DEF SeenOK
  <2> QED
    BY <1>1, <2>1, <2>2
<1>3. ASSUME NEW i \in Entries, NEW k \in 1 .. Size1(i) PROVE <<directory[i].name, k>> \in Used
  <2>1. directory[i].name \in DOMAIN FilesSeen
    BY SeenFacts DEF SeenOK
  <2>2. <<directory[i].name, k>> \in
          {directory[i].name} \X (1 .. Seen!Sectors(Len(FilesSeen[directory[i].name])))
    BY <1>1
  <2> QED
    BY <2>1, <2>2 DEF Seen!Used
<1>4. \A i \in Entries : /\ AllSectors(directory[i].sector, HeaderOf(i)) \subseteq Taken
                         /\ \A k \in 1 .. Size1(i) :
                              SectorAt(i, k) \in AllSectors(directory[i].sector, HeaderOf(i))
                         /\ \A k, l \in 1 .. Size1(i) : SectorAt(i, k) = SectorAt(i, l) => k = l
                         /\ \A s \in AllSectors(directory[i].sector, HeaderOf(i)) :
                              \E k \in 1 .. Size1(i) : SectorAt(i, k) = s
  <2> TAKE i \in Entries
  <2>1. AllSectors(directory[i].sector, HeaderOf(i)) \subseteq Taken
    BY SectorsMarked DEF FilesInv, HeadersWellFormed, WellFormed
  <2> QED
    BY <1>1, <2>1, SectorsInOrder
<1>5. \A s \in Taken : \E i \in Entries : s \in AllSectors(directory[i].sector, HeaderOf(i))
  <2> TAKE s \in Taken
  <2>0. freeMap \subseteq Sector /\ s \in freeMap /\ s \notin 0 .. Reserved - 1
    BY DEF FilesInv, Typed
  <2>1. s \in Sector /\ s \in freeMap /\ ~ (s < Reserved)
    BY <2>0, FilesAssumption DEF Sector
  <2> QED
    BY <2>1 DEF FilesInv, MapIsRight
<1> HIDE DEF Used, Taken, Size1
<1> DEFINE e(n) == CHOOSE i \in Entries : directory[i].name = n
           f == [u \in Used |-> SectorAt(e(u[1]), u[2])]
<1>6. \A i \in Entries : e(directory[i].name) = i
  <2> TAKE i \in Entries
  <2>1. e(directory[i].name) \in Entries /\ directory[e(directory[i].name)].name = directory[i].name
    OBVIOUS
  <2> QED
    BY <2>1 DEF FilesInv, NamesDiffer
<1>7. \A i \in Entries : \A k \in 1 .. Size1(i) : f[<<directory[i].name, k>>] = SectorAt(i, k)
  BY <1>3, <1>6
<1>8. DOMAIN f = Used /\ f = [u \in Used |-> f[u]]
  OBVIOUS
<1> HIDE DEF f, e
<1>9. f \in [Used -> Taken]
  <2>1. \A u \in Used : f[u] \in Taken
    <3> TAKE u \in Used
    <3>0. PICK i \in Entries : \E k \in 1 .. Size1(i) : u = <<directory[i].name, k>>
      BY <1>2
    <3>1. PICK k \in 1 .. Size1(i) : u = <<directory[i].name, k>>
      BY <3>0
    <3> QED
      BY <1>4, <1>7, <3>1
  <2> QED
    BY <1>8, <2>1
<1>10. \A u, v \in Used : f[u] = f[v] => u = v
  <2> SUFFICES ASSUME NEW u \in Used, NEW v \in Used, f[u] = f[v] PROVE u = v
    OBVIOUS
  <2>0. /\ \E i \in Entries : \E k \in 1 .. Size1(i) : u = <<directory[i].name, k>>
        /\ \E i \in Entries : \E k \in 1 .. Size1(i) : v = <<directory[i].name, k>>
    BY <1>2
  <2>8. PICK i \in Entries : \E k \in 1 .. Size1(i) : u = <<directory[i].name, k>>
    BY <2>0
  <2>1. PICK k \in 1 .. Size1(i) : u = <<directory[i].name, k>>
    BY <2>8
  <2>9. PICK j \in Entries : \E k1 \in 1 .. Size1(j) : v = <<directory[j].name, k1>>
    BY <2>0
  <2>2. PICK l \in 1 .. Size1(j) : v = <<directory[j].name, l>>
    BY <2>9
  <2>3. SectorAt(i, k) = SectorAt(j, l)
    BY <1>7, <2>1, <2>2
  <2>4. /\ SectorAt(i, k) \in AllSectors(directory[i].sector, HeaderOf(i))
        /\ SectorAt(j, l) \in AllSectors(directory[j].sector, HeaderOf(j))
    BY <1>4
  <2>5. i = j
    BY <2>3, <2>4 DEF FilesInv, FilesDisjoint
  <2>6. k = l
    BY <1>4, <2>3, <2>5
  <2> QED
    BY <2>1, <2>2, <2>5, <2>6
<1>11. \A s \in Taken : \E u \in Used : f[u] = s
  <2> TAKE s \in Taken
  <2>1. PICK i \in Entries : s \in AllSectors(directory[i].sector, HeaderOf(i))
    BY <1>5
  <2>2. PICK k \in 1 .. Size1(i) : SectorAt(i, k) = s
    BY <1>4, <2>1
  <2>3. <<directory[i].name, k>> \in Used
    BY <1>3
  <2> QED
    BY <1>7, <2>2, <2>3
<1>12. f \in Bijection(Used, Taken)
  BY <1>9, <1>10, <1>11, Fun_IsBij
<1>13. ExistsBijection(Used, Taken)
  BY <1>12, Fun_ExistsBij
<1> QED
  BY <1>13 DEF Used, Taken

(* The cardinality of the abstract module is that of this one.             *)
LEMMA SameCardinality == \A S : Seen!Cardinality(S) = Cardinality(S)
BY DEF Cardinality, Seen!Cardinality

LEMMA RoomIsClear ==
  ASSUME FilesInv
  PROVE  /\ IsFiniteSet(ClearSectors) /\ Cardinality(ClearSectors) \in Nat
         /\ Seen!Room = Cardinality(ClearSectors)
<1>1. NumSectors \in Nat /\ Reserved \in 2 .. NumSectors
  BY FilesAssumption
<1>2. IsFiniteSet(Sector) /\ Cardinality(Sector) = NumSectors
  BY <1>1, FS_Interval DEF Sector
<1>3. IsFiniteSet(0 .. Reserved - 1) /\ Cardinality(0 .. Reserved - 1) = Reserved
  BY <1>1, FS_Interval
<1>4. freeMap \subseteq Sector /\ 0 .. Reserved - 1 \subseteq freeMap
  BY <1>1 DEF FilesInv, Typed, MapIsRight, Sector
<1>5. IsFiniteSet(freeMap) /\ Cardinality(freeMap) \in Nat
  BY <1>2, <1>4, FS_Subset, FS_CardinalityType
<1>6. IsFiniteSet(ClearSectors) /\ Cardinality(ClearSectors) = NumSectors - Cardinality(freeMap)
  <2>1. Sector \cap freeMap = freeMap
    BY <1>4
  <2>2. IsFiniteSet(Sector \ freeMap)
        /\ Cardinality(Sector \ freeMap) = Cardinality(Sector) - Cardinality(Sector \cap freeMap)
    BY <1>2, FS_Difference
  <2> QED
    BY <1>2, <2>1, <2>2 DEF ClearSectors
<1>7. PICK taken : taken = freeMap \ 0 .. Reserved - 1
  OBVIOUS
<1>8. IsFiniteSet(taken) /\ Cardinality(taken) = Cardinality(freeMap) - Reserved
  <2>1. freeMap \cap (0 .. Reserved - 1) = 0 .. Reserved - 1
    BY <1>4
  <2>2. IsFiniteSet(freeMap \ 0 .. Reserved - 1)
        /\ Cardinality(freeMap \ 0 .. Reserved - 1)
             = Cardinality(freeMap) - Cardinality(freeMap \cap (0 .. Reserved - 1))
    BY <1>5, FS_Difference
  <2> QED
    BY <1>3, <1>7, <2>1, <2>2
<1>9. Cardinality(Seen!Used) = Cardinality(taken)
  <2>1. ExistsBijection(taken, Seen!Used)
    BY <1>7, UsedSectors, Fun_ExistsBijSymmetric
  <2> QED
    BY <1>8, <2>1, FS_Bijection
<1>10. Cardinality(ClearSectors) \in Nat
  BY <1>6, FS_CardinalityType
<1>11. Seen!Room = (NumSectors - Reserved) - Cardinality(Seen!Used)
  BY SameCardinality DEF Seen!Room
<1>12. PICK used : used = Cardinality(Seen!Used)
  OBVIOUS
<1>13. used = Cardinality(freeMap) - Reserved
  BY <1>8, <1>9, <1>12
<1> QED
  BY <1>1, <1>5, <1>6, <1>10, <1>11, <1>12, <1>13

LEMMA NamesCount ==
  ASSUME FilesInv
  PROVE  /\ IsFiniteSet(Entries) /\ Cardinality(Entries) \in Nat
         /\ Cardinality(DOMAIN FilesSeen) = Cardinality(Entries)
         /\ Cardinality(Entries) < NumDirEntries <=> Entries # 1 .. NumDirEntries
<1>1. NumDirEntries \in Nat /\ Entries \subseteq 1 .. NumDirEntries
  BY FilesAssumption DEF Entries
<1>2. IsFiniteSet(1 .. NumDirEntries) /\ Cardinality(1 .. NumDirEntries) = NumDirEntries
  BY <1>1, FS_Interval
<1>3. /\ IsFiniteSet(Entries) /\ Cardinality(Entries) <= NumDirEntries
      /\ Cardinality(1 .. NumDirEntries) = Cardinality(Entries) => 1 .. NumDirEntries = Entries
  BY <1>1, <1>2, FS_Subset
<1>4. Cardinality(Entries) \in Nat
  BY <1>3, FS_CardinalityType
<1>5. PICK names : names = DOMAIN FilesSeen
  OBVIOUS
<1>6. \A n : n \in names <=> \E i \in Entries : directory[i].name = n
  BY <1>5, SeenFacts DEF SeenOK
<1> DEFINE f == [i \in Entries |-> directory[i].name]
<1>7. f \in [Entries -> names] /\ \A n \in names : \E i \in Entries : f[i] = n
  BY <1>6
<1>8. \A i, j \in Entries : f[i] = f[j] => i = j
  BY DEF FilesInv, NamesDiffer
<1> HIDE DEF f
<1>9. f \in Bijection(Entries, names)
  BY <1>7, <1>8, Fun_IsBij
<1>10. ExistsBijection(Entries, names)
  BY <1>9, Fun_ExistsBij
<1>11. Cardinality(names) = Cardinality(Entries)
  BY <1>3, <1>10, FS_Bijection
<1> QED
  BY <1>1, <1>2, <1>3, <1>4, <1>5, <1>11

(* Create fails just when the abstract file system has no room.            *)
LEMMA FailsWithoutRoom ==
  ASSUME FilesInv, NEW n \in Name, NEW size \in Size
  PROVE  ~ CreateFails(n, size) <=> /\ n \notin DOMAIN FilesSeen
                                    /\ Cardinality(DOMAIN FilesSeen) < NumDirEntries
                                    /\ Seen!Sectors(size) <= Seen!Room
<1>1. n \notin DOMAIN FilesSeen <=> FindIndex(n) = {}
  BY SeenNames
<1>2. Cardinality(DOMAIN FilesSeen) < NumDirEntries <=> Entries # 1 .. NumDirEntries
  BY NamesCount
<1>3. PICK k \in Nat : k = divRoundUp(size, SectorSize) /\ Seen!Sectors(size) = 1 + k
  BY SizesRoundUp, FilesAssumption DEF Seen!Sectors, divRoundUp
<1>4. PICK c \in Nat : c = Cardinality(ClearSectors) /\ Seen!Room = c
  BY RoomIsClear
<1>5. ClearSectors = {} => c = 0
  BY <1>4, FS_EmptySet
<1> QED
  BY <1>1, <1>2, <1>3, <1>4, <1>5 DEF CreateFails

(* A new file has the bytes that were in its sectors; the others keep      *)
(* theirs, since a header goes to a sector that was clear.                 *)
LEMMA CreatedFile ==
  ASSUME FilesInv, FilesInv', NEW n \in Name, NEW size \in Size, FindIndex(n) = {},
         NEW e, NEW s, NEW sectors, Creates(n, size, e, s, sectors)
  PROVE  \E bytes \in [1 .. size -> Byte] :
           FilesSeen' = [m \in DOMAIN FilesSeen \cup {n} |-> IF m = n THEN bytes ELSE FilesSeen[m]]
<1>0. SeenOK /\ SeenOK'
  BY SeenFacts, PTL
<1>1. /\ e \in 1 .. NumDirEntries /\ e \notin Entries /\ s \in Sector /\ s \notin freeMap
      /\ header' = [header EXCEPT ![s] = [numBytes |-> size, dataSectors |-> sectors]]
      /\ data' = [data EXCEPT ![s] = [o \in Offset |-> HeaderByte]]
      /\ directory' = [directory EXCEPT ![e] = [name |-> n, sector |-> s]]
  BY DEF Creates, ClearSectors
<1>2. /\ Entries' = Entries \cup {e} /\ directory'[e] = [name |-> n, sector |-> s]
      /\ \A i \in Entries : directory'[i] = directory[i] /\ i # e
  <2>1. [name |-> n, sector |-> s] # NoEntry
    BY <1>1, FilesAssumption
  <2> QED
    BY <1>1, <2>1 DEF FilesInv, Typed, Entries
<1>3. directory'[e].name = n /\ \A i \in Entries : directory[i].name # n
  BY <1>2 DEF FindIndex
<1>4. header'[directory'[e].sector].numBytes = size
  BY <1>1, <1>2 DEF FilesInv, Typed
<1>5. \A i \in Entries : Contents(i)' = Contents(i)
  <2> TAKE i \in Entries
  <2>1. PICK hdr : hdr = HeaderOf(i)
    OBVIOUS
  <2>2. PICK l \in Nat : l = hdr.numBytes
    BY <2>1, SectorsMarked
  <2>3. directory[i].sector \in freeMap /\ ToSet(hdr.dataSectors) \subseteq freeMap
    BY <2>1, SectorsMarked DEF AllSectors
  <2>4. header'[directory'[i].sector] = hdr
    BY <1>1, <1>2, <2>1, <2>3 DEF HeaderOf
  <2>5. \A k \in 1 .. l : ByteAt(hdr, k - 1)' = ByteAt(hdr, k - 1)
    <3> TAKE k \in 1 .. l
    <3>1. PICK x \in Nat : x = k - 1 /\ x < hdr.numBytes
      BY <2>2
    <3>2. WellFormed(directory[i].sector, hdr) /\ data \in [Sector -> [Offset -> Byte]]
      BY <2>1 DEF FilesInv, HeadersWellFormed, Typed
    <3>3. PICK j : j = x \div SectorSize + 1
      OBVIOUS
    <3>4. j \in 1 .. Len(hdr.dataSectors) /\ hdr.dataSectors[j] \in Sector
      BY <3>1, <3>2, <3>3, ByteInFile
    <3>5. hdr.dataSectors[j] \in ToSet(hdr.dataSectors)
      <4>1. PICK list \in Seq(Sector) : list = hdr.dataSectors
        BY <3>2 DEF WellFormed, Header
      <4> QED
        BY <3>4, <4>1, LenProperties DEF ToSet
    <3>6. hdr.dataSectors[j] # s
      BY <1>1, <2>3, <3>5
    <3>7. data'[hdr.dataSectors[j]] = data[hdr.dataSectors[j]]
      BY <1>1, <3>2, <3>4, <3>6
    <3> QED
      BY <3>1, <3>3, <3>7 DEF ByteAt
  <2>6. Contents(i) = [k \in 1 .. l |-> ByteAt(hdr, k - 1)]
    BY <2>1, <2>2 DEF Contents, HeaderOf
  <2>7. Contents(i)' = [k \in 1 .. l |-> ByteAt(hdr, k - 1)']
    BY <2>2, <2>4 DEF Contents
  <2> QED
    BY <2>5, <2>6, <2>7
<1>6. PICK bytes : bytes = Contents(e)'
  OBVIOUS
<1>7. bytes \in [1 .. size -> Byte]
  BY <1>0, <1>2, <1>4, <1>6 DEF SeenOK, HeaderOf
<1>8. FilesSeen'[n] = bytes
  BY <1>0, <1>2, <1>3, <1>6 DEF SeenOK
<1>9. \A m : m \in DOMAIN FilesSeen' <=> m \in DOMAIN FilesSeen \cup {n}
  <2>1. \A m : m \in DOMAIN FilesSeen' <=> \E i \in Entries' : directory'[i].name = m
    BY <1>0 DEF SeenOK
  <2>2. \A m : m \in DOMAIN FilesSeen <=> \E i \in Entries : directory[i].name = m
    BY <1>0 DEF SeenOK
  <2> QED
    BY <1>2, <1>3, <2>1, <2>2
<1>10. \A m \in DOMAIN FilesSeen : m # n => FilesSeen'[m] = FilesSeen[m]
  <2> SUFFICES ASSUME NEW m \in DOMAIN FilesSeen PROVE FilesSeen'[m] = FilesSeen[m]
    OBVIOUS
  <2>1. PICK i \in Entries : directory[i].name = m
    BY <1>0 DEF SeenOK
  <2>2. FilesSeen[m] = Contents(i)
    BY <1>0, <2>1 DEF SeenOK
  <2>3. i \in Entries' /\ directory'[i].name = m
    BY <1>2, <2>1
  <2>4. FilesSeen'[m] = Contents(i)'
    BY <1>0, <2>3 DEF SeenOK
  <2> QED
    BY <1>5, <2>2, <2>4
<1>11. FilesSeen' = [m \in DOMAIN FilesSeen' |-> FilesSeen'[m]]
  BY DEF FilesSeen
<1>12. FilesSeen' = [m \in DOMAIN FilesSeen \cup {n} |-> IF m = n THEN bytes ELSE FilesSeen[m]]
  BY <1>8, <1>9, <1>10, <1>11
<1> QED
  BY <1>7, <1>12

LEMMA CreateRefines ==
  ASSUME FilesInv, FilesInv', NEW n \in Name, NEW size \in Size, Create(n, size)
  PROVE  Seen!Create(n, size)
<1>1. UNCHANGED opened /\ OpenSeen' = OpenSeen
  BY DEF Create, OpenSeen
<1>2. PICK room \in BOOLEAN : room = (/\ n \notin DOMAIN FilesSeen
                                     /\ Seen!Cardinality(DOMAIN FilesSeen) < NumDirEntries
                                     /\ Seen!Sectors(size) <= Seen!Room)
  OBVIOUS
<1>3. ~ CreateFails(n, size) <=> room
  BY <1>2, FailsWithoutRoom, SameCardinality
<1>4. CASE CreateFails(n, size)
  <2>1. UNCHANGED <<directory, header, data>> /\ Answer(FALSE, <<>>)
    BY <1>4 DEF Create
  <2>2. FilesSeen' = FilesSeen
    BY <2>1, SameFiles
  <2> QED
    BY <1>1, <1>2, <1>3, <1>4, <2>1, <2>2 DEF Seen!Create, Seen!Answer, Answer
<1>5. CASE ~ CreateFails(n, size)
  <2>1. CreateFile(n, size) /\ Answer(TRUE, <<>>)
    BY <1>5 DEF Create
  <2>2. \E bytes \in [1 .. size -> Byte] :
          FilesSeen' = [m \in DOMAIN FilesSeen \cup {n} |-> IF m = n THEN bytes ELSE FilesSeen[m]]
    BY <1>5, <2>1, CreateFacts, CreatedFile DEF FilesInv
  <2> QED
    BY <1>1, <1>2, <1>3, <1>5, <2>1, <2>2 DEF Seen!Create, Seen!Answer, Answer
<1> QED
  BY <1>4, <1>5

-----------------------------------------------------------------------------
LEMMA StepRefines == FilesInv /\ FilesInv' /\ [Next]_vars => [Seen!Next]_(Seen!vars)
<1> SUFFICES ASSUME FilesInv, FilesInv', [Next]_vars PROVE [Seen!Next]_(Seen!vars)
  OBVIOUS
<1>1. ASSUME NEW n \in Name, NEW size \in Size, Create(n, size) PROVE Seen!Next
  BY <1>1, CreateRefines DEF Seen!Next
<1>2. ASSUME NEW n \in Name, RemoveFile(n) PROVE Seen!Next
  BY <1>2, RemoveRefines DEF Seen!Next
<1>3. ASSUME NEW h \in Handle, NEW n \in Name, Open(h, n) PROVE Seen!Next
  BY <1>3, OpenRefines DEF Seen!Next
<1>4. ASSUME NEW h \in Handle, NEW n \in Size, Seek(h, n) PROVE Seen!Next
  BY <1>4, SeekRefines DEF Seen!Next
<1>5. ASSUME NEW h \in Handle, NEW n \in Size, Read(h, n) PROVE Seen!Next
  BY <1>5, ReadRefines DEF Seen!Next
<1>6. ASSUME NEW h \in Handle, NEW bytes \in Data, Write(h, bytes) PROVE Seen!Next
  BY <1>6, WriteRefines DEF Seen!Next
<1>7. ASSUME NEW h \in Handle, Close(h) PROVE Seen!Next
  BY <1>7, CloseRefines DEF Seen!Next
<1>8. CASE Restart
  BY <1>8, RestartRefines DEF Seen!Next
<1>9. CASE UNCHANGED vars
  <2>1. UNCHANGED <<directory, header, data, opened, result>>
    BY <1>9 DEF vars
  <2> QED
    BY <2>1, SameFiles DEF OpenSeen, Seen!vars
<1> QED
  BY <1>1, <1>2, <1>3, <1>4, <1>5, <1>6, <1>7, <1>8, <1>9 DEF Next

(* Whatever the sizes of the disk, of its sectors and of the files, and    *)
(* wherever a write begins and ends, a program sees only files with their  *)
(* own bytes (filesys/filesys.cc, openfile.cc).                            *)
THEOREM SectorsDoNotShow == Spec => ImplementsFiles
<1>1. Init => Seen!Init
  <2> SUFFICES ASSUME Init PROVE Seen!Init
    OBVIOUS
  <2>1. Entries = {}
    BY DEF Init, Entries
  <2>2. DOMAIN FilesSeen = {}
    BY <2>1 DEF FilesSeen
  <2>3. FilesSeen = <<>>
    BY <2>1 DEF FilesSeen
  <2>4. OpenSeen = [h \in Handle |-> Closed]
    BY DEF Init, OpenSeen
  <2> QED
    BY <2>3, <2>4 DEF Init, Seen!Init
<1> QED
  BY <1>1, StepRefines, FilesInvariant, PTL DEF Spec, ImplementsFiles, Seen!Spec
=============================================================================
