-------------------------------- MODULE Files --------------------------------
(***************************************************************************)
(* The base file system of Nachos (filesys/filesys.cc, directory.cc,       *)
(* filehdr.cc, openfile.cc, pbitmap.cc of Lab 2; the same files in the     *)
(* assignments): a bitmap of sectors, one directory, a header in a sector  *)
(* of its own that lists the sectors of the data, and reads and writes of  *)
(* any bytes on a disk that moves whole sectors.                           *)
(*                                                                         *)
(* An operation is one step: "this implementation assumes there is no      *)
(* concurrent access to the file system" (filesys.cc:167).  Each operation *)
(* reads the bitmap and the directory from the disk and writes them back,  *)
(* so that freeMap and directory are what the disk holds.  A program       *)
(* removes files that are not open, and asks for no more bytes than a      *)
(* header has room for: Remove and Allocate test neither.                  *)
(***************************************************************************)
EXTENDS Integers, FiniteSets, SequencesExt

CONSTANTS
  NumSectors,     \* sectors of the disk
  SectorSize,     \* bytes in a sector
  Reserved,       \* sectors of the bitmap and the directory, lowest first
  NumDirEntries,  \* entries of the directory
  Name,           \* names of files
  Handle,         \* what a program has for an OpenFile
  Size,           \* sizes of files, numbers of bytes, positions
  Byte,           \* contents of a byte
  HeaderByte,     \* a byte of a header's sector, when it is read as data
  NoEntry,        \* an entry of the directory that is not in use
  NoHeader,       \* no header in a sector
  Closed          \* no OpenFile

Sector == 0 .. NumSectors - 1
Offset == 0 .. SectorSize - 1
Data == UNION {[1 .. n -> Byte] : n \in Size}

ASSUME FilesAssumption ==
  /\ NumSectors \in Nat /\ SectorSize \in Nat \ {0} /\ NumDirEntries \in Nat
  /\ Reserved \in 2 .. NumSectors
  /\ Size \subseteq Nat /\ IsFiniteSet(Size) /\ Size # {}
  /\ HeaderByte \in Byte
  /\ NoEntry \notin [name : Name, sector : Sector]
  /\ NoHeader \notin [numBytes : Size, dataSectors : Seq(Sector)]
  /\ Closed \notin [name : Name, hdr : [numBytes : Size, dataSectors : Seq(Sector)],
                    seekPosition : Nat]
  /\ Closed \notin [name : Name, pos : Nat]

VARIABLES
  freeMap,    \* the sectors whose bit is set
  directory,  \* the table of the directory
  header,     \* the FileHeader in a sector
  data,       \* the bytes in a sector
  opened,     \* the OpenFiles; and the name, which the program knows
  result      \* what the last operation returned

vars == <<freeMap, directory, header, data, opened, result>>

divRoundUp(n, s) == (n + s - 1) \div s
Least(a, b) == IF a < b THEN a ELSE b
Greatest(a, b) == IF a < b THEN b ELSE a

(* FileSystem(TRUE): the files of the bitmap and of the directory are at   *)
(* the front of the disk; the rest is free and holds what it held before.  *)
Init ==
  /\ freeMap = 0 .. Reserved - 1
  /\ directory = [i \in 1 .. NumDirEntries |-> NoEntry]
  /\ header = [s \in Sector |-> NoHeader]
  /\ \E b \in Byte : data = [s \in Sector |-> [o \in Offset |-> b]]
  /\ opened = [h \in Handle |-> Closed]
  /\ result = [ok |-> TRUE, bytes |-> <<>>]

Answer(ok, bytes) == result' = [ok |-> ok, bytes |-> bytes]

(***************************************************************************)
(* FileSystem, Directory, FileHeader, Bitmap                               *)
(***************************************************************************)
Entries == {i \in 1 .. NumDirEntries : directory[i] # NoEntry}
FindIndex(n) == {i \in Entries : directory[i].name = n}

ClearSectors == Sector \ freeMap

(* What FindAndSet gives, call after call: the lowest clear sector.        *)
FindAndSet(sectors) ==
  \A k \in DOMAIN sectors :
    LET clear == ClearSectors \ {sectors[j] : j \in 1 .. k - 1}
    IN  sectors[k] \in clear /\ \A s \in clear : sectors[k] <= s

(* FindAndSet for the header, Add, and Allocate, each of which may fail.   *)
CreateFails(n, size) ==
  \/ FindIndex(n) # {}
  \/ ClearSectors = {}
  \/ Entries = 1 .. NumDirEntries
  \/ Cardinality(ClearSectors) - 1 < divRoundUp(size, SectorSize)

CreateFile(n, size) ==
  LET entry == Min(1 .. NumDirEntries \ Entries)
  IN  \E found \in [1 .. 1 + divRoundUp(size, SectorSize) -> ClearSectors] :
        /\ FindAndSet(found)
        /\ header' = [header EXCEPT ![Head(found)] =
             [numBytes |-> size, dataSectors |-> Tail(found)]]
        /\ data' = [data EXCEPT ![Head(found)] = [o \in Offset |-> HeaderByte]]
        /\ directory' = [directory EXCEPT ![entry] = [name |-> n, sector |-> Head(found)]]
        /\ freeMap' = freeMap \cup ToSet(found)

(* Nothing is written to the disk unless everything worked.                *)
Create(n, size) ==
  /\ IF CreateFails(n, size)
     THEN Answer(FALSE, <<>>) /\ UNCHANGED <<freeMap, directory, header, data>>
     ELSE Answer(TRUE, <<>>) /\ CreateFile(n, size)
  /\ UNCHANGED opened

OpenAs(n) == {h \in Handle : opened[h] # Closed /\ opened[h].name = n}

(* Slip: the header is freed, but not the data.                            *)
DeallocatedHeaderOnly(hdr, sector) == {sector}

Deallocated(hdr, sector) == ToSet(hdr.dataSectors) \cup {sector}

RemoveFile(n) ==
  /\ OpenAs(n) = {}
  /\ IF FindIndex(n) = {}
     THEN Answer(FALSE, <<>>) /\ UNCHANGED <<freeMap, directory>>
     ELSE \E i \in FindIndex(n) :
            LET sector == directory[i].sector
            IN  /\ freeMap' = freeMap \ Deallocated(header[sector], sector)
                /\ directory' = [directory EXCEPT ![i] = NoEntry]
                /\ Answer(TRUE, <<>>)
  /\ UNCHANGED <<header, data, opened>>

(* An OpenFile keeps the header it read when it was opened.                *)
Open(h, n) ==
  /\ opened[h] = Closed
  /\ IF FindIndex(n) = {}
     THEN Answer(FALSE, <<>>) /\ UNCHANGED opened
     ELSE \E i \in FindIndex(n) :
            /\ opened' = [opened EXCEPT ![h] =
                 [name |-> n, hdr |-> header[directory[i].sector], seekPosition |-> 0]]
            /\ Answer(TRUE, <<>>)
  /\ UNCHANGED <<freeMap, directory, header, data>>

(***************************************************************************)
(* OpenFile                                                                *)
(***************************************************************************)
Disk == <<freeMap, directory, header, data>>

Seek(h, position) ==
  /\ opened[h] # Closed
  /\ opened' = [opened EXCEPT ![h].seekPosition = position]
  /\ UNCHANGED <<Disk, result>>

Close(h) ==
  /\ opened[h] # Closed
  /\ opened' = [opened EXCEPT ![h] = Closed]
  /\ UNCHANGED <<Disk, result>>

(* numBytes is cut at the end of the file; 0 if the position is beyond.    *)
Moved(file, numBytes) == Greatest(0, Least(numBytes, file.hdr.numBytes - file.seekPosition))

ByteAt(hdr, pos) == data[hdr.dataSectors[pos \div SectorSize + 1]][pos % SectorSize]

Read(h, numBytes) ==
  /\ opened[h] # Closed
  /\ LET file == opened[h]
         count == Moved(file, numBytes)
     IN  /\ Answer(TRUE, [i \in 1 .. count |-> ByteAt(file.hdr, file.seekPosition + i - 1)])
         /\ opened' = [opened EXCEPT ![h].seekPosition = @ + count]
  /\ UNCHANGED Disk

(* Slip: the last sector is read only if it is not the first.              *)
ReadFirstUnaligned(i, pos, end) ==
  \/ i = pos \div SectorSize /\ pos % SectorSize # 0
  \/ i = (end - 1) \div SectorSize /\ end % SectorSize # 0 /\ pos \div SectorSize # i

(* WriteAt reads the first sector and the last one if it will change only  *)
(* a part of them.                                                         *)
ReadFirst(i, pos, end) ==
  \/ i = pos \div SectorSize /\ pos % SectorSize # 0
  \/ /\ i = (end - 1) \div SectorSize /\ end % SectorSize # 0
     /\ pos \div SectorSize # i \/ pos % SectorSize = 0

(* Sector i of a file after bytes have been written at pos.  ReadAt stops  *)
(* at the end of the file: beyond it the buffer is what new gave.          *)
NewSector(hdr, i, pos, bytes, junk) ==
  [o \in Offset |->
     LET at == i * SectorSize + o
     IN  IF at \in pos .. pos + Len(bytes) - 1 THEN bytes[at - pos + 1]
         ELSE IF ReadFirst(i, pos, pos + Len(bytes)) /\ at < hdr.numBytes THEN ByteAt(hdr, at)
         ELSE junk[o]]

(* Where in the file the sector s is, of the sectors that WriteAt writes.   *)
Touched(hdr, s, pos, end) ==
  {i \in 0 .. Len(hdr.dataSectors) - 1 :
     hdr.dataSectors[i + 1] = s /\ i \in pos \div SectorSize .. (end - 1) \div SectorSize}

Write(h, from) ==
  /\ opened[h] # Closed
  /\ LET file == opened[h]
         pos == file.seekPosition
         bytes == SubSeq(from, 1, Moved(file, Len(from)))
         at(s) == Touched(file.hdr, s, pos, pos + Len(bytes))
     IN  /\ Answer(TRUE, bytes)
         /\ opened' = [opened EXCEPT ![h].seekPosition = @ + Len(bytes)]
         /\ IF bytes = <<>>
            THEN UNCHANGED <<header, data>>
            ELSE /\ \E junk \in [Offset -> Byte] :
                      data' = [s \in Sector |->
                                 IF at(s) = {} THEN data[s]
                                 ELSE NewSector(file.hdr, CHOOSE i \in at(s) : TRUE, pos, bytes, junk)]
                 /\ header' = [s \in Sector |-> IF at(s) = {} THEN header[s] ELSE NoHeader]
  /\ UNCHANGED <<freeMap, directory>>

(* FileSystem(FALSE): the machine has halted between two operations; what  *)
(* was open is not any more, the bitmap and the directory are read again.  *)
Restart ==
  /\ opened' = [h \in Handle |-> Closed]
  /\ UNCHANGED <<Disk, result>>

Next ==
  \/ \E n \in Name : (\E size \in Size : Create(n, size)) \/ RemoveFile(n)
  \/ \E h \in Handle :
       \/ \E n \in Name : Open(h, n)
       \/ \E n \in Size : Seek(h, n) \/ Read(h, n)
       \/ \E bytes \in Data : Write(h, bytes)
       \/ Close(h)
  \/ Restart

Spec == Init /\ [][Next]_vars

(***************************************************************************)
(* Properties                                                              *)
(***************************************************************************)
TypeOK ==
  /\ freeMap \subseteq Sector
  /\ \A i \in 1 .. NumDirEntries :
       directory[i] = NoEntry \/ directory[i] \in [name : Name, sector : Sector]
  /\ \A s \in Sector :
       header[s] = NoHeader \/ header[s] \in [numBytes : Size, dataSectors : Seq(Sector)]
  /\ data \in [Sector -> [Offset -> Byte]]

(* The sectors of the file whose header is in a sector.                    *)
Owns(s) == {s} \cup ToSet(header[s].dataSectors)

(* The bits of the map are set for the sectors in front and for those of   *)
(* the files in the directory, which share none and have as many as their  *)
(* length needs; every OpenFile has the header that is on the disk, though *)
(* names come and go.  Deallocate asserts a part of it (filehdr.cc:71).    *)
SectorsOwned ==
  /\ TypeOK
  /\ \A i \in Entries :
       LET s == directory[i].sector
       IN  /\ header[s] # NoHeader
           /\ Cardinality(Owns(s)) = 1 + divRoundUp(header[s].numBytes, SectorSize)
           /\ Owns(s) \cap (0 .. Reserved - 1) = {}
           /\ \A j \in Entries \ {i} :
                /\ directory[i].name # directory[j].name
                /\ Owns(s) \cap Owns(directory[j].sector) = {}
  /\ freeMap = 0 .. Reserved - 1 \cup UNION {Owns(directory[i].sector) : i \in Entries}
  /\ \A h \in Handle : opened[h] # Closed =>
       \E i \in FindIndex(opened[h].name) : opened[h].hdr = header[directory[i].sector]

(* What a program sees of it.                                              *)
Contents(i) ==
  LET hdr == header[directory[i].sector]
  IN  [k \in 1 .. hdr.numBytes |-> ByteAt(hdr, k - 1)]
FilesSeen ==
  [n \in {directory[i].name : i \in Entries} |->
     Contents(CHOOSE i \in Entries : directory[i].name = n)]
OpenSeen ==
  [h \in Handle |-> IF opened[h] = Closed THEN Closed
                    ELSE [name |-> opened[h].name, pos |-> opened[h].seekPosition]]
Seen ==
  INSTANCE FilesSpec WITH
    files <- FilesSeen,
    opened <- OpenSeen,
    MaxFiles <- NumDirEntries,
    Capacity <- NumSectors - Reserved

(* Sectors, bitmap and headers do not show: a file has its own bytes,      *)
(* changed by Write where it says and nowhere else, up to the end of the   *)
(* file, whatever sectors were before and whatever lies beyond the end;    *)
(* what fails changes nothing, and Create fails only without room.         *)
ImplementsFiles == Seen!Spec
=============================================================================
