------------------------------ MODULE FilesSpec ------------------------------
(***************************************************************************)
(* What the base file system promises (filesys/filesys.h, openfile.h):     *)
(* names with a fixed number of bytes each, which change by Write only; no *)
(* sectors, no headers, no bitmap.  A file is refused if its name is taken *)
(* or there is no room, and only then.                                     *)
(***************************************************************************)
EXTENDS Integers, Sequences, FiniteSets

CONSTANTS
  Name,       \* names a file may have
  Handle,     \* files a program may have open
  Closed,     \* not open
  Byte,       \* contents of a byte
  Size,       \* numbers: of bytes in a file, asked for, to seek to
  Data,       \* sequences of bytes to write
  MaxFiles,   \* files the directory has room for
  Capacity,   \* sectors the disk has for files
  SectorSize  \* bytes in a sector

VARIABLES
  files,   \* the contents of each file there is
  opened,  \* the name and the position of an open file
  result   \* what the last operation returned

vars == <<files, opened, result>>

Least(a, b) == IF a < b THEN a ELSE b
Sectors(size) == 1 + (size + SectorSize - 1) \div SectorSize
(* The sectors in use, numbered file by file, and how many are not.        *)
Used == UNION {{n} \X (1 .. Sectors(Len(files[n]))) : n \in DOMAIN files}
Room == Capacity - Cardinality(Used)

Init ==
  /\ files = <<>>
  /\ opened = [h \in Handle |-> Closed]
  /\ result = [ok |-> TRUE, bytes |-> <<>>]

Answer(ok, bytes) == result' = [ok |-> ok, bytes |-> bytes]

(* The bytes of a new file are those of whatever was in its sectors.       *)
Create(n, size) ==
  IF n \notin DOMAIN files /\ Cardinality(DOMAIN files) < MaxFiles /\ Sectors(size) <= Room
  THEN /\ \E bytes \in [1 .. size -> Byte] :
            files' = [m \in DOMAIN files \cup {n} |-> IF m = n THEN bytes ELSE files[m]]
       /\ Answer(TRUE, <<>>)
       /\ UNCHANGED opened
  ELSE Answer(FALSE, <<>>) /\ UNCHANGED <<files, opened>>

Remove(n) ==
  /\ files' = [m \in DOMAIN files \ {n} |-> files[m]]
  /\ Answer(n \in DOMAIN files, <<>>)
  /\ UNCHANGED opened

Open(h, n) ==
  /\ opened[h] = Closed
  /\ opened' = [opened EXCEPT ![h] = IF n \in DOMAIN files THEN [name |-> n, pos |-> 0]
                                                           ELSE Closed]
  /\ Answer(n \in DOMAIN files, <<>>)
  /\ UNCHANGED files

Seek(h, p) ==
  /\ opened[h] # Closed
  /\ opened' = [opened EXCEPT ![h].pos = p]
  /\ UNCHANGED <<files, result>>

(* Of n bytes asked for, those before the end of the file.                 *)
Moved(h, n) == Least(n, Len(files[opened[h].name]) - opened[h].pos)

Read(h, n) ==
  LET count == Moved(h, n)
      pos == opened[h].pos
  IN  /\ opened[h] # Closed
      /\ IF count > 0
         THEN /\ Answer(TRUE, SubSeq(files[opened[h].name], pos + 1, pos + count))
              /\ opened' = [opened EXCEPT ![h].pos = pos + count]
         ELSE Answer(TRUE, <<>>) /\ UNCHANGED opened
      /\ UNCHANGED files

Write(h, bytes) ==
  LET count == Moved(h, Len(bytes))
      pos == opened[h].pos
  IN  /\ opened[h] # Closed
      /\ IF count > 0
         THEN /\ files' = [files EXCEPT ![opened[h].name] =
                     [i \in DOMAIN @ |-> IF i \in pos + 1 .. pos + count THEN bytes[i - pos]
                                                                        ELSE @[i]]]
              /\ Answer(TRUE, SubSeq(bytes, 1, count))
              /\ opened' = [opened EXCEPT ![h].pos = pos + count]
         ELSE Answer(TRUE, <<>>) /\ UNCHANGED <<files, opened>>

Close(h) ==
  /\ opened' = [opened EXCEPT ![h] = Closed]
  /\ UNCHANGED <<files, result>>

(* Nachos halts and is started again on the same disk.                     *)
Restart ==
  /\ opened' = [h \in Handle |-> Closed]
  /\ UNCHANGED <<files, result>>

Next ==
  \/ \E n \in Name : (\E size \in Size : Create(n, size)) \/ Remove(n)
  \/ \E h \in Handle :
       \/ \E n \in Name : Open(h, n)
       \/ \E n \in Size : Seek(h, n) \/ Read(h, n)
       \/ \E bytes \in Data : Write(h, bytes)
       \/ Close(h)
  \/ Restart

Spec == Init /\ [][Next]_vars
=============================================================================
