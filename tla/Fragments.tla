----------------------------- MODULE Fragments -----------------------------
(***************************************************************************)
(* Where the final project's file system puts the fragments of its files:  *)
(* FileSystem::Allocate with its two searches NextPlaceForSmallFragments   *)
(* and NextAlignedFragments, Unlink, and what Create and Remove do to the  *)
(* fragments of the directory (filesys/filesys.cc, openfile.cc,            *)
(* directory.cc), for one thread at a time.                                *)
(*                                                                         *)
(* The disk is divided into cylinder groups of GroupSize fragments, each   *)
(* with a bitmap of its own.  A file occupies whole aligned blocks and,    *)
(* for the rest, a run of fragments inside one block.  Lengths are counted *)
(* in fragments.  Files stay below NUM_DIRECT_FRAGMENTS: the indirect      *)
(* block is not modelled.                                                  *)
(*                                                                         *)
(* Names that FileLife, the other half of this file system, has too are    *)
(* prefixed: FinalProjectProofs reasons about both.                        *)
(***************************************************************************)
EXTENDS Integers, FiniteSets, SequencesExt

CONSTANTS
  File,               \* regular files
  Dir,                \* the directory they are in
  Groups,             \* CYLINDER_GROUPS
  GroupSize,          \* fragments in a cylinder group
  Block,              \* fragments in a block
  Control,            \* fragments of a group that hold its control blocks
  EntriesPerFragment, \* directory entries that fit in a fragment
  MaxLength           \* bound on the fragments of a file

(* "." and ".." of a directory fit in a fragment, and a group has data     *)
(* behind its control blocks.                                              *)
ASSUME FragmentsAssumption ==
  /\ IsFiniteSet(File) /\ Dir \notin File
  /\ Groups \in Nat \ {0} /\ Block \in Nat \ {0} /\ EntriesPerFragment \in Nat \ {0, 1}
  /\ GroupSize \in Nat /\ GroupSize % Block = 0
  /\ Control \in 1 .. GroupSize - 1 /\ Control % Block = 0
  /\ MaxLength \in Nat

VARIABLES
  fragMap,  \* on disk: the fragments of a group marked in its bitmap
  frags,    \* on disk: the data fragments of a file's header, in order
  entries   \* the files the directory has an entry for

fragVars == <<fragMap, frags, entries>>

Group == 0 .. Groups - 1
Bit == 0 .. GroupSize - 1
Fragment == 0 .. Groups * GroupSize - 1
NoPlace == GroupSize  \* -1 in the code

FragmentAt(g, b) == g * GroupSize + b
GroupOf(x) == x \div GroupSize
BlockOf(b) == (b \div Block) * Block  \* its first fragment

FragTypeOK ==
  /\ fragMap \in [Group -> SUBSET Bit]
  /\ \A f \in File \cup {Dir} : frags[f] \in Seq(Fragment)
  /\ DOMAIN frags = File \cup {Dir}
  /\ entries \subseteq File

-----------------------------------------------------------------------------
(* Slip: the first gap that is long enough, across blocks or not. *)
NextPlaceAnyGap(m, size) ==
  LET gaps == {b \in Bit : b + size <= GroupSize /\ \A i \in 0 .. size - 1 : b + i \notin m}
  IN  IF gaps = {} THEN NoPlace ELSE Min(gaps)

(* NextPlaceForSmallFragments scans a bitmap for gaps of at least size     *)
(* fragments.  Its loop keeps the length min and the start of the best     *)
(* part of a gap so far that lies inside a block, and the bit at which the *)
(* present gap starts.                                                     *)
Better(s, len, start) ==
  IF len < s.min THEN [s EXCEPT !.min = len, !.place = start] ELSE s

(* The gap of the bits s.last .. i - 1. *)
InGap(s, i, size) ==
  IF i - s.last < size THEN s
  ELSE IF BlockOf(i) = BlockOf(s.last) THEN Better(s, i - s.last, s.last)
  ELSE IF s.last - BlockOf(s.last) <= Block - size
  THEN Better(s, Block - (s.last - BlockOf(s.last)), s.last)
  ELSE IF i - BlockOf(i) >= size THEN Better(s, i - BlockOf(i), BlockOf(i))
  ELSE IF BlockOf(i) - BlockOf(s.last) > Block
  THEN [s EXCEPT !.min = Block, !.place = BlockOf(s.last) + Block]
  ELSE s

(* The body of the loop for bit i of the bitmap m. *)
ScanBit(m, size, s, i) ==
  LET g == InGap(s, i, size)
  IN  IF s.done \/ ~(i = GroupSize \/ i \in m) THEN s
      ELSE IF g.min = size THEN [g EXCEPT !.done = TRUE]
      ELSE [g EXCEPT !.last = i + 1]

(* scan[i] is the state of the loop before bit i. *)
NextPlaceForSmallFragments(m, size) ==
  LET scan[i \in 0 .. GroupSize + 1] ==
        IF i = 0 THEN [min |-> GroupSize, place |-> NoPlace, last |-> 0, done |-> FALSE]
        ELSE ScanBit(m, size, scan[i - 1], i - 1)
  IN  scan[GroupSize + 1].place

(* Slip: the search tests i <= bitmap_len and goes one block too far. *)
AlignedFragmentsPastEnd(m) ==
  {b \in 0 .. GroupSize : b % Block = 0 /\ \A i \in 0 .. Block - 1 : b + i \notin m}

(* The blocks with no bit marked in m, which repeated NextAlignedFragments *)
(* finds in ascending order, given by their first bits.                    *)
AlignedFragments(m) == {b \in Bit : b % Block = 0 /\ \A i \in 0 .. Block - 1 : b + i \notin m}

Mark(maps, s) == [g \in Group |-> maps[g] \cup {b \in Bit : FragmentAt(g, b) \in s}]
Clear(maps, s) == [g \in Group |-> maps[g] \ {b \in Bit : FragmentAt(g, b) \in s}]

(* Slip: the fragments given up stay marked. *)
GivenUpNothing(old) == {}

(* The fragments a file keeps when it grows, and those of its last, partly *)
(* used block, which are given up and allocated anew.                      *)
Kept(old) == SubSeq(old, 1, BlockOf(Len(old)))
GivenUp(old) == ToSet(old) \ ToSet(Kept(old))

(* Slip: only the group of the file's last fragment is searched. *)
SearchOneGroup(g) == <<g>>

(* The order in which the groups are searched. *)
SearchOrder(g) == [i \in 1 .. Groups |-> (g + i - 1) % Groups]

(* The free blocks, as pairs of a position in the search order and a first *)
(* bit, and the k-th of them to be found.                                  *)
Free(maps, order) ==
  UNION {{<<i, b>> : b \in AlignedFragments(maps[order[i]])} : i \in DOMAIN order}
FoundBefore(p, q) == p[1] < q[1] \/ (p[1] = q[1] /\ p[2] < q[2])
Earlier(found, p) == {q \in found : FoundBefore(q, p)}
Nth(found, k) == CHOOSE p \in found : Cardinality(Earlier(found, p)) = k - 1

(* The fragments of the first k free blocks. *)
NewBlocks(maps, order, k) ==
  [j \in 1 .. k * Block |->
     LET p == Nth(Free(maps, order), (j - 1) \div Block + 1)
     IN  FragmentAt(order[p[1]], p[2] + ((j - 1) % Block))]

(* The positions in the search order of the groups with a place for size   *)
(* fragments, and the fragments of the first such place.                   *)
Fitting(maps, order, size) ==
  {i \in DOMAIN order : NextPlaceForSmallFragments(maps[order[i]], size) # NoPlace}
NewRest(maps, order, size) ==
  LET c == order[Min(Fitting(maps, order, size))]
  IN  [j \in 1 .. size |->
         FragmentAt(c, NextPlaceForSmallFragments(maps[c], size) + j - 1)]

(* FileSystem::Allocate for a file that has the fragments old and needs n, *)
(* more than that many, starting in group g: first the additional blocks,  *)
(* then one place for the rest, each from g on through all groups.         *)
Allocate(maps, old, n, g) ==
  LET free == Clear(maps, GivenUp(old))
      order == SearchOrder(g)
      k == n \div Block - Len(old) \div Block
      blocks == NewBlocks(free, order, k)
      withBlocks == Mark(free, ToSet(blocks))
      size == n % Block
      rest == IF size = 0 THEN <<>> ELSE NewRest(withBlocks, order, size)
      ok == /\ k <= Cardinality(Free(free, order))
            /\ size = 0 \/ Fitting(withBlocks, order, size) # {}
  IN  IF ok THEN [ok |-> TRUE, frags |-> Kept(old) \o blocks \o rest,
                  maps |-> Mark(withBlocks, ToSet(rest))]
      ELSE [ok |-> FALSE, frags |-> old, maps |-> maps]

(* The group of the last fragment; for a file that has none the code reads *)
(* tmp_old_fragments[-1], and any group may come out.                      *)
StartGroup(old) == IF old = <<>> THEN Group ELSE {GroupOf(Last(old))}

(* Fragments of a directory of k entries, "." and ".." not counted. *)
DirLength(k) == (k + 2 + EntriesPerFragment - 1) \div EntriesPerFragment

-----------------------------------------------------------------------------
(* The disk is formatted and CreateRoot has run. *)
FragInit ==
  LET formatted == [g \in Group |-> 0 .. Control - 1]
  IN  \E g \in StartGroup(<<>>) :
        LET root == Allocate(formatted, <<>>, DirLength(0), g)
        IN  /\ fragMap = root.maps
            /\ frags = [f \in File \cup {Dir} |-> IF f = Dir THEN root.frags ELSE <<>>]
            /\ entries = {}

(* OpenFile::WriteAt makes a file n fragments long.  (When Allocate fails, *)
(* nothing is written.)                                                    *)
WriteAt(f, n) ==
  /\ f \in entries
  /\ n \in Len(frags[f]) + 1 .. MaxLength
  /\ \E g \in StartGroup(frags[f]) :
       LET new == Allocate(fragMap, frags[f], n, g)
       IN  /\ new.ok
           /\ fragMap' = new.maps
           /\ frags' = [frags EXCEPT ![f] = new.frags]
  /\ UNCHANGED entries

(* FileSystem::Create of a name that is new.  Create reads the bitmaps of  *)
(* the group that has a free inode, the first, before it adds the entry,   *)
(* and writes them back after.  When the directory cannot grow, the file   *)
(* gets no entry.                                                          *)
FragCreate(f) ==
  LET length == DirLength(Cardinality(entries) + 1)
  IN  /\ f \notin entries
      /\ entries' = entries \cup {f}
      /\ \/ /\ length = Len(frags[Dir])
            /\ UNCHANGED <<fragMap, frags>>
         \/ /\ length > Len(frags[Dir])
            /\ \E g \in StartGroup(frags[Dir]) :
                 LET new == Allocate(fragMap, frags[Dir], length, g)
                 IN  /\ new.ok
                     /\ fragMap' = [new.maps EXCEPT ![0] = fragMap[0]]
                     /\ frags' = [frags EXCEPT ![Dir] = new.frags]

(* FileSystem::Remove of a file nobody has open: WriteDir shortens the     *)
(* directory without clearing a bit, Unlink frees the file's fragments.    *)
FragRemove(f) ==
  /\ f \in entries
  /\ entries' = entries \ {f}
  /\ fragMap' = Clear(fragMap, ToSet(frags[f]))
  /\ frags' = [frags EXCEPT ![f] = <<>>,
                            ![Dir] = SubSeq(@, 1, DirLength(Cardinality(entries) - 1))]

FragNext == \E f \in File : \/ \E n \in 1 .. MaxLength : WriteAt(f, n)
                            \/ FragCreate(f)
                            \/ FragRemove(f)

FragSpec == FragInit /\ [][FragNext]_fragVars
-----------------------------------------------------------------------------
Owned == UNION {ToSet(frags[f]) : f \in File \cup {Dir}}

(* filesys.cc: "the changes are written immediately back to disk": every   *)
(* fragment of a file is marked in the bitmap on disk, so that it is not   *)
(* given to another file as well.                                          *)
OwnedIsMarked ==
  \A g \in Group, b \in Bit : FragmentAt(g, b) \in Owned => b \in fragMap[g]

(* As long as the directory fits in its first fragment, the bitmaps agree  *)
(* with the headers: a bit is marked exactly if its fragment holds control *)
(* blocks or belongs to a file, and no fragment belongs to two.            *)
FragmentAccounting ==
  /\ \A g \in Group, b \in Bit :
       b \in fragMap[g] <=> b < Control \/ FragmentAt(g, b) \in Owned
  /\ \A e, f \in File \cup {Dir} : \A i \in DOMAIN frags[e], j \in DOMAIN frags[f] :
       frags[e][i] = frags[f][j] => e = f /\ i = j

(* The layout Allocate takes for granted in a file it extends: whole       *)
(* aligned blocks, then a run inside one block, so that the fragments it   *)
(* gives up are all in the group of the last one.                          *)
LaidOut(s) ==
  \A i \in DOMAIN s :
    IF (i - 1) % Block = 0
    THEN i + Block - 1 <= Len(s) => s[i] % Block = 0
    ELSE s[i] = s[i - 1] + 1 /\ s[i] % Block # 0
Layout == \A f \in File \cup {Dir} : LaidOut(frags[f])

(* Reference definition of the search for a place: a run of size free      *)
(* fragments in one block.                                                 *)
FreeRuns(m, size) ==
  {b \in Bit : b % Block <= Block - size /\ \A i \in 0 .. size - 1 : b + i \notin m}

(* NextPlaceForSmallFragments finds such a run whenever there is one, in   *)
(* every bitmap the file system gets into.                                 *)
PlaceIsFree ==
  \A g \in Group, size \in 1 .. Block - 1 :
    LET place == NextPlaceForSmallFragments(fragMap[g], size)
        runs == FreeRuns(fragMap[g], size)
    IN  place \in runs \/ (place = NoPlace /\ runs = {})

(* Allocate refuses to extend a file only when there is no room: too few   *)
(* free blocks, or nothing left for the rest beside the blocks it needs.   *)
RefusesOnlyWhenFull ==
  \A f \in entries, n \in 1 .. MaxLength : \A g \in StartGroup(frags[f]) :
    n > Len(frags[f]) /\ ~Allocate(fragMap, frags[f], n, g).ok =>
      LET free == Clear(fragMap, GivenUp(frags[f]))
          blocks == UNION {{<<c, b>> : b \in {x \in FreeRuns(free[c], Block) :
                                               x % Block = 0}} : c \in Group}
          partial == {c \in Group : \E r \in FreeRuns(free[c], n % Block) :
                        <<c, BlockOf(r)>> \notin blocks}
          needed == n \div Block - Len(frags[f]) \div Block
      IN  \/ Cardinality(blocks) < needed
          \/ Cardinality(blocks) = needed /\ n % Block > 0 /\ partial = {}
=============================================================================
