\* A directory that stays within one fragment, as with up to 26 files.
CONSTANTS
  File = {f, g, h}
  Dir = dir
  Groups = 2
  GroupSize = 9
  Block = 3
  Control = 3
  EntriesPerFragment = 28
  MaxLength = 5
SPECIFICATION FragSpec
INVARIANTS
  FragTypeOK
  FragmentAccounting
  Layout
  PlaceIsFree
  RefusesOnlyWhenFull
