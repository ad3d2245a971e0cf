\* A directory that outgrows its fragment: expected to be violated.
CONSTANTS
  File = {f, g}
  Dir = dir
  Groups = 2
  GroupSize = 9
  Block = 3
  Control = 3
  EntriesPerFragment = 3
  MaxLength = 2
SPECIFICATION FragSpec
INVARIANT OwnedIsMarked
