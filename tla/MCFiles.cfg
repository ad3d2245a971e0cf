\* Two files on four free sectors of two bytes: a file of three bytes ends in
\* the middle of a sector, and two of them do not fit.
CONSTANTS
  a = a
  b = b
  NumSectors = 6
  SectorSize = 2
  Reserved = 2
  NumDirEntries = 2
  Name = {a, b}
  Handle = {1}
  Size = {0, 1, 3}
  Byte = {0, 1}
  HeaderByte = 0
  NoEntry = NoEntry
  NoHeader = NoHeader
  Closed = Closed
SPECIFICATION Spec
INVARIANTS
  SectorsOwned
PROPERTIES
  ImplementsFiles
