\* Two threads at once, until Create goes on to the second group.
CONSTANTS
  Thread = {t1, t2}
  NoThread = NoThread
  Name = {f, g}
  NoName = NoName
  CylinderGroups = 2
  InodesPerGroup = 3
  MaxOpen = 1
SPECIFICATION Spec
INVARIANTS
  UsageCounts
  FinishSettled
  DirectoryStable
SYMMETRY NamesAndThreads
CONSTRAINT FirstGroupSuffices
\* nothing happens after a failed ASSERT
CHECK_DEADLOCK FALSE
