\* A file that gets the last inode of a group is removed: expected to be
\* violated.
CONSTANTS
  Thread = {t1}
  NoThread = NoThread
  Name = {f}
  NoName = NoName
  CylinderGroups = 2
  InodesPerGroup = 2
  MaxOpen = 1
SPECIFICATION Spec
INVARIANTS
  NoAbort
CHECK_DEADLOCK FALSE
