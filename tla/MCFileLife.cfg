\* One thread, four inodes in each of two groups: the directory and three
\* files fill the first group, two of them named, the third removed while open
\* or marked by a Create that found no fragment.
CONSTANTS
  Thread = {t1}
  NoThread = NoThread
  Name = {f, g}
  NoName = NoName
  CylinderGroups = 2
  InodesPerGroup = 4
  MaxOpen = 2
SPECIFICATION Spec
INVARIANTS
  TypeOK
  InodeAccounting
  OpenFileSurvives
SYMMETRY Names
\* nothing happens after a failed ASSERT
CHECK_DEADLOCK FALSE
