\* The Init Process and four others, of one priority.
CONSTANTS
  MaxProcess = 5
  Priority = {1}
SPECIFICATION Spec
INVARIANTS
  TypeOK
  Family
  CrashHasCause
PROPERTIES
  JoinEnds
CHECK_DEADLOCK FALSE
