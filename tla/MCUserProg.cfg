\* Two programs of two pages on two frames, one pid, whose entry of
\* waiting_list is not cleared: it may hold anything, or NULL.
CONSTANTS
  Program = {p1, p2}
  NoThread = NoThread
  Wild = Wild
  NumPages = 2
  NumPhysPages = 2
  Value = {0, 1}
  Image <- MCImage
  Code = {0}
  MaxThreads = 1
  Cleared = 0
  Quantum = 3
SPECIFICATION Spec
INVARIANTS
  TypeOK
  FramesOwned
  WaitersHaveChildren
PROPERTIES
  ImplementsVirtualMemory
  Proceeds
CHECK_DEADLOCK FALSE
