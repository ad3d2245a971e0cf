\* Safety: three threads, one lock, one device semaphore, one plain semaphore.
CONSTANTS
  main = main
  t1 = t1
  t2 = t2
  disk = disk
  ping = ping
  lock = lock
  Thread <- MCThread
  Main = main
  NoThread = NoThread
  Sem = {disk, ping}
  Device = {disk}
  Lock = {lock}
  InitialValue <- MCInitialValue
  MaxValue = 1
SPECIFICATION Spec
INVARIANTS
  TypeOK
  OnePlace
  MutualExclusion
  HolderIsKnown
  NoLostWakeup
  CarcassAsserts
PROPERTIES
  ImplementsLockSpec
CHECK_DEADLOCK FALSE
