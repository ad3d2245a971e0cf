\* Liveness: three threads, one lock and one device, fair scheduling.
CONSTANTS
  main = main
  t1 = t1
  t2 = t2
  disk = disk
  ping = ping
  lock = lock
  Thread <- MCThread
  Main = main
  NoThread = NoThread
  Sem = {disk}
  Device = {disk}
  Lock = {lock}
  InitialValue <- MCInitialValue
  MaxValue = 1
SPECIFICATION FairSpec
PROPERTIES
  ReadyRuns
  FreeLockIsTaken
CHECK_DEADLOCK FALSE
