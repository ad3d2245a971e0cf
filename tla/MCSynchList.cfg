\* Safety and liveness of the monitor with four threads and two items.
CONSTANTS
  Thread = {t1, t2, t3, t4}
  NoThread = NoThread
  Item = {a, b}
  NoItem = NoItem
SPECIFICATION FairSpec
INVARIANTS
  TypeOK
  NoLostSignal
  WaiterSemaphores
  MonitorExclusion
PROPERTIES
  ImplementsQueueSpec
  ItemWakesWaiter
CHECK_DEADLOCK FALSE
