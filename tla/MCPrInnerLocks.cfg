\* Two collectable threads and a native one, two locks; the properties of PrLock at this grain, too.
SPECIFICATION InnerSpec
CONSTANTS
  t1 = t1
  t2 = t2
  n1 = n1
  NoThread = NoThread
  NoLock = NoLock
  ActiveLock = active
  Local = {t1, t2}
  Native = {n1}
  GcAble = {t1, t2}
  Locks = {active, lock}
  InitPriority <- EqualPriorities
  Priorities = {1, 2}
INVARIANTS
  WaitersAreQueued
  NoIdleWaiters
  CollectorStops
  WorldIsStopped
  ReadsStayValid
  NoInnerDeadlock
PROPERTIES
  ImplementsAbstractLock
CHECK_DEADLOCK FALSE
