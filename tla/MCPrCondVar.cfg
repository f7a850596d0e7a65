\* Two collectable threads, one of which interrupts everybody, and a native one
\* that notifies and interrupts the other, which has no timeouts; the condition
\* variable has a lock of its own.
SPECIFICATION CvSpec
CONSTANTS
  t1 = t1
  t2 = t2
  t3 = t3
  n1 = n1
  c1 = c1
  NoThread = NoThread
  NoLock = NoLock
  NoCvar = NoCvar
  ActiveLock = active
  Local = {t1, t2}
  Native = {n1}
  Nesting = {t1, t2, n1}
  GcAble = {t1, t2}
  Locks = {active, lock}
  CVars = {c1}
  CvLock <- OtherLock
  Interrupts <- NativeInterruptsOne
  TimedWaiters = {t1, n1}
  InitPriority <- LowPriority
  Priorities = {2}
INVARIANTS
  CvInv
  WaitersCanBeWoken
  CvWorldIsStopped
PROPERTIES
  ImplementsCondVar
CHECK_DEADLOCK FALSE
