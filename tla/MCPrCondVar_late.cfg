\* A native thread interrupts threads that wait with timeouts.
SPECIFICATION CvSpec
CONSTANTS
  t1 = t1
  t2 = t2
  t3 = t3
  n1 = n1
  c1 = c1
  NoThread = NoThread
  NoLock = NoLock
  NoCvar = NoCvar
  ActiveLock = active
  Local = {t1, t2}
  Native = {n1}
  Nesting = {t1, t2, n1}
  GcAble = {t1, t2}
  Locks = {active}
  CVars = {c1}
  CvLock <- SameLock
  Interrupts <- NativeInterrupts
  TimedWaiters = {t1, t2}
  InitPriority <- EqualPriorities
  Priorities = {}
PROPERTIES
  WaitReturnsWithLock
CHECK_DEADLOCK FALSE
