\* A native thread interrupts a marked thread.
SPECIFICATION CvSpec
CONSTANTS
  t1 = t1
  t2 = t2
  t3 = t3
  n1 = n1
  c1 = c1
  NoThread = NoThread
  NoLock = NoLock
  NoCvar = NoCvar
  ActiveLock = active
  Local = {t1, t2}
  Native = {n1}
  Nesting = {t1, t2, n1}
  GcAble = {t1, t2}
  Locks = {active, lock}
  CVars = {c1}
  CvLock <- OtherLock
  Interrupts <- NativeInterrupts
  TimedWaiters = {}
  InitPriority <- EqualPriorities
  Priorities = {}
INVARIANTS
  NobodyStaysSuspended
CHECK_DEADLOCK FALSE
