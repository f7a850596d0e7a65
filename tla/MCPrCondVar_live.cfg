\* A native thread gives locks up and notifies during a collection of the local
\* ones, holding one lock at a time; every step that has begun goes on.
SPECIFICATION CvFairSpec
CONSTANTS
  t1 = t1
  t2 = t2
  t3 = t3
  n1 = n1
  c1 = c1
  NoThread = NoThread
  NoLock = NoLock
  NoCvar = NoCvar
  ActiveLock = active
  Local = {t1, t2}
  Native = {n1}
  Nesting = {}
  GcAble = {t1, t2}
  Locks = {active, lock}
  CVars = {c1}
  CvLock <- OtherLock
  Interrupts <- LocalInterrupts
  TimedWaiters = {t1}
  InitPriority <- EqualPriorities
  Priorities = {}
PROPERTIES
  WaiterIsServed
  StoppedThreadIsReleased
  WokenWaiterReturns
CHECK_DEADLOCK FALSE
