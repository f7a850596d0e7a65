\* A native thread gives a lock up while a collection ends.
SPECIFICATION InnerFairSpec
CONSTANTS
  t1 = t1
  t2 = t2
  n1 = n1
  NoThread = NoThread
  NoLock = NoLock
  ActiveLock = active
  Local = {t1, t2}
  Native = {n1}
  GcAble = {t1, t2}
  Locks = {active, lock}
  InitPriority <- EqualPriorities
  Priorities = {}
PROPERTIES
  ResumeAllUnblocks
CHECK_DEADLOCK FALSE
