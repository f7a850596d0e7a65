SPECIFICATION MwFairSpec
CONSTANTS
  w1 = w1
  w2 = w2
  w3 = w3
  m = m
  ioCv = ioCv
  newCv = newCv
  manageCv = manageCv
  d1 = d1
  d2 = d2
  NoThread = NoThread
  NoCvar = NoCvar
  NoDesc = NoDesc
  Threads = {w1, w2, m}
  Workers = {w1, w2, m}
  Producers = {w2}
  Cancellers = {m}
  Interruptible = {m}
  Descs = {d1, d2}
  Timed = {d2}
  Locks = {ml}
  CVars = {ioCv, newCv, manageCv}
  CvLock <- LockOf
  Ml = ml
  IoComplete = ioCv
  NewBusiness = newCv
  MwManage = manageCv
INVARIANTS
  MwInv
  DescsHaveOneOwner
  StoppedGroupIsQuiet
  CompletionsHaveTakers
PROPERTIES
  ReadyIsNoticed
CHECK_DEADLOCK FALSE
