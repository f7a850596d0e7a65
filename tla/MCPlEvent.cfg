SPECIFICATION EvFairSpec
CONSTANTS
  h = h
  p = p
  q = q
  m1 = m1
  m2 = m2
  queueCv = queueCv
  cv1 = cv1
  cv2 = cv2
  e1 = e1
  e2 = e2
  owner = owner
  NoThread = NoThread
  NoCvar = NoCvar
  NoMonitor = NoMonitor
  NoEvent = NoEvent
  Threads = {h, p, q}
  Locks = {queue, m1, m2}
  CVars = {queueCv, cv1, cv2}
  CvLock <- LockOf
  Monitors = {queue, m1, m2}
  MonCvar <- CvarOf
  FreeList <- Cache
  Addresses = {e1, e2}
  QueueMonitor = queue
  Handlers = {h, p}
  EventOf <- Posts
  Owner <- Owners
  Revokes <- Revocation
  SyncPosters = {p}
  Interruptible = {h}
  MaxEntries = 2
  MaxNotifies = 2
INVARIANTS
  EvInv
  EventsInUseExist
  SyncResultIsAnswer
  NobodyWaitsInCircle
PROPERTIES
  EventsAreProcessed
  SyncPostReturns
