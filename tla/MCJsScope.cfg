SPECIFICATION ScopeFairSpec
CONSTANTS
  t1 = t1
  t2 = t2
  t3 = t3
  x = x
  y = y
  sx = sx
  sy = sy
  f1 = f1
  f2 = f2
  f3 = f3
  f4 = f4
  c1 = c1
  c2 = c2
  c3 = c3
  c4 = c4
  NoThread = NoThread
  NoCvar = NoCvar
  NoThin = NoThin
  NoFat = NoFat
  NoObject = NoObject
  Threads = {t1, t2, t3}
  Locks = {global, f1, f2, f3, f4}
  CVars = {c1, c2, c3, c4}
  CvLock <- LockOf
  ThinLocks = {shared, sx, sy}
  GlobalLock = global
  FatLocks = {f1, f2, f3, f4}
  Svar <- SvarOf
  FreeFats <- Fats
  Objects = {x, y}
  Shared = shared
  OwnScope <- Scopes
  MaxDepth = 2
  Programs <- Separate
INVARIANTS
  ScopeTypeOK
  DequeuersHaveFatLock
  FreeLockIsWanted
  ObjectsAreLocked
PROPERTY SomebodyGetsLock
CHECK_DEADLOCK FALSE
