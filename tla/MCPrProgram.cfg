SPECIFICATION PrFairSpec
CONSTANTS
  t1 = t1
  t2 = t2
  main = main
  exitCv = exitCv
  term1 = term1
  term2 = term2
  semCv = semCv
  initCv = initCv
  o1 = o1
  o2 = o2
  NoThread = NoThread
  NoCvar = NoCvar
  NoOnce = NoOnce
  Threads = {main, t1, t2}
  Main = main
  Locks = {active, termination, sem, init}
  CVars = {exitCv, term1, term2, semCv, initCv}
  CvLock <- LockOf
  ActiveLock = active
  TermLock = termination
  ExitCvar = exitCv
  Term <- Termination
  SemLock = sem
  SemCvar = semCv
  InitLock = init
  InitCvar = initCv
  RecycleThreads = 1
  SemValue = 0
  MaxCount = 2
  Onces = {o1, o2}
  Programs <- AllPrograms
INVARIANTS
  CleanupIsLast
  JoinedThreadsExist
  UnitsHaveTakers
  FuncRunsOnce
PROPERTIES
  JoinReturnsInTime
  CleanupCompletes
  CallersReturn
CHECK_DEADLOCK FALSE
