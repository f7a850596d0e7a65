\* Timeouts of nothing, of less and of more than the time between two clock
\* interrupts.
SPECIFICATION SqFairSpec
CONSTANTS
  s1 = s1
  s2 = s2
  s3 = s3
  NoThread = NoThread
  Sleepers = {s1, s2, s3}
  Timeouts = {0, 1, 3}
  MaxLate = 2
INVARIANTS
  SqInv
PROPERTIES
  ExpiresOnTime
  SleepersWake
