---------------------------- MODULE MCPrCondVar ----------------------------
(***************************************************************************)
(* Instances of PrCondVar for TLC.                                         *)
(***************************************************************************)
EXTENDS PrCondVar, TLC

CONSTANTS t1, t2, t3, n1, c1

EqualPriorities == [t \in Threads |-> 1]

\* The collector's, t1's, is lower until somebody raises it.
LowPriority == [t \in Threads |-> IF t = t1 THEN 1 ELSE 2]

\* The condition variable is used with the lock that is not _pr_activeLock.
OtherLock == [c \in CVars |-> CHOOSE l \in Locks : l # ActiveLock]

\* ... or, as _pr_primordialExitCVar is, with _pr_activeLock.
SameLock == [c \in CVars |-> ActiveLock]

\* Everybody is interrupted by t1, and t2 by the native thread as well, ...
NativeInterruptsOne == ({t1} \X Threads) \cup {<<n1, t2>>}

\* ... only t2, and only by t1, ...
LocalInterrupts == {<<t1, t2>>}

\* ... or only by the native thread.
NativeInterrupts == {n1} \X Threads
=============================================================================
