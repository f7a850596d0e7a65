-------------------------- MODULE PrInnerLocksProofs --------------------------
(***************************************************************************)
(* Proofs about PrInnerLocks, for any threads and locks: the inner locks    *)
(* make the critical sections atomic, so that every run of PrInnerLocks is   *)
(* one of PrLock, and they are taken without a deadlock while no collection  *)
(* ends.                                                                   *)
(***************************************************************************)
EXTENDS PrInnerLocks, PrLockProofs

-----------------------------------------------------------------------------
(* The inductive invariant.                                                *)

\* What a thread can be doing.
Operations ==
  {Nothing} \cup [kind : {"lock", "test", "unlock"}, lock : Locks]
            \cup [kind : {"suspend", "resume"}, thread : GcAble]
            \cup [kind : {"resumed"}]
            \cup [kind : {"priority"}, thread : Local, priority : Priorities]

InnerTypeOK == /\ doing \in [Threads -> Operations]
               /\ taken \in [Threads -> Nat]
               /\ held \in [InnerLocks -> Threads \cup {NoThread}]

\* What made a thread begin its operation is still so: it has not been stopped
\* meanwhile, and its lock or its walk has not been taken away from it.
ReasonsStayValid ==
  \A t \in Threads :
    LET op == doing[t]
    IN  /\ op.kind # "none" => state[t] = "RUNNING"
        /\ op.kind = "unlock" => owner[op.lock] = t
        /\ op.kind = "suspend" => t = suspendAllThread /\ gcPhase = "suspending"
        /\ op.kind \in {"resume", "resumed"} =>
             t = suspendAllThread /\ gcPhase = "resuming"

InnerIInv == IInv /\ InnerTypeOK /\ ReasonsStayValid /\ ReadsStayValid

-----------------------------------------------------------------------------
(* The inner locks an operation needs.                                      *)

\* An operation by its kind.
LEMMA KindsOfOperations ==
  ASSUME InnerTypeOK, NEW t \in Threads
  PROVE  \/ doing[t] = Nothing /\ doing[t].kind = "none"
         \/ doing[t].kind \in {"lock", "test", "unlock"} /\ doing[t].lock \in Locks
         \/ doing[t].kind \in {"suspend", "resume"} /\ doing[t].thread \in GcAble
         \/ doing[t].kind = "resumed"
         \/ /\ doing[t].kind = "priority" /\ doing[t].thread \in Local
            /\ doing[t].priority \in Priorities
BY DEF InnerTypeOK, Operations, Nothing

\* The locks by their place.
LEMMA NeededByPlace ==
  ASSUME InnerTypeOK, NEW t \in Threads
  PROVE  LET op == doing[t]
             n  == Needed(t)
         IN  /\ Len(n) \in Nat
             /\ op.kind = "none" => Len(n) = 0
             /\ op.kind = "lock" =>
                  IF owner[op.lock] = NoThread THEN Len(n) = 1 /\ n[1] = op.lock
                  ELSE Len(n) = 2 /\ n[1] = op.lock /\ n[2] = t
             /\ op.kind = "test" => Len(n) = 1 /\ n[1] = op.lock
             /\ op.kind \in {"suspend", "priority"} => Len(n) = 1 /\ n[1] = op.thread
             /\ op.kind = "unlock" =>
                  IF waitQ[op.lock] = << >> THEN Len(n) = 1 /\ n[1] = op.lock
                  ELSE Len(n) = 2 /\ n[1] = op.lock /\ n[2] = Head(waitQ[op.lock])
             /\ op.kind = "resumed" =>
                  IF waitQ[ActiveLock] = << >> THEN Len(n) = 1 /\ n[1] = ActiveLock
                  ELSE Len(n) = 2 /\ n[1] = ActiveLock /\ n[2] = Head(waitQ[ActiveLock])
             /\ op.kind = "resume" =>
                  LET u == op.thread
                      l == waitLock[u]
                  IN  /\ state[u] # "LOCK_WAIT" => Len(n) = 1 /\ n[1] = u
                      /\ state[u] = "LOCK_WAIT" /\ owner[l] = NoThread /\ waitQ[l] # << >> =>
                           Len(n) = 3 /\ n[1] = u /\ n[2] = l /\ n[3] = Head(waitQ[l])
                      /\ state[u] = "LOCK_WAIT" /\ ~(owner[l] = NoThread /\ waitQ[l] # << >>) =>
                           Len(n) = 2 /\ n[1] = u /\ n[2] = l
PROOF
  <1> DEFINE op == doing[t]
             n  == Needed(t)
  <1>1. CASE op.kind \in {"none", "test", "suspend", "priority"}
    BY <1>1 DEF Needed, PriorityLocks
  <1>2. CASE op.kind = "lock"
    BY <1>2 DEF Needed, LockLocks
  <1>3. CASE op.kind \in {"unlock", "resumed"}
    BY <1>3 DEF Needed, UnlockLocks
  <1>4. CASE op.kind = "resume"
    <2> DEFINE u == op.thread
               l == waitLock[u]
    <2>1. n = ResumeLocks(u)
      BY <1>4 DEF Needed
    <2>2. CASE state[u] # "LOCK_WAIT"
      <3>1. n = <<u>>
        BY <2>1, <2>2 DEF ResumeLocks
      <3> QED  BY <1>4, <2>2, <3>1
    <2>4. CASE state[u] = "LOCK_WAIT" /\ owner[l] # NoThread
      <3>1. n = <<u, l>>
        BY <2>1, <2>4 DEF ResumeLocks
      <3> QED  BY <1>4, <2>4, <3>1
    <2>3. CASE state[u] = "LOCK_WAIT" /\ owner[l] = NoThread
      <3>1. n = <<u>> \o UnlockLocks(l)
        BY <2>1, <2>3 DEF ResumeLocks
      <3>2. CASE waitQ[l] = << >>
        <4>1. n = <<u>> \o <<l>>
          BY <3>1, <3>2 DEF UnlockLocks
        <4> QED  BY <1>4, <2>3, <3>2, <4>1
      <3>3. CASE waitQ[l] # << >>
        <4>1. n = <<u>> \o <<l, Head(waitQ[l])>>
          BY <3>1, <3>3 DEF UnlockLocks
        <4> QED  BY <1>4, <2>3, <3>3, <4>1
      <3> QED  BY <3>2, <3>3
    <2> QED  BY <2>2, <2>3, <2>4
  <1> QED  BY <1>1, <1>2, <1>3, <1>4, KindsOfOperations

\* A thread holds the inner locks it has taken, and no others.
LEMMA HeldByPlace ==
  ASSUME InnerTypeOK, ReadsStayValid, NEW t \in Threads
  PROVE  /\ taken[t] \in Nat /\ taken[t] <= Len(Needed(t))
         /\ \A i \in 1 .. taken[t] : Needed(t)[i] \in InnerLocks /\ held[Needed(t)[i]] = t
         /\ \A x \in InnerLocks : held[x] = t => \E i \in 1 .. taken[t] : x = Needed(t)[i]
         /\ doing[t].kind = "none" => taken[t] = 0 /\ \A x \in InnerLocks : held[x] # t
PROOF
  <1>1. /\ taken[t] \in Nat /\ taken[t] <= Len(Needed(t))
        /\ {x \in InnerLocks : held[x] = t} = {Needed(t)[i] : i \in 1 .. taken[t]}
    BY DEF InnerTypeOK, ReadsStayValid
  <1>2. doing[t].kind = "none" => Len(Needed(t)) = 0
    BY NeededByPlace
  <1> HIDE DEF Needed
  <1>3. doing[t].kind = "none" => taken[t] = 0
    BY <1>1, <1>2
  <1>4. /\ \A i \in 1 .. taken[t] : Needed(t)[i] \in InnerLocks /\ held[Needed(t)[i]] = t
        /\ \A x \in InnerLocks : held[x] = t => \E i \in 1 .. taken[t] : x = Needed(t)[i]
    BY <1>1
  <1> QED  BY <1>1, <1>3, <1>4
-----------------------------------------------------------------------------
(* What an operation does, and what it needs the inner locks for.            *)

\* What is begun is an operation.
LEMMA OperationIsPrLockStep ==
  ASSUME InnerIInv, NEW t \in Threads, Operation(t)
  PROVE  Next \/ UNCHANGED vars
PROOF
  <1> DEFINE op == doing[t]
  <1>0. /\ suspendAllThread \in Local \cup {NoThread}
        /\ NoThread \notin Threads
    BY ThreadsAssumption DEF InnerIInv, IInv, TypeOK
  <1>1. InnerTypeOK
    BY DEF InnerIInv
  <1>2. ASSUME NEW l \in Locks, PR_Lock(t, l) \/ PR_TestAndLock(t, l) \/ PR_Unlock(t, l)
        PROVE  Next
    BY <1>2 DEF Next, Lock, Unlock
  <1>3. ASSUME NEW u \in GcAble,
               \/ SuspendRunnable(t, u) \/ SuspendBlocked(t, u)
               \/ ResumeSuspended(t, u) \/ ResumeLockWait(t, u)
        PROVE  Next
    <2>1. t \in Local
      BY <1>0, <1>3 DEF SuspendRunnable, SuspendBlocked, ResumeSuspended, ResumeLockWait, Walking
    <2> QED  BY <1>3, <2>1 DEF Next, Collect
  <1>4. ASSUME ResumeAllReturns(t) PROVE Next
    <2>1. t \in Local
      BY <1>0, <1>4 DEF ResumeAllReturns, Walking
    <2> QED  BY <1>4, <2>1 DEF Next, Collect
  <1>5. ASSUME NEW u \in Local, NEW p \in Priorities, SetThreadPriority(t, u, p) PROVE Next
    BY <1>5 DEF Next, Reprioritize, Threads
  <1> QED  BY <1>1, <1>2, <1>3, <1>4, <1>5, KindsOfOperations DEF Operation

\* An operation changes a PRLock, or the state of a thread, only under its
\* inner lock.
LEMMA OperationTouchesItsLocks ==
  ASSUME InnerIInv, NEW t \in Threads, Operation(t), taken[t] = Len(Needed(t))
  PROVE  /\ \A l \in Locks : held[l] # t => owner'[l] = owner[l] /\ waitQ'[l] = waitQ[l]
         /\ \A u \in Threads : held[u] # t =>
              state'[u] = state[u] /\ waitLock'[u] = waitLock[u]
PROOF
  <1> DEFINE op == doing[t]
             n  == Needed(t)
             Touched(ls, us) ==
               /\ \A l \in Locks \ ls : owner'[l] = owner[l] /\ waitQ'[l] = waitQ[l]
               /\ \A u \in Threads \ us : state'[u] = state[u] /\ waitLock'[u] = waitLock[u]
  <1>0. InnerTypeOK /\ ReadsStayValid /\ TypeOK
    BY DEF InnerIInv, IInv
  <1>1. \A i \in 1 .. Len(n) : held[n[i]] = t
    BY <1>0, HeldByPlace
  <1> HIDE DEF n
  <1>2. ASSUME NEW l \in Locks, TakeFree(t, l)
        PROVE  Touched({l}, {})
    BY <1>0, <1>2 DEF TakeFree, TypeOK
  <1>3. ASSUME NEW l \in Locks, WaitFor(t, l)
        PROVE  Touched({l}, {t})
    BY <1>0, <1>3 DEF WaitFor, TypeOK
  <1>4. ASSUME NEW l \in Locks, waitQ[l] # << >>, AssignLock(l)
        PROVE  Touched({l}, {Head(waitQ[l])})
    BY <1>0, <1>4 DEF AssignLock, TypeOK
  <1>5. ASSUME NEW l \in Locks, Release(l)
        PROVE  Touched({l}, IF waitQ[l] = << >> THEN {} ELSE {Head(waitQ[l])})
    BY <1>0, <1>4, <1>5 DEF Release, Assignable, TypeOK
  <1>6. ASSUME NEW l \in Locks, op.kind \in {"lock", "test"}, op.lock = l, TakeFree(t, l)
        PROVE  held[l] = t
    <2>1. Len(n) >= 1 /\ n[1] = l
      BY <1>0, <1>6, NeededByPlace DEF TakeFree, n
    <2> QED  BY <1>1, <2>1
  <1>7. ASSUME NEW l \in Locks, op.kind = "lock", op.lock = l, WaitFor(t, l)
        PROVE  held[l] = t /\ held[t] = t
    <2>1. Len(n) = 2 /\ n[1] = l /\ n[2] = t
      BY <1>0, <1>7, NeededByPlace DEF WaitFor, n
    <2> QED  BY <1>1, <2>1
  <1>8. ASSUME NEW l \in Locks, Release(l),
               (op.kind = "unlock" /\ op.lock = l) \/ (op.kind = "resumed" /\ l = ActiveLock)
        PROVE  held[l] = t /\ (waitQ[l] # << >> => held[Head(waitQ[l])] = t)
    <2>1. /\ Len(n) >= 1 /\ n[1] = l
          /\ waitQ[l] # << >> => Len(n) = 2 /\ n[2] = Head(waitQ[l])
      BY <1>0, <1>8, NeededByPlace DEF n
    <2> QED  BY <1>1, <2>1
  <1>9. ASSUME NEW u \in GcAble, op.kind \in {"suspend", "resume"}, op.thread = u
        PROVE  held[u] = t
    <2>1. Len(n) >= 1 /\ n[1] = u
      BY <1>0, <1>9, NeededByPlace DEF n
    <2> QED  BY <1>1, <2>1
  <1>10. ASSUME NEW u \in GcAble,
                SuspendRunnable(t, u) \/ SuspendBlocked(t, u) \/ ResumeSuspended(t, u)
         PROVE  Touched({}, {u})
    BY <1>0, <1>10 DEF SuspendRunnable, SuspendBlocked, ResumeSuspended, lockVars, TypeOK
  <1>11. ASSUME NEW u \in GcAble, op.kind = "resume", op.thread = u, ResumeLockWait(t, u)
         PROVE  \/ Touched({}, {})
                \/ \E l \in Locks : /\ held[l] = t /\ held[Head(waitQ[l])] = t
                                     /\ Touched({l}, {Head(waitQ[l])})
    <2> DEFINE l == waitLock[u]
    <2>1. CASE UNCHANGED <<state, waitLock, lockVars>>
      BY <2>1 DEF lockVars
    <2>2. CASE owner[l] = NoThread /\ waitQ[l] # << >> /\ AssignLock(l)
      <3>1. l \in Locks /\ state[u] = "LOCK_WAIT"
        BY <1>11, ThreadsAssumption
           DEF ResumeLockWait, InnerIInv, IInv, TypeOK, WaitersAreQueued, Threads
      <3>2. Len(n) = 3 /\ n[2] = l /\ n[3] = Head(waitQ[l])
        BY <1>0, <1>11, <2>2, <3>1, NeededByPlace DEF n
      <3>3. held[l] = t /\ held[Head(waitQ[l])] = t
        BY <1>1, <3>2
      <3> QED  BY <1>4, <2>2, <3>1, <3>3
    <2> QED  BY <1>11, <2>1, <2>2 DEF ResumeLockWait, Assignable
  <1>12. CASE op.kind = "lock" /\ PR_Lock(t, op.lock)
    BY <1>0, <1>2, <1>3, <1>6, <1>7, <1>12, KindsOfOperations DEF PR_Lock
  <1>13. CASE op.kind = "test" /\ PR_TestAndLock(t, op.lock)
    BY <1>0, <1>2, <1>6, <1>13, KindsOfOperations DEF PR_TestAndLock
  <1>14. CASE op.kind = "unlock" /\ PR_Unlock(t, op.lock)
    BY <1>0, <1>5, <1>8, <1>14, KindsOfOperations DEF PR_Unlock
  <1>15. CASE op.kind = "resumed" /\ ResumeAllReturns(t)
    BY <1>5, <1>8, <1>15, LocksAssumption DEF ResumeAllReturns
  <1>16. CASE /\ op.kind \in {"suspend", "resume"}
              /\ \/ SuspendRunnable(t, op.thread) \/ SuspendBlocked(t, op.thread)
                 \/ ResumeSuspended(t, op.thread)
    BY <1>0, <1>9, <1>10, <1>16, KindsOfOperations
  <1>17. CASE op.kind = "resume" /\ ResumeLockWait(t, op.thread)
    BY <1>0, <1>11, <1>17, KindsOfOperations
  <1>18. CASE UNCHANGED vars \/ \E u \in Local, p \in Priorities : SetThreadPriority(t, u, p)
    BY <1>18 DEF vars, threadVars, lockVars, SetThreadPriority
  <1> QED
    <2>1. op.kind = "priority" => op.thread \in Local /\ op.priority \in Priorities
      BY <1>0, KindsOfOperations
    <2> QED  BY <1>12, <1>13, <1>14, <1>15, <1>16, <1>17, <1>18, <2>1 DEF Operation
-----------------------------------------------------------------------------
(* The invariant is kept.                                                   *)

\* Which inner locks an operation needs depends on the PRLocks, and that of a
\* resume on its thread as well.
LEMMA NeededIsKept ==
  ASSUME NEW t \in Threads, doing'[t] = doing[t], UNCHANGED <<owner, waitQ>>,
         doing[t].kind = "resume" => UNCHANGED <<state, waitLock>>
  PROVE  Needed(t)' = Needed(t)
PROOF
  <1>1. CASE doing[t].kind = "resume"
    BY <1>1 DEF Needed, ResumeLocks, UnlockLocks
  <1>2. CASE doing[t].kind # "resume"
    <2>1. /\ UnlockLocks(doing[t].lock)' = UnlockLocks(doing[t].lock)
          /\ UnlockLocks(ActiveLock)' = UnlockLocks(ActiveLock)
          /\ LockLocks(t, doing[t].lock)' = LockLocks(t, doing[t].lock)
          /\ PriorityLocks(doing[t].thread)' = PriorityLocks(doing[t].thread)
      BY DEF UnlockLocks, LockLocks, PriorityLocks
    <2> QED  BY <1>2, <2>1 DEF Needed
  <1> QED  BY <1>1, <1>2

\* The steps of the other threads: what a thread does leaves those running that
\* run, those that own a lock its owners, and the collection to the suspender.
LEMMA OperationLeavesOthersAlone ==
  ASSUME InnerIInv, NEW t \in Threads, Operation(t), NEW u \in Threads \ {t}
  PROVE  /\ state[u] = "RUNNING" => state'[u] = "RUNNING"
         /\ \A l \in Locks : owner[l] = u => owner'[l] = u
         /\ u = suspendAllThread => UNCHANGED <<suspendAllThread, gcPhase>>
PROOF
  <1>0. /\ TypeOK /\ WaitersAreQueued /\ NoThread \notin Threads
        /\ suspendAllThread # NoThread => owner[ActiveLock] = suspendAllThread
    BY ThreadsAssumption DEF InnerIInv, IInv, OwnersDoNotWait
  <1> DEFINE Alone == /\ state[u] = "RUNNING" => state'[u] = "RUNNING"
                      /\ \A l \in Locks : owner[l] = u => owner'[l] = u
  <1>1. ASSUME NEW l \in Locks, PR_Lock(t, l) \/ PR_TestAndLock(t, l) PROVE Alone
    <2>1. CASE TakeFree(t, l)
      BY <1>0, <2>1 DEF TakeFree, TypeOK
    <2>2. CASE WaitFor(t, l)
      BY <1>0, <2>2 DEF WaitFor, TypeOK
    <2> QED  BY <1>1, <2>1, <2>2 DEF PR_Lock, PR_TestAndLock
  <1>2. ASSUME NEW l \in Locks, Release(l), owner[l] = t PROVE Alone
    <2>1. /\ \A k \in Locks \ {l} : owner'[k] = owner[k]
          /\ \/ \E v \in Threads :
                  /\ state[v] = "LOCK_WAIT"
                  /\ \A w \in Threads \ {v} : state'[w] = state[w]
             \/ UNCHANGED state
      BY <1>0, <1>2, ReleaseEffect
    <2>2. state[u] = "RUNNING" => state'[u] = "RUNNING"
      BY <2>1
    <2> QED  BY <1>2, <2>1, <2>2
  <1>3. ASSUME NEW v \in GcAble,
               \/ SuspendRunnable(t, v) \/ SuspendBlocked(t, v) \/ ResumeSuspended(t, v)
        PROVE  Alone
    BY <1>0, <1>3 DEF SuspendRunnable, SuspendBlocked, ResumeSuspended, lockVars, TypeOK
  <1>4. ASSUME NEW v \in GcAble, ResumeLockWait(t, v) PROVE Alone
    <2>1. t \in Local
      BY <1>0, <1>4 DEF ResumeLockWait, Walking, TypeOK
    <2> QED  BY <1>0, <1>4, <2>1, ResumeEffect
  <1>5. ASSUME ResumeAllReturns(t) PROVE Alone
    <2>1. Release(ActiveLock) /\ t = suspendAllThread
      BY <1>5 DEF ResumeAllReturns, Walking
    <2> QED  BY <1>0, <1>2, <2>1, LocksAssumption
  <1>6. ASSUME NEW v \in Local, NEW p \in Priorities, SetThreadPriority(t, v, p) PROVE Alone
    BY <1>6 DEF SetThreadPriority, lockVars
  <1>7. ASSUME UNCHANGED vars PROVE Alone
    BY <1>7 DEF vars, threadVars, lockVars, gcVars
  <1>8. ASSUME NEW l \in Locks, PR_Unlock(t, l) PROVE Alone
    BY <1>2, <1>8 DEF PR_Unlock
  <1>9. Alone
    <2>1. InnerTypeOK
      BY DEF InnerIInv
    <2> HIDE DEF Alone
    <2>2. \/ doing[t].kind \in {"lock", "test", "unlock"} /\ doing[t].lock \in Locks
          \/ doing[t].kind \in {"suspend", "resume"} /\ doing[t].thread \in GcAble
          \/ doing[t].kind = "resumed"
          \/ /\ doing[t].kind = "priority" /\ doing[t].thread \in Local
             /\ doing[t].priority \in Priorities
      BY <2>1, KindsOfOperations DEF Operation
    <2>3. CASE doing[t].kind = "lock" /\ PR_Lock(t, doing[t].lock)
      BY <1>1, <2>2, <2>3
    <2>4. CASE doing[t].kind = "test" /\ PR_TestAndLock(t, doing[t].lock)
      BY <1>1, <2>2, <2>4
    <2>5. CASE doing[t].kind = "unlock" /\ PR_Unlock(t, doing[t].lock)
      BY <1>8, <2>2, <2>5
    <2>6. CASE /\ doing[t].kind \in {"suspend", "resume"}
               /\ \/ SuspendRunnable(t, doing[t].thread) \/ SuspendBlocked(t, doing[t].thread)
                  \/ ResumeSuspended(t, doing[t].thread)
      BY <1>3, <2>2, <2>6
    <2>7. CASE doing[t].kind = "resume" /\ ResumeLockWait(t, doing[t].thread)
      BY <1>4, <2>2, <2>7
    <2>8. CASE /\ doing[t].kind = "priority"
               /\ SetThreadPriority(t, doing[t].thread, doing[t].priority)
      BY <1>6, <2>2, <2>8
    <2> QED  BY <1>5, <1>7, <2>3, <2>4, <2>5, <2>6, <2>7, <2>8 DEF Operation
  <1>10. u = suspendAllThread => UNCHANGED <<suspendAllThread, gcPhase>>
    BY DEF Operation, PR_Lock, PR_TestAndLock, PR_Unlock, SuspendRunnable, SuspendBlocked,
       ResumeSuspended, ResumeLockWait, ResumeAllReturns, SetThreadPriority, Walking, Visit,
       gcVars, vars
  <1> QED  BY <1>9, <1>10

\* The number of needed locks, now and after a step.
LEMMA NeededHasLength ==
  InnerTypeOK =>
    \A t \in Threads :
      /\ Len(Needed(t)) \in Nat
      /\ doing[t].kind = "resume" => Len(Needed(t)) >= 1 /\ Needed(t)[1] = doing[t].thread
BY NeededByPlace

LEMMA NeededWillHaveLength ==
  InnerTypeOK' =>
    \A t \in Threads :
      /\ Len(Needed(t)') \in Nat
      /\ doing'[t].kind = "resume" =>
           Len(Needed(t)') >= 1 /\ Needed(t)'[1] = doing'[t].thread
PROOF
  <1>1. InnerTypeOK' =>
          (\A t \in Threads :
             /\ Len(Needed(t)) \in Nat
             /\ doing[t].kind = "resume" =>
                  Len(Needed(t)) >= 1 /\ Needed(t)[1] = doing[t].thread)'
    BY NeededHasLength, PTL
  <1> QED  BY <1>1

\* Inner locks are needed that there are.
LEMMA NeededAreInnerLocks ==
  ASSUME IInv, InnerTypeOK, NEW t \in Threads, NEW i \in 1 .. Len(Needed(t))
  PROVE  Needed(t)[i] \in InnerLocks
PROOF
  <1> DEFINE op == doing[t]
             n  == Needed(t)
             l  == waitLock[op.thread]
  <1>1. TypeOK /\ WaitersAreQueued
    BY DEF IInv
  <1>2. /\ op.kind \in {"lock", "test", "unlock"} => op.lock \in Locks
        /\ op.kind \in {"suspend", "resume", "priority"} => op.thread \in Threads
        /\ op.kind = "resume" /\ state[op.thread] = "LOCK_WAIT" => l \in Locks
    <2>1. /\ op.kind \in {"lock", "test", "unlock"} => op.lock \in Locks
          /\ op.kind \in {"suspend", "resume", "priority"} => op.thread \in Threads
      BY KindsOfOperations, ThreadsAssumption DEF Threads
    <2> HIDE DEF op
    <2> QED  BY <1>1, <2>1 DEF TypeOK, WaitersAreQueued
  <1>3. \A k \in Locks : waitQ[k] # << >> => Head(waitQ[k]) \in Threads
    BY <1>1, RangeByIndex DEF TypeOK
  <1>4. Len(n) \in Nat /\ i \in Int /\ 1 <= i /\ i <= Len(n)
    BY NeededHasLength
  <1>5. CASE op.kind \in {"none", "lock", "test", "suspend", "priority"}
    BY <1>2, <1>4, <1>5, NeededByPlace DEF InnerLocks
  <1>6. CASE op.kind \in {"unlock", "resumed"}
    BY <1>2, <1>3, <1>4, <1>6, NeededByPlace, LocksAssumption DEF InnerLocks
  <1>7. CASE op.kind = "resume"
    BY <1>2, <1>3, <1>4, <1>7, NeededByPlace DEF InnerLocks
  <1> QED  BY <1>5, <1>6, <1>7, KindsOfOperations

LEMMA BeginKeepsInnerIInv ==
  ASSUME InnerIInv, NEW t \in Threads, NEW op \in Operations, Begin(t, op),
         /\ state[t] = "RUNNING"
         /\ op.kind = "unlock" => owner[op.lock] = t
         /\ op.kind = "suspend" => t = suspendAllThread /\ gcPhase = "suspending"
         /\ op.kind \in {"resume", "resumed"} => t = suspendAllThread /\ gcPhase = "resuming"
  PROVE  InnerIInv'
PROOF
  <1>1. /\ doing[t] = Nothing /\ doing' = [doing EXCEPT ![t] = op]
        /\ UNCHANGED <<state, suspending, priority, waitLock, owner, waitQ, suspendAllThread,
                       gcPhase, unvisited, taken, held>>
    BY DEF Begin, vars, threadVars, lockVars, gcVars
  <1>2. InnerTypeOK' /\ doing'[t] = op /\ \A u \in Threads \ {t} : doing'[u] = doing[u]
    BY <1>1 DEF InnerIInv, InnerTypeOK
  <1>3. IInv'
    BY <1>1, NextKeepsIInv DEF InnerIInv, vars, threadVars, lockVars, gcVars
  <1>4. ReasonsStayValid'
    BY <1>1, <1>2 DEF InnerIInv, ReasonsStayValid
  <1>5. ReadsStayValid'
    <2>1. \A u \in Threads \ {t} : Needed(u)' = Needed(u)
      BY <1>1, <1>2, NeededIsKept
    <2>2. Len(Needed(t)') \in Nat
      BY <1>2, NeededWillHaveLength
    <2>3. taken[t] = 0 /\ \A x \in InnerLocks : held[x] # t
      BY <1>1, HeldByPlace DEF InnerIInv, Nothing
    <2> QED  BY <1>1, <2>1, <2>2, <2>3 DEF InnerIInv, ReadsStayValid
  <1> QED  BY <1>2, <1>3, <1>4, <1>5 DEF InnerIInv

LEMMA TakeKeepsInnerIInv ==
  ASSUME InnerIInv, NEW t \in Threads, Take(t)
  PROVE  InnerIInv'
PROOF
  <1> DEFINE n == Needed(t)
             x == n[taken[t] + 1]
  <1>1. /\ taken[t] < Len(n) /\ held[x] = NoThread
        /\ held' = [held EXCEPT ![x] = t]
        /\ taken' = [taken EXCEPT ![t] = @ + 1]
        /\ UNCHANGED <<state, suspending, priority, waitLock, owner, waitQ, suspendAllThread,
                       gcPhase, unvisited, doing>>
    BY DEF Take, vars, threadVars, lockVars, gcVars
  <1>2. /\ IInv /\ InnerTypeOK /\ ReasonsStayValid /\ ReadsStayValid /\ NoThread \notin Threads
        /\ taken[t] \in Nat /\ Len(n) \in Nat
    BY ThreadsAssumption, NeededHasLength DEF InnerIInv, InnerTypeOK
  <1>3. x \in InnerLocks
    <2>1. \A i \in 1 .. Len(n) : n[i] \in InnerLocks
      BY <1>2, NeededAreInnerLocks
    <2> HIDE DEF n
    <2> QED  BY <1>1, <1>2, <2>1
  <1>4. \A u \in Threads : Needed(u)' = Needed(u)
    BY <1>1, NeededIsKept
  <1>5. /\ \A u \in Threads : {y \in InnerLocks : held[y] = u} = {Needed(u)[i] : i \in 1 .. taken[u]}
        /\ \A u \in Threads : taken[u] <= Len(Needed(u))
    BY <1>2 DEF ReadsStayValid
  <1> HIDE DEF n, x
  <1>6. IInv'
    BY <1>1, <1>2, NextKeepsIInv DEF vars, threadVars, lockVars, gcVars
  <1>7. InnerTypeOK'
    BY <1>1, <1>2, <1>3 DEF InnerTypeOK
  <1>8. ReasonsStayValid'
    BY <1>1, <1>2 DEF ReasonsStayValid
  <1>9. ASSUME NEW u \in Threads \ {t}
        PROVE  /\ taken'[u] <= Len(Needed(u)')
               /\ {y \in InnerLocks : held'[y] = u} = {Needed(u)'[i] : i \in 1 .. taken'[u]}
    <2>1. taken'[u] = taken[u] /\ Needed(u)' = Needed(u)
      BY <1>1, <1>2, <1>4 DEF InnerTypeOK
    <2>2. {y \in InnerLocks : held'[y] = u} = {y \in InnerLocks : held[y] = u}
      BY <1>1, <1>2, <1>3 DEF InnerTypeOK
    <2> QED  BY <1>5, <2>1, <2>2
  <1>10. /\ taken'[t] <= Len(Needed(t)')
         /\ {y \in InnerLocks : held'[y] = t} = {Needed(t)'[i] : i \in 1 .. taken'[t]}
    <2>1. taken'[t] = taken[t] + 1 /\ Needed(t)' = n
      BY <1>1, <1>2, <1>4 DEF InnerTypeOK, n
    <2>2. {y \in InnerLocks : held'[y] = t} = {y \in InnerLocks : held[y] = t} \cup {x}
      BY <1>1, <1>2, <1>3 DEF InnerTypeOK
    <2>3. {y \in InnerLocks : held[y] = t} = {n[i] : i \in 1 .. taken[t]}
      BY <1>5 DEF n
    <2>4. {n[i] : i \in 1 .. taken[t] + 1} = {n[i] : i \in 1 .. taken[t]} \cup {x}
      <3>1. 1 .. taken[t] + 1 = (1 .. taken[t]) \cup {taken[t] + 1}
        BY <1>2
      <3> QED  BY <3>1 DEF x
    <2>5. {y \in InnerLocks : held'[y] = t} = {n[i] : i \in 1 .. taken[t] + 1}
      BY <2>2, <2>3, <2>4
    <2>6. taken[t] + 1 <= Len(n)
      BY <1>1, <1>2
    <2> QED  BY <2>1, <2>5, <2>6
  <1>11. ReadsStayValid'
    BY <1>9, <1>10 DEF ReadsStayValid
  <1> QED  BY <1>6, <1>7, <1>8, <1>11 DEF InnerIInv

\* What a thread has read to take the inner locks it holds stays as it is when
\* another thread performs its operation.
LEMMA ReadsOutliveOperation ==
  ASSUME InnerIInv, NEW t \in Threads, Operation(t), taken[t] = Len(Needed(t)),
         NEW u \in Threads \ {t}, doing'[u] = doing[u], InnerTypeOK'
  PROVE  /\ taken[u] <= Len(Needed(u)')
         /\ \A i \in 1 .. taken[u] : Needed(u)'[i] = Needed(u)[i]
PROOF
  <1> DEFINE op == doing[u]
             n  == Needed(u)
  <1>0. /\ InnerTypeOK /\ ReadsStayValid
        /\ taken[u] \in Nat /\ taken[u] <= Len(n)
        /\ \A i \in 1 .. taken[u] : held[n[i]] = u
    BY HeldByPlace DEF InnerIInv
  <1>1. /\ \A l \in Locks : held[l] = u => owner'[l] = owner[l] /\ waitQ'[l] = waitQ[l]
        /\ \A v \in Threads : held[v] = u => state'[v] = state[v] /\ waitLock'[v] = waitLock[v]
    BY OperationTouchesItsLocks
  <1>2. ASSUME Needed(u)' = n
        PROVE  /\ taken[u] <= Len(Needed(u)')
               /\ \A i \in 1 .. taken[u] : Needed(u)'[i] = n[i]
    BY <1>0, <1>2
  <1>3. Len(Needed(u)') \in Nat
    BY NeededWillHaveLength
  <1>4. CASE taken[u] = 0
    BY <1>3, <1>4
  <1>5. CASE taken[u] # 0 /\ op.kind \in {"lock", "unlock"}
    <2>1. op.lock \in Locks /\ n[1] = op.lock
      BY <1>0, <1>5, KindsOfOperations, NeededByPlace
    <2> HIDE DEF n
    <2>2. held[op.lock] = u
      BY <1>0, <1>5, <2>1
    <2>3. /\ LockLocks(u, op.lock)' = LockLocks(u, op.lock)
          /\ UnlockLocks(op.lock)' = UnlockLocks(op.lock)
      BY <1>1, <2>1, <2>2 DEF LockLocks, UnlockLocks
    <2>4. CASE op.kind = "lock"
      BY <1>2, <2>3, <2>4 DEF Needed, n
    <2>5. CASE op.kind = "unlock"
      BY <1>2, <2>3, <2>5 DEF Needed, n
    <2> QED  BY <1>5, <2>4, <2>5
  <1>6. CASE taken[u] # 0 /\ op.kind = "resumed"
    <2>1. ActiveLock \in Locks /\ n[1] = ActiveLock
      BY <1>0, <1>6, NeededByPlace, LocksAssumption
    <2> HIDE DEF n
    <2>2. held[ActiveLock] = u
      BY <1>0, <1>6, <2>1
    <2> QED  BY <1>1, <1>2, <1>6, <2>1, <2>2 DEF Needed, UnlockLocks, n
  <1>7. CASE op.kind \in {"test", "suspend", "priority"}
    BY <1>2, <1>7 DEF Needed, PriorityLocks
  <1>8. CASE taken[u] # 0 /\ op.kind = "resume"
    <2> DEFINE v == op.thread
               l == waitLock[v]
    <2>1. v \in Threads /\ n[1] = v
      BY <1>0, <1>8, KindsOfOperations, NeededByPlace, ThreadsAssumption DEF Threads
    <2>2. state'[v] = state[v] /\ waitLock'[v] = l
      <3> HIDE DEF n
      <3>1. held[v] = u
        BY <1>0, <1>8, <2>1
      <3> QED  BY <1>1, <2>1, <3>1
    <2>3. CASE state[v] # "LOCK_WAIT"
      BY <1>2, <1>8, <2>2, <2>3 DEF Needed, ResumeLocks
    <2>4. CASE state[v] = "LOCK_WAIT" /\ taken[u] = 1
      <3>1. Len(Needed(u)') >= 1 /\ Needed(u)'[1] = v
        BY <1>8, NeededWillHaveLength
      <3> QED  BY <2>1, <2>4, <3>1
    <2>5. CASE state[v] = "LOCK_WAIT" /\ taken[u] # 1
      <3>1. l \in Locks /\ n[2] = l
        BY <1>0, <1>8, <2>1, <2>5, NeededByPlace DEF InnerIInv, IInv, TypeOK, WaitersAreQueued
      <3>2. held[l] = u
        <4> HIDE DEF n
        <4> QED  BY <1>0, <1>8, <2>5, <3>1
      <3>3. owner'[l] = owner[l] /\ waitQ'[l] = waitQ[l]
        BY <1>1, <3>1, <3>2
      <3>4. UnlockLocks(l)' = UnlockLocks(l)
        BY <2>2, <3>3 DEF UnlockLocks
      <3>5. ResumeLocks(v)' = ResumeLocks(v)
        BY <2>2, <3>3, <3>4 DEF ResumeLocks
      <3>6. Needed(u)' = n
        BY <1>8, <3>5 DEF Needed
      <3> QED  BY <1>2, <3>6
    <2> QED  BY <1>8, <2>3, <2>4, <2>5
  <1>9. CASE op.kind = "none"
    BY <1>0, <1>4, <1>9, HeldByPlace
  <1> QED  BY <1>0, <1>4, <1>5, <1>6, <1>7, <1>8, <1>9, KindsOfOperations

LEMMA FinishKeepsInnerIInv ==
  ASSUME InnerIInv, NEW t \in Threads, Finish(t)
  PROVE  InnerIInv'
PROOF
  <1>1. /\ taken[t] = Len(Needed(t)) /\ Operation(t)
        /\ doing' = [doing EXCEPT ![t] = Nothing]
        /\ taken' = [taken EXCEPT ![t] = 0]
        /\ held' = [x \in InnerLocks |-> IF held[x] = t THEN NoThread ELSE held[x]]
    BY DEF Finish
  <1>2. InnerTypeOK /\ ReasonsStayValid /\ ReadsStayValid /\ NoThread \notin Threads
    BY ThreadsAssumption DEF InnerIInv
  <1>3. /\ doing'[t] = Nothing /\ taken'[t] = 0
        /\ \A u \in Threads \ {t} : doing'[u] = doing[u] /\ taken'[u] = taken[u]
    BY <1>1, <1>2 DEF InnerTypeOK
  <1>4. InnerTypeOK'
    BY <1>1, <1>2 DEF InnerTypeOK, Operations
  <1>5. IInv'
    BY <1>1, OperationIsPrLockStep, NextKeepsIInv DEF InnerIInv
  <1>6. ReasonsStayValid'
    <2>1. ASSUME NEW u \in Threads \ {t}, NEW op \in Operations, doing[u] = op
          PROVE  /\ op.kind # "none" => state'[u] = "RUNNING"
                 /\ op.kind = "unlock" => owner'[op.lock] = u
                 /\ op.kind = "suspend" => u = suspendAllThread' /\ gcPhase' = "suspending"
                 /\ op.kind \in {"resume", "resumed"} =>
                      u = suspendAllThread' /\ gcPhase' = "resuming"
      <3>1. /\ state[u] = "RUNNING" => state'[u] = "RUNNING"
            /\ \A l \in Locks : owner[l] = u => owner'[l] = u
            /\ u = suspendAllThread => UNCHANGED <<suspendAllThread, gcPhase>>
        BY <1>1, OperationLeavesOthersAlone
      <3>2. op.kind = "unlock" => op.lock \in Locks
        BY <1>2, <2>1, KindsOfOperations
      <3> QED  BY <1>2, <2>1, <3>1, <3>2 DEF ReasonsStayValid
    <2>2. \A u \in Threads : doing[u] \in Operations
      BY <1>2 DEF InnerTypeOK
    <2>3. Nothing.kind = "none"
      BY DEF Nothing
    <2> QED  BY <1>3, <2>1, <2>2, <2>3 DEF ReasonsStayValid
  <1>7. ASSUME NEW u \in Threads \ {t}
        PROVE  /\ taken'[u] <= Len(Needed(u)')
               /\ {x \in InnerLocks : held'[x] = u} = {Needed(u)'[i] : i \in 1 .. taken'[u]}
    <2>1. /\ taken[u] <= Len(Needed(u)')
          /\ \A i \in 1 .. taken[u] : Needed(u)'[i] = Needed(u)[i]
      BY <1>1, <1>3, <1>4, ReadsOutliveOperation
    <2>2. {x \in InnerLocks : held'[x] = u} = {x \in InnerLocks : held[x] = u}
      BY <1>1, <1>2
    <2>3. {x \in InnerLocks : held[x] = u} = {Needed(u)[i] : i \in 1 .. taken[u]}
      BY <1>2 DEF ReadsStayValid
    <2> QED  BY <1>3, <2>1, <2>2, <2>3
  <1>8. /\ taken'[t] <= Len(Needed(t)')
        /\ {x \in InnerLocks : held'[x] = t} = {Needed(t)'[i] : i \in 1 .. taken'[t]}
    <2>1. Len(Needed(t)') \in Nat
      BY <1>4, NeededWillHaveLength
    <2>2. {x \in InnerLocks : held'[x] = t} = {}
      BY <1>1, <1>2
    <2> QED  BY <1>3, <2>1, <2>2
  <1>9. ReadsStayValid'
    BY <1>7, <1>8 DEF ReadsStayValid
  <1> QED  BY <1>4, <1>5, <1>6, <1>9 DEF InnerIInv

\* The steps that take no inner lock.
LEMMA OtherStepsKeepInnerIInv ==
  ASSUME InnerIInv, UNCHANGED <<doing, taken, held, owner, waitQ>>,
         Next \/ UNCHANGED vars,
         \A u \in Threads : doing[u].kind = "resume" => UNCHANGED <<state, waitLock>>,
         \A u \in Threads : /\ doing[u].kind # "none" => state'[u] = state[u]
                            /\ doing[u].kind \in {"suspend", "resume", "resumed"} =>
                                 UNCHANGED <<suspendAllThread, gcPhase>>
  PROVE  InnerIInv'
PROOF
  <1>1. IInv'
    BY NextKeepsIInv DEF InnerIInv
  <1>2. InnerTypeOK'
    BY DEF InnerIInv, InnerTypeOK
  <1>3. ReasonsStayValid'
    BY DEF InnerIInv, ReasonsStayValid
  <1>4. \A u \in Threads : Needed(u)' = Needed(u)
    BY NeededIsKept
  <1>5. ReadsStayValid'
    BY <1>4 DEF InnerIInv, ReadsStayValid
  <1> QED  BY <1>1, <1>2, <1>3, <1>5 DEF InnerIInv

LEMMA InnerNextKeepsInnerIInv ==
  ASSUME InnerIInv, [InnerNext]_fineVars
  PROVE  InnerIInv' /\ (Next \/ UNCHANGED vars)
PROOF
  <1>0. /\ TypeOK /\ OwnersDoNotWait /\ CollectorStops /\ InnerTypeOK /\ ReasonsStayValid
        /\ NoThread \notin Threads /\ suspendAllThread \in Local \cup {NoThread}
        /\ Local \subseteq Threads
    BY ThreadsAssumption DEF InnerIInv, IInv, TypeOK, Threads
  <1>1. ASSUME NEW t \in Threads, NEW op \in Operations, Begin(t, op),
               /\ state[t] = "RUNNING"
               /\ op.kind = "unlock" => owner[op.lock] = t
               /\ op.kind = "suspend" => t = suspendAllThread /\ gcPhase = "suspending"
               /\ op.kind \in {"resume", "resumed"} =>
                    t = suspendAllThread /\ gcPhase = "resuming"
        PROVE  InnerIInv' /\ UNCHANGED vars
    BY <1>1, BeginKeepsInnerIInv DEF Begin, vars
  <1>2. ASSUME NEW t \in Threads, NEW l \in Locks,
               BeginLock(t, l) \/ BeginTest(t, l) \/ BeginUnlock(t, l)
        PROVE  InnerIInv' /\ UNCHANGED vars
    <2>1. CASE BeginLock(t, l)
      BY <1>1, <2>1 DEF BeginLock, MayLock, Operations
    <2>2. CASE BeginTest(t, l)
      BY <1>1, <2>2 DEF BeginTest, Operations
    <2>3. CASE BeginUnlock(t, l)
      BY <1>1, <2>3 DEF BeginUnlock, MayLock, Operations
    <2> QED  BY <1>2, <2>1, <2>2, <2>3
  <1>3. ASSUME NEW t \in Threads, NEW u \in Local, NEW p \in Priorities, BeginPriority(t, u, p)
        PROVE  InnerIInv' /\ UNCHANGED vars
    BY <1>1, <1>3 DEF BeginPriority, Operations
  <1>4. ASSUME NEW t \in Threads, NEW u \in GcAble, BeginSuspend(t, u) \/ BeginResume(t, u)
        PROVE  InnerIInv' /\ UNCHANGED vars
    <2>1. CASE BeginSuspend(t, u)
      BY <1>1, <2>1 DEF BeginSuspend, Walking, Operations
    <2>2. CASE BeginResume(t, u)
      BY <1>1, <2>2 DEF BeginResume, Walking, Operations
    <2> QED  BY <1>4, <2>1, <2>2
  <1>5. ASSUME NEW t \in Threads, BeginResumed(t)
        PROVE  InnerIInv' /\ UNCHANGED vars
    BY <1>1, <1>5 DEF BeginResumed, Walking, Operations
  <1>6. ASSUME NEW t \in Threads, Take(t) PROVE InnerIInv' /\ UNCHANGED vars
    BY <1>6, TakeKeepsInnerIInv DEF Take, vars
  <1>7. ASSUME NEW t \in Threads, Finish(t) PROVE InnerIInv' /\ (Next \/ UNCHANGED vars)
    BY <1>7, FinishKeepsInnerIInv, OperationIsPrLockStep DEF Finish
  <1>8. ASSUME NEW t \in Local, SwitchLocal(t) PROVE InnerIInv' /\ Next
    <2>1. Next
      BY <1>8 DEF SwitchLocal, Next
    <2>2. /\ UNCHANGED <<doing, taken, held, owner, waitQ, waitLock, suspendAllThread, gcPhase>>
          /\ \A u \in Threads \ {t} : state'[u] = state[u]
      BY <1>0, <1>8 DEF SwitchLocal, Dispatch, Preempt, innerVars, lockVars, gcVars, TypeOK
    <2>3. \A u \in Local : doing[u].kind = "none"
      BY <1>8 DEF SwitchLocal, Nothing
    <2>4. \A u \in Threads : doing[u].kind \notin {"suspend", "resume", "resumed"}
      BY <1>0, <2>3 DEF ReasonsStayValid
    <2> QED  BY <2>1, <2>2, <2>3, <2>4, OtherStepsKeepInnerIInv
  <1>9. ASSUME NEW t \in Local, CollectInner(t) PROVE InnerIInv' /\ Next
    <2>1. Next
      BY <1>9 DEF CollectInner, Next, Collect
    <2>2. /\ UNCHANGED <<doing, taken, held, owner, waitQ, waitLock, state>>
          /\ t = suspendAllThread /\ doing[t].kind = "none"
      BY <1>9 DEF CollectInner, SuspendAllReturns, ResumeAll, innerVars, threadVars, lockVars,
                  Walking, Nothing
    <2>3. \A u \in Threads : doing[u].kind \notin {"suspend", "resume", "resumed"}
      BY <1>0, <2>2 DEF ReasonsStayValid
    <2> QED  BY <2>1, <2>2, <2>3, OtherStepsKeepInnerIInv
  <1>10. ASSUME NEW t \in Local, SuspendAllInner(t) PROVE InnerIInv' /\ Next
    <2>1. Next
      BY <1>10 DEF SuspendAllInner, Next
    <2>2. /\ UNCHANGED <<doing, taken, held, owner, waitQ, waitLock, state>>
          /\ t # suspendAllThread /\ owner[ActiveLock] = t
      BY <1>10 DEF SuspendAllInner, SuspendAll, innerVars, threadVars, lockVars, MayLock
    <2>3. \A u \in Threads : u # suspendAllThread
      BY <1>0, <2>2 DEF OwnersDoNotWait
    <2>4. \A u \in Threads : doing[u].kind \notin {"suspend", "resume", "resumed"}
      BY <1>0, <2>3 DEF ReasonsStayValid
    <2> QED  BY <2>1, <2>2, <2>4, OtherStepsKeepInnerIInv
  <1>11. CASE UNCHANGED fineVars
    <2>1. UNCHANGED vars /\ UNCHANGED <<doing, taken, held>>
      BY <1>11 DEF fineVars, innerVars
    <2> QED
      BY <2>1, OtherStepsKeepInnerIInv DEF vars, threadVars, lockVars, gcVars
  <1> QED
    BY <1>0, <1>2, <1>3, <1>4, <1>5, <1>6, <1>7, <1>8, <1>9, <1>10, <1>11
       DEF InnerNext, Walk, GiveUp, Proceed

LEMMA InnerInitInnerIInv == InnerInit => InnerIInv
PROOF
  <1> SUFFICES ASSUME InnerInit PROVE InnerIInv
    OBVIOUS
  <1>1. IInv
    BY InitIInv DEF InnerInit
  <1>2. \A t \in Threads : doing[t] = Nothing /\ taken[t] = 0
    BY DEF InnerInit
  <1>3. InnerTypeOK
    BY DEF InnerInit, InnerTypeOK, Operations
  <1>4. ReasonsStayValid
    BY <1>2 DEF ReasonsStayValid, Nothing
  <1>5. ReadsStayValid
    <2>1. \A t \in Threads : Len(Needed(t)) \in Nat
      BY <1>3, NeededHasLength
    <2>2. \A t \in Threads : {x \in InnerLocks : held[x] = t} = {}
      BY ThreadsAssumption DEF InnerInit
    <2> QED  BY <1>2, <2>1, <2>2 DEF ReadsStayValid
  <1> QED  BY <1>1, <1>3, <1>4, <1>5 DEF InnerIInv

-----------------------------------------------------------------------------
(* The theorems.                                                           *)

\* The inductive invariant holds throughout every behaviour.
THEOREM InnerSpecInnerIInv == InnerSpec => []InnerIInv
PROOF
  <1>1. InnerIInv /\ [InnerNext]_fineVars => InnerIInv'
    BY InnerNextKeepsInnerIInv
  <1> QED  BY <1>1, InnerInitInnerIInv, PTL DEF InnerSpec

\* What PR_Lock, PR_Unlock, PR_SuspendAll, PR_ResumeAll and the priority change
\* read to find the next inner lock is still so when they use it.
THEOREM SpecReadsStayValid == InnerSpec => []ReadsStayValid
PROOF
  <1>1. InnerIInv => ReadsStayValid
    BY DEF InnerIInv
  <1> QED  BY <1>1, InnerSpecInnerIInv, PTL

\* The critical sections of prulock.c and pruthr.c are atomic: with the inner
\* locks taken one at a time, and others running in between, the threads and
\* locks do what PrLock says they do.
THEOREM InnerLocksImplementPrLock == InnerSpec => Spec
PROOF
  <1>1. InnerIInv /\ [InnerNext]_fineVars => [Next]_vars
    BY InnerNextKeepsInnerIInv
  <1>2. InnerInit => Init
    BY DEF InnerInit
  <1> QED  BY <1>1, <1>2, InnerSpecInnerIInv, PTL DEF InnerSpec, Spec

\* So the locks implement the abstract lock where threads run in parallel too.
THEOREM InnerSpecImplementsAbstractLock == InnerSpec => ImplementsAbstractLock
BY InnerLocksImplementPrLock, SpecImplementsAbstractLock

\* Outside a resume, a thread that holds an inner lock and needs another one
\* holds a PRLock's and needs a thread's.
LEMMA SecondLockIsThreads ==
  ASSUME InnerIInv, gcPhase # "resuming", NEW t \in Threads,
         taken[t] # 0, taken[t] < Len(Needed(t))
  PROVE  taken[t] = 1 /\ Needed(t)[1] \in Locks /\ Needed(t)[2] \in Threads
PROOF
  <1> DEFINE op == doing[t]
             n  == Needed(t)
  <1>1. InnerTypeOK /\ IInv /\ ReasonsStayValid /\ TypeOK /\ taken[t] \in Nat
    BY DEF InnerIInv, IInv, InnerTypeOK
  <1>2. op.kind \notin {"resume", "resumed"}
    BY <1>1 DEF ReasonsStayValid
  <1>3. \A l \in Locks : waitQ[l] # << >> => Head(waitQ[l]) \in Threads
    BY <1>1, RangeByIndex DEF TypeOK
  <1>4. CASE op.kind \in {"none", "test", "suspend", "priority"}
    <2>1. Len(n) <= 1
      BY <1>1, <1>4, NeededByPlace
    <2> HIDE DEF n
    <2> QED  BY <1>1, <2>1 DEF n
  <1>5. CASE op.kind \in {"lock", "unlock"}
    <2>1. op.lock \in Locks
      BY <1>1, <1>5, KindsOfOperations
    <2>2. (Len(n) = 1 \/ Len(n) = 2) /\ (Len(n) = 2 => n[1] \in Locks /\ n[2] \in Threads)
      BY <1>1, <1>3, <1>5, <2>1, NeededByPlace
    <2>3. taken[t] = 1 /\ Len(n) = 2
      <3>1. taken[t] \in Nat /\ taken[t] # 0 /\ taken[t] < Len(n)
        BY <1>1
      <3>2. CASE Len(n) = 1
        BY <3>1, <3>2
      <3>3. CASE Len(n) = 2
        BY <3>1, <3>3
      <3> QED  BY <2>2, <3>2, <3>3
    <2> QED  BY <2>2, <2>3
  <1> QED  BY <1>1, <1>2, <1>4, <1>5, KindsOfOperations

\* Except while PR_ResumeAll walks the threads, no set of threads, however
\* large, waits in a circle for the inner locks of prulock.c and pruthr.c.
THEOREM SpecNoInnerDeadlock == InnerSpec => []NoInnerDeadlock
PROOF
  <1>1. ASSUME InnerIInv, gcPhase # "resuming", NEW S \in SUBSET Threads, S # {},
               \A t \in S : \E u \in S : WaitsFor(t, u)
        PROVE  FALSE
    <2>1. InnerTypeOK /\ ReadsStayValid /\ IInv
      BY <1>1 DEF InnerIInv
    <2>2. ASSUME NEW t \in S, NEW u \in S, WaitsFor(t, u)
          PROVE  /\ Needed(t)[taken[t] + 1] \in Locks
                 /\ taken[u] = 1 /\ Needed(u)[2] \in Threads
      <3> DEFINE x == Needed(t)[taken[t] + 1]
      <3>1. taken[t] < Len(Needed(t)) /\ held[x] = u
        BY <2>2 DEF WaitsFor
      <3>2. x \in InnerLocks
        BY <2>1, <3>1, NeededAreInnerLocks, NeededHasLength DEF InnerTypeOK
      <3> HIDE DEF x
      <3>3. \E i \in 1 .. taken[u] : x = Needed(u)[i]
        BY <2>1, <3>1, <3>2, HeldByPlace
      <3>4. taken[u] \in Nat /\ taken[u] # 0
        BY <2>1, <3>3 DEF InnerTypeOK
      <3>5. taken[u] < Len(Needed(u))
        BY <1>1 DEF WaitsFor
      <3>6. taken[u] = 1 /\ Needed(u)[1] \in Locks /\ Needed(u)[2] \in Threads
        BY <1>1, <3>4, <3>5, SecondLockIsThreads
      <3> QED  BY <3>3, <3>6 DEF x
    <2>3. PICK t \in S : TRUE
      BY <1>1
    <2>4. PICK u \in S : WaitsFor(t, u)
      BY <1>1
    <2>5. PICK v \in S : WaitsFor(u, v)
      BY <1>1
    <2>6. taken[u] = 1 /\ Needed(u)[2] \in Threads
      BY <2>2, <2>4
    <2>7. Needed(u)[2] \in Locks
      BY <2>2, <2>5, <2>6
    <2> QED  BY <2>6, <2>7, InnerLocksAssumption
  <1>2. InnerIInv => NoInnerDeadlock
    BY <1>1 DEF NoInnerDeadlock
  <1> QED  BY <1>2, InnerSpecInnerIInv, PTL
=============================================================================
