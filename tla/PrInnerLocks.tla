---------------------------- MODULE PrInnerLocks ----------------------------
(***************************************************************************)
(* The critical sections of PrLock at the grain of the locks that make      *)
(* them atomic where threads run in parallel: PRLock.ilock, taken by        *)
(* _PR_LOCK_LOCK, and PRThread.threadLock, taken by _PR_THREAD_LOCK.        *)
(* Neither can be taken twice by its holder (ussetlock, md/_irix.h).        *)
(*                                                                         *)
(* A thread begins an operation, takes the inner locks it needs one at a    *)
(* time, and with the last of them performs the operation of PrLock and     *)
(* lets go of them all.  Which lock is needed next depends on what the      *)
(* thread has read under the locks it holds already.                        *)
(***************************************************************************)
EXTENDS PrLock

\* PRLock.ilock is named by its PRLock, PRThread.threadLock by its PRThread.
InnerLocks == Locks \cup Threads

ASSUME InnerLocksAssumption == /\ Locks \cap Threads = {}
                               /\ NoThread \notin Locks

VARIABLES doing,          \* the operation a thread is in
          taken,          \* how many inner locks it has taken for it
          held            \* inner lock -> the thread that holds it

innerVars == <<doing, taken, held>>
fineVars == <<vars, innerVars>>

Nothing == [kind |-> "none"]

InnerInit == /\ Init
             /\ doing = [t \in Threads |-> Nothing]
             /\ taken = [t \in Threads |-> 0]
             /\ held = [x \in InnerLocks |-> NoThread]

-----------------------------------------------------------------------------
(* Slips; see PrLock.                                                      *)

\* PR_Lock takes its caller's thread lock before it looks at the owner.
SlipThreadFirst(t, l) == IF owner[l] = NoThread THEN <<l>> ELSE <<t, l>>

\* _PR_SetThreadPriority takes the lock queue a blocked thread is in as well.
SlipResort(u) == IF state[u] = "LOCK_WAIT" THEN <<u, waitLock[u]>> ELSE <<u>>

-----------------------------------------------------------------------------
(* The inner locks of each operation, in the order they are taken.          *)

\* PR_Lock: its caller's thread lock only to block.
LockLocks(t, l) == IF owner[l] = NoThread THEN <<l>> ELSE <<l, t>>

\* PR_Unlock, with _PR_AssignLock.
UnlockLocks(l) == IF waitQ[l] = << >> THEN <<l>> ELSE <<l, Head(waitQ[l])>>

\* _PR_Resume holds the thread's lock through _PR_AssignLock.
ResumeLocks(u) ==
  CASE state[u] # "LOCK_WAIT" -> <<u>>
    [] state[u] = "LOCK_WAIT" /\ owner[waitLock[u]] # NoThread ->
         <<u, waitLock[u]>>
    [] state[u] = "LOCK_WAIT" /\ owner[waitLock[u]] = NoThread ->
         <<u>> \o UnlockLocks(waitLock[u])

PriorityLocks(u) == <<u>>

Needed(t) ==
  LET op == doing[t]
  IN  CASE op.kind = "lock" -> LockLocks(t, op.lock)
        [] op.kind = "test" -> <<op.lock>>
        [] op.kind = "unlock" -> UnlockLocks(op.lock)
        [] op.kind = "resumed" -> UnlockLocks(ActiveLock)
        [] op.kind = "resume" -> ResumeLocks(op.thread)
        [] op.kind = "suspend" -> <<op.thread>>
        [] op.kind = "priority" -> PriorityLocks(op.thread)
        [] op.kind = "none" -> << >>

-----------------------------------------------------------------------------
Begin(t, op) == /\ doing[t] = Nothing
                /\ doing' = [doing EXCEPT ![t] = op]
                /\ UNCHANGED <<vars, taken, held>>

BeginLock(t, l) == /\ MayLock(t)
                   /\ owner[l] # t
                   /\ Begin(t, [kind |-> "lock", lock |-> l])

BeginTest(t, l) == /\ state[t] = "RUNNING"
                   /\ Begin(t, [kind |-> "test", lock |-> l])

BeginUnlock(t, l) == /\ MayLock(t)
                     /\ owner[l] = t
                     /\ Begin(t, [kind |-> "unlock", lock |-> l])

BeginSuspend(t, u) == /\ Walking(t, "suspending")
                      /\ u \in unvisited
                      /\ Begin(t, [kind |-> "suspend", thread |-> u])

BeginResume(t, u) == /\ Walking(t, "resuming")
                     /\ u \in unvisited
                     /\ Begin(t, [kind |-> "resume", thread |-> u])

BeginResumed(t) == /\ Walking(t, "resuming")
                   /\ unvisited = {}
                   /\ Begin(t, [kind |-> "resumed"])

\* _PR_SetThreadPriority; a native thread's priority is set without a lock.
BeginPriority(t, u, p) ==
  /\ state[t] = "RUNNING"
  /\ u \in Local
  /\ Begin(t, [kind |-> "priority", thread |-> u, priority |-> p])

Take(t) == /\ taken[t] < Len(Needed(t))
           /\ LET x == Needed(t)[taken[t] + 1]
              IN  /\ held[x] = NoThread
                  /\ held' = [held EXCEPT ![x] = t]
           /\ taken' = [taken EXCEPT ![t] = @ + 1]
           /\ UNCHANGED <<vars, doing>>

\* What the operation does to the threads and locks.  PR_TestAndLock leaves a
\* lock alone that is taken, and _PR_SetThreadPriority a priority that is set.
Operation(t) ==
  LET op == doing[t]
  IN  \/ op.kind = "lock" /\ PR_Lock(t, op.lock)
      \/ /\ op.kind = "test"
         /\ \/ PR_TestAndLock(t, op.lock)
            \/ owner[op.lock] # NoThread /\ UNCHANGED vars
      \/ op.kind = "unlock" /\ PR_Unlock(t, op.lock)
      \/ /\ op.kind = "suspend"
         /\ SuspendRunnable(t, op.thread) \/ SuspendBlocked(t, op.thread)
      \/ /\ op.kind = "resume"
         /\ ResumeSuspended(t, op.thread) \/ ResumeLockWait(t, op.thread)
      \/ op.kind = "resumed" /\ ResumeAllReturns(t)
      \/ /\ op.kind = "priority"
         /\ \/ SetThreadPriority(t, op.thread, op.priority)
            \/ priority[op.thread] = op.priority /\ UNCHANGED vars

Finish(t) == /\ doing[t] # Nothing
             /\ taken[t] = Len(Needed(t))
             /\ Operation(t)
             /\ doing' = [doing EXCEPT ![t] = Nothing]
             /\ taken' = [taken EXCEPT ![t] = 0]
             /\ held' = [x \in InnerLocks |->
                           IF held[x] = t THEN NoThread ELSE held[x]]

\* Local threads hold inner locks with interrupts off.
SwitchLocal(t) == /\ \A u \in Local : doing[u] = Nothing
                  /\ Dispatch(t) \/ Preempt(t)
                  /\ UNCHANGED innerVars

\* The steps of a collection that take no inner lock.
CollectInner(t) == /\ doing[t] = Nothing
                   /\ SuspendAllReturns(t) \/ ResumeAll(t)
                   /\ UNCHANGED innerVars

SuspendAllInner(t) == /\ doing[t] = Nothing
                      /\ SuspendAll(t)
                      /\ UNCHANGED innerVars

Walk(t) == \/ CollectInner(t)
           \/ \E u \in GcAble : BeginSuspend(t, u) \/ BeginResume(t, u)
           \/ BeginResumed(t)

GiveUp(t) == \E l \in Locks : BeginUnlock(t, l)

Proceed(t) == Take(t) \/ Finish(t)

InnerNext ==
  \/ \E t \in Local : SwitchLocal(t) \/ SuspendAllInner(t) \/ Walk(t)
  \/ \E t \in Threads : \/ \E l \in Locks : BeginLock(t, l) \/ BeginTest(t, l)
                        \/ GiveUp(t)
                        \/ \E u \in Local, p \in Priorities : BeginPriority(t, u, p)
                        \/ Proceed(t)

InnerSpec == InnerInit /\ [][InnerNext]_fineVars

-----------------------------------------------------------------------------
(* Correctness.                                                            *)

\* What a thread read to find its next inner lock (owner, queue, state and
\* wait.lock) is still so when it uses it: the locks it has taken are those it
\* would take now, and nobody else holds them.
ReadsStayValid ==
  \A t \in Threads :
    /\ taken[t] <= Len(Needed(t))
    /\ {x \in InnerLocks : held[x] = t} = {Needed(t)[i] : i \in 1 .. taken[t]}

\* t cannot go on before u lets go of an inner lock.
WaitsFor(t, u) == /\ taken[t] < Len(Needed(t))
                  /\ held[Needed(t)[taken[t] + 1]] = u

\* Except while PR_ResumeAll walks the threads, nobody waits, directly or in a
\* circle, for an inner lock that is held by somebody who waits: locking,
\* unlocking, suspension and priority changes take the inner locks in one order.
NoInnerDeadlock ==
  gcPhase # "resuming" =>
    ~ \E S \in (SUBSET Threads) \ {{}} :
        \A t \in S : \E u \in S : WaitsFor(t, u)

\* PR_ResumeAll: "This routine unblocks all other threads that were suspended
\* from running by PR_SuspendAll()."
ResumeAllUnblocks == gcPhase = "resuming" ~> gcPhase = "none"

InnerFairness == \A t \in Threads :
                   /\ SF_fineVars(t \in Local /\ Dispatch(t) /\ SwitchLocal(t))
                   /\ WF_fineVars(t \in Local /\ Preempt(t) /\ SwitchLocal(t))
                   /\ SF_fineVars(GiveUp(t))
                   /\ SF_fineVars(Proceed(t))
                   /\ SF_fineVars(t \in Local /\ Walk(t))

InnerFairSpec == InnerSpec /\ InnerFairness
=============================================================================
