------------------------------- MODULE PrLock -------------------------------
(***************************************************************************)
(* NSPR's locks and the stop-the-world suspension that runs through them:  *)
(* nsprpub/pr/src/threads/combined/prulock.c and the suspend, resume,       *)
(* priority and scheduling half of pruthr.c, in the builds that schedule    *)
(* user-level threads (neither _PR_GLOBAL_THREADS_ONLY nor pthreads).       *)
(*                                                                         *)
(* Local threads share one virtual processor (PR_SuspendAll asserts that    *)
(* there is only one); native threads run beside it and are not garbage     *)
(* collectable.  Native = {} is the _PR_LOCAL_THREADS_ONLY build.           *)
(*                                                                         *)
(* One action is one critical section: a section under _PR_LOCK_LOCK or     *)
(* _PR_THREAD_LOCK, which local threads also run with interrupts off.  What *)
(* these inner locks do to each other is the subject of PrInnerLocks.      *)
(***************************************************************************)
EXTENDS Integers, Sequences, Functions

CONSTANTS Local,          \* threads multiplexed on the virtual processor
          Native,         \* threads with a kernel thread of their own
          GcAble,         \* threads created with _PR_GCABLE_THREAD
          Locks,          \* the PRLocks
          ActiveLock,     \* _pr_activeLock, taken by PR_SuspendAll
          InitPriority,   \* thread -> its priority when it is created
          Priorities,     \* what PR_SetThreadPriority is called with
          NoThread,       \* the null PRThread *
          NoLock          \* the null PRLock *

Threads == Local \cup Native

ASSUME ThreadsAssumption ==
  /\ Local \cap Native = {}
  /\ GcAble \subseteq Local
  /\ NoThread \notin Threads

ASSUME LocksAssumption == /\ ActiveLock \in Locks
                          /\ NoLock \notin Locks

ASSUME PriorityAssumption == /\ InitPriority \in [Threads -> Nat]
                             /\ Priorities \subseteq Nat

VARIABLES state,             \* PRThread.state
          suspending,        \* PRThread.flags & _PR_SUSPENDING
          priority,          \* PRThread.priority
          waitLock,          \* PRThread.wait.lock
          owner,             \* PRLock.owner
          waitQ,             \* PRLock.waitQ, a list of threads
          suspendAllThread,  \* who called PR_SuspendAll
          gcPhase,           \* where that thread is in its call
          unvisited          \* threads its walk has still to reach

threadVars == <<state, suspending, priority, waitLock>>
lockVars   == <<owner, waitQ>>
gcVars     == <<suspendAllThread, gcPhase, unvisited>>
vars       == <<threadVars, lockVars, gcVars>>

\* _PR_COND_WAIT is reached only in PrCondVar, which extends this module.
ThreadStates == {"RUNNING", "RUNNABLE", "LOCK_WAIT", "COND_WAIT", "SUSPENDED"}
GcPhases == {"none", "suspending", "stopped", "resuming"}

Init == /\ state = [t \in Threads |-> IF t \in Local THEN "RUNNABLE"
                                                     ELSE "RUNNING"]
        /\ suspending = [t \in Threads |-> FALSE]
        /\ priority = InitPriority
        /\ waitLock = [t \in Threads |-> NoLock]
        /\ owner = [l \in Locks |-> NoThread]
        /\ waitQ = [l \in Locks |-> << >>]
        /\ suspendAllThread = NoThread
        /\ gcPhase = "none"
        /\ unvisited = {}

-----------------------------------------------------------------------------
(* Slips: versions of definitions below that forget something.  Nothing     *)
(* uses them; with one of them in place a property of this module fails.    *)

\* PR_SuspendAll takes only the run queue into account.
SlipRunQueueOnly(t) == {u \in GcAble \ {t} : state[u] = "RUNNABLE"}

\* PR_Lock starts a new queue.
SlipNewQueue(t, q) == <<t>>

\* _PR_Resume leaves _PR_SUSPENDING set.
SlipKeepMark(u) == UNCHANGED suspending

-----------------------------------------------------------------------------
(* The scheduler: _PR_Schedule, and preemption by ClockInterruptHandler     *)
(* (md/unix/unix.c) and _PR_IntsOn.                                         *)

ProcessorIdle == \A t \in Local : state[t] # "RUNNING"

\* _PR_Schedule: the suspender alone while the world is stopped, otherwise a
\* runnable thread of the highest priority that has one.
Schedulable(t) ==
  /\ state[t] = "RUNNABLE"
  /\ suspendAllThread \in {t, NoThread}
  /\ suspendAllThread = NoThread =>
       \A u \in Local : state[u] = "RUNNABLE" => priority[u] <= priority[t]

Dispatch(t) == /\ ProcessorIdle
               /\ Schedulable(t)
               /\ state' = [state EXCEPT ![t] = "RUNNING"]
               /\ UNCHANGED <<suspending, priority, waitLock, lockVars, gcVars>>

\* The clock tick, or the end of a section that ran with interrupts off and in
\* which a reschedule was requested, puts the running thread on the run queue.
Preempt(t) == /\ state[t] = "RUNNING"
              /\ state' = [state EXCEPT ![t] = "RUNNABLE"]
              /\ UNCHANGED <<suspending, priority, waitLock, lockVars, gcVars>>

\* PR_SetThreadPriority; no wait queue is sorted again.
SetThreadPriority(me, t, newPri) ==
  /\ state[me] = "RUNNING"
  /\ newPri # priority[t]
  /\ priority' = [priority EXCEPT ![t] = newPri]
  /\ UNCHANGED <<state, suspending, waitLock, lockVars, gcVars>>

-----------------------------------------------------------------------------
(* Locks: prulock.c.                                                       *)

\* PR_Lock and PR_Unlock assert that their caller is not the suspender.
MayLock(t) == state[t] = "RUNNING" /\ t # suspendAllThread

\* The queue q after t joins it.  The scan for t's place compares t with the
\* first waiter at every step, so t goes to the front or to the back.
Enqueue(t, q) ==
  IF /\ q # << >>
     /\ priority[Head(q)] # priority[q[Len(q)]]
     /\ priority[t] > priority[Head(q)]
  THEN <<t>> \o q
  ELSE Append(q, t)

\* _PR_AssignLock finds a thread, given the flags susp.  Its loop also looks
\* at the first waiter every time round.
Assignable(l, susp) == waitQ[l] # << >> /\ ~susp[Head(waitQ[l])]

\* _PR_AssignLock: l goes to its first waiter, which is made ready to run.
AssignLock(l) ==
  LET u == Head(waitQ[l])
  IN  /\ owner' = [owner EXCEPT ![l] = u]
      /\ waitQ' = [waitQ EXCEPT ![l] = Tail(@)]
      /\ waitLock' = [waitLock EXCEPT ![u] = NoLock]
      /\ state' = [state EXCEPT ![u] = IF u \in Native THEN "RUNNING"
                                                       ELSE "RUNNABLE"]

\* The lock l is given up: to a waiter if there is one to give it to.
Release(l) ==
  \/ /\ Assignable(l, suspending)
     /\ AssignLock(l)
  \/ /\ ~Assignable(l, suspending)
     /\ owner' = [owner EXCEPT ![l] = NoThread]
     /\ UNCHANGED <<waitQ, waitLock, state>>

TakeFree(t, l) == /\ owner[l] = NoThread
                  /\ owner' = [owner EXCEPT ![l] = t]
                  /\ UNCHANGED <<state, waitLock, waitQ>>

WaitFor(t, l) == /\ owner[l] \notin {NoThread, t}
                 /\ waitQ' = [waitQ EXCEPT ![l] = Enqueue(t, @)]
                 /\ state' = [state EXCEPT ![t] = "LOCK_WAIT"]
                 /\ waitLock' = [waitLock EXCEPT ![t] = l]
                 /\ UNCHANGED owner

\* PR_Lock.  A thread that relocks its own lock fails an assertion.
PR_Lock(t, l) == /\ MayLock(t)
                 /\ TakeFree(t, l) \/ WaitFor(t, l)
                 /\ UNCHANGED <<suspending, priority, gcVars>>

\* PR_TestAndLock, which has no assertion about the suspender; when the lock
\* is taken it changes nothing.
PR_TestAndLock(t, l) == /\ state[t] = "RUNNING"
                        /\ TakeFree(t, l)
                        /\ UNCHANGED <<suspending, priority, gcVars>>

PR_Unlock(t, l) == /\ MayLock(t)
                   /\ owner[l] = t
                   /\ Release(l)
                   /\ UNCHANGED <<suspending, priority, gcVars>>

-----------------------------------------------------------------------------
(* PR_SuspendAll and PR_ResumeAll: pruthr.c.  Each thread of the active     *)
(* list is one step, because native threads run between two of them.        *)

Suspendable(t) == GcAble \ {t}

\* PR_SuspendAll, from the return of PR_Lock(_pr_activeLock) to its walk.
SuspendAll(t) == /\ MayLock(t)
                 /\ owner[ActiveLock] = t
                 /\ suspendAllThread' = t
                 /\ gcPhase' = "suspending"
                 /\ unvisited' = Suspendable(t)
                 /\ UNCHANGED <<threadVars, lockVars>>

\* The suspender is at work in the given phase of its walk.
Walking(t, phase) == /\ t = suspendAllThread
                     /\ gcPhase = phase
                     /\ state[t] = "RUNNING"

Visit(u) == /\ u \in unvisited
            /\ unvisited' = unvisited \ {u}
            /\ UNCHANGED <<suspendAllThread, gcPhase>>

\* _PR_Suspend of a thread on the run queue.
SuspendRunnable(t, u) == /\ Walking(t, "suspending")
                         /\ Visit(u)
                         /\ state[u] = "RUNNABLE"
                         /\ state' = [state EXCEPT ![u] = "SUSPENDED"]
                         /\ UNCHANGED <<suspending, priority, waitLock, lockVars>>

\* _PR_Suspend of a blocked thread: it stays in its queue, with a mark.
SuspendBlocked(t, u) == /\ Walking(t, "suspending")
                        /\ Visit(u)
                        /\ state[u] \in {"LOCK_WAIT", "COND_WAIT"}
                        /\ suspending' = [suspending EXCEPT ![u] = TRUE]
                        /\ UNCHANGED <<state, priority, waitLock, lockVars>>

SuspendAllReturns(t) == /\ Walking(t, "suspending")
                        /\ unvisited = {}
                        /\ gcPhase' = "stopped"
                        /\ UNCHANGED <<threadVars, lockVars, suspendAllThread,
                                       unvisited>>

ResumeAll(t) == /\ Walking(t, "stopped")
                /\ gcPhase' = "resuming"
                /\ unvisited' = Suspendable(t)
                /\ UNCHANGED <<threadVars, lockVars, suspendAllThread>>

Unmark(u) == suspending' = [suspending EXCEPT ![u] = FALSE]

\* _PR_Resume of a thread that was taken off the run queue.
ResumeSuspended(t, u) == /\ Walking(t, "resuming")
                         /\ Visit(u)
                         /\ state[u] = "SUSPENDED"
                         /\ Unmark(u)
                         /\ state' = [state EXCEPT ![u] = "RUNNABLE"]
                         /\ UNCHANGED <<priority, waitLock, lockVars>>

\* _PR_Resume of a thread blocked on a lock.  Its lock may have been given
\* up while nobody could be assigned to it.
ResumeLockWait(t, u) ==
  LET l == waitLock[u]
  IN  /\ Walking(t, "resuming")
      /\ Visit(u)
      /\ state[u] = "LOCK_WAIT"
      /\ Unmark(u)
      /\ \/ /\ owner[l] = NoThread
            /\ Assignable(l, suspending')
            /\ AssignLock(l)
         \/ /\ owner[l] = NoThread => ~Assignable(l, suspending')
            /\ UNCHANGED <<state, waitLock, lockVars>>
      /\ UNCHANGED priority

\* PR_ResumeAll after its walk, with its PR_Unlock(_pr_activeLock).
ResumeAllReturns(t) == /\ Walking(t, "resuming")
                       /\ unvisited = {}
                       /\ suspendAllThread' = NoThread
                       /\ gcPhase' = "none"
                       /\ Release(ActiveLock)
                       /\ UNCHANGED <<suspending, priority, unvisited>>

-----------------------------------------------------------------------------
Lock(t) == \E l \in Locks : PR_Lock(t, l) \/ PR_TestAndLock(t, l)
Unlock(t) == \E l \in Locks : PR_Unlock(t, l)

\* The steps of PR_SuspendAll and PR_ResumeAll once t has begun.
Collect(t) == \/ SuspendAllReturns(t)
              \/ ResumeAll(t)
              \/ ResumeAllReturns(t)
              \/ \E u \in GcAble : \/ SuspendRunnable(t, u)
                                   \/ SuspendBlocked(t, u)
                                   \/ ResumeSuspended(t, u)
                                   \/ ResumeLockWait(t, u)

Reprioritize(t) == \E u \in Threads, p \in Priorities : SetThreadPriority(t, u, p)

Next == \/ \E t \in Local : Dispatch(t) \/ Preempt(t) \/ SuspendAll(t) \/ Collect(t)
        \/ \E t \in Threads : Lock(t) \/ Unlock(t) \/ Reprioritize(t)

Spec == Init /\ [][Next]_vars

-----------------------------------------------------------------------------
(* Correctness.                                                            *)

TypeOK ==
  /\ state \in [Threads -> ThreadStates]
  /\ suspending \in [Threads -> BOOLEAN]
  /\ priority \in [Threads -> Nat]
  /\ waitLock \in [Threads -> Locks \cup {NoLock}]
  /\ owner \in [Locks -> Threads \cup {NoThread}]
  /\ waitQ \in [Locks -> Seq(Threads)]
  /\ suspendAllThread \in Local \cup {NoThread}
  /\ gcPhase \in GcPhases
  /\ unvisited \in SUBSET GcAble

\* A thread is in the queue of exactly the lock its wait.lock names, once, and
\* only while it is in _PR_LOCK_WAIT: the three records of who waits for what,
\* which _PR_AssignLock asserts to agree, never drift apart.
WaitersAreQueued ==
  /\ \A l \in Locks : IsInjective(waitQ[l])
  /\ \A t \in Threads : waitLock[t] # NoLock <=> state[t] = "LOCK_WAIT"
  /\ \A t \in Threads, l \in Locks :
       t \in Range(waitQ[l]) <=> state[t] = "LOCK_WAIT" /\ waitLock[t] = l

\* A free lock that somebody waits for has a first waiter who is marked for
\* suspension, so the resume of that waiter will hand the lock on.
FreeLockAwaitsResume ==
  \A l \in Locks :
    owner[l] = NoThread /\ waitQ[l] # << >> => suspending[Head(waitQ[l])]

\* When no suspension is under way no lock lies free while threads wait for
\* it: what was given up during the collection was handed on by its end.
NoIdleWaiters ==
  suspendAllThread = NoThread =>
    \A l \in Locks : owner[l] = NoThread => waitQ[l] = << >>

\* The owner of a lock does not wait for it, and the suspender holds
\* _pr_activeLock to the end of its walk, so there is one suspender at a time.
OwnersDoNotWait ==
  /\ \A l \in Locks : owner[l] \in Threads => waitLock[owner[l]] # l
  /\ suspendAllThread # NoThread => owner[ActiveLock] = suspendAllThread

\* Taken off the run queue, or marked where it is blocked.
Stopped(t) == state[t] = "SUSPENDED" \/ suspending[t]

\* The threads the two walks have left stopped so far.
StoppedThreads ==
  CASE gcPhase = "none" -> {}
    [] gcPhase \in {"suspending", "stopped"} ->
         Suspendable(suspendAllThread) \ unvisited
    [] gcPhase = "resuming" -> unvisited

\* Exactly the threads that PR_SuspendAll has reached and PR_ResumeAll has not
\* reached are stopped or marked, although blocked threads are given locks, and
\* others block, while the walks are under way.  No mark outlives a collection.
CollectorStops ==
  /\ suspendAllThread = NoThread <=> gcPhase = "none"
  /\ unvisited \subseteq Suspendable(suspendAllThread)
  /\ gcPhase \in {"none", "stopped"} => unvisited = {}
  /\ \A t \in Threads : Stopped(t) <=> t \in StoppedThreads

\* PR_SuspendAll "prevents all other threads from running": between its return
\* and PR_ResumeAll every other collectable thread is off the run queue, or is
\* blocked and marked so that nothing can make it runnable.
WorldIsStopped ==
  gcPhase = "stopped" =>
    \A u \in GcAble \ {suspendAllThread} :
      state[u] = "SUSPENDED" \/ (state[u] = "LOCK_WAIT" /\ suspending[u])

\* A thread leaves _PR_LOCK_WAIT only by being given the lock it waits for
\* (PR_Lock: "when we are here after the context switch, we better own the
\* lock"), and is first in its queue when that happens.
WokenThreadOwnsLock ==
  [][\A t \in Threads :
       state[t] = "LOCK_WAIT" /\ state'[t] # "LOCK_WAIT" =>
         LET l == waitLock[t]
         IN  owner'[l] = t /\ Head(waitQ[l]) = t]_vars

\* A lock changes hands only when its owner, running, gives it up: no resume,
\* suspension or scheduling decision takes a lock away from a thread.
OnlyOwnerGivesUp ==
  [][\A l \in Locks :
       owner[l] # NoThread /\ owner'[l] # owner[l] =>
         state[owner[l]] = "RUNNING"]_vars

\* While the world is stopped no stopped thread is given a lock, whatever the
\* native threads that keep running do.
StoppedThreadsGetNoLock ==
  [][gcPhase = "stopped" =>
       \A l \in Locks : owner'[l] # owner[l] =>
         owner'[l] \notin GcAble \ {suspendAllThread}]_vars

\* Locks implement the abstract lock.
Abstract == INSTANCE AbstractLock
              WITH holder <- owner,
                   blocked <- [l \in Locks |-> Range(waitQ[l])]

ImplementsAbstractLock == Abstract!ASpec

-----------------------------------------------------------------------------
(* Liveness, under the fairness stated in PrCondVar.                        *)

\* If collections stop, a thread blocked on a lock gets it.
WaiterIsServed ==
  <>[](suspendAllThread = NoThread) =>
    \A t \in Threads : state[t] = "LOCK_WAIT" ~> state[t] # "LOCK_WAIT"

\* PR_ResumeAll "unblocks all other threads that were suspended": a thread that
\* a collection stopped or marked is released by the end of that collection,
\* although its lock may be given up, and asked for, in the meantime.
StoppedThreadIsReleased == \A t \in GcAble : Stopped(t) ~> ~Stopped(t)
=============================================================================
