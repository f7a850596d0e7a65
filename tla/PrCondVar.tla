----------------------------- MODULE PrCondVar -----------------------------
(***************************************************************************)
(* NSPR's condition variables on top of its locks: prucv.c, the timed wait  *)
(* of md/unix/irix.c for native threads, and PR_Interrupt (prcthr.c).       *)
(*                                                                         *)
(* Notification, timeout, interrupt and suspension all reach for the same   *)
(* blocked thread.  wait.cvar says whether it has been spoken for, and the   *)
(* thread takes itself off the condition's queue only once it runs again.   *)
(***************************************************************************)
EXTENDS PrLock, SequencesExt

CONSTANTS CVars,          \* the PRCondVars
          CvLock,         \* PRCondVar.lock
          Interrupts,     \* pairs: who calls PR_Interrupt for whom
          TimedWaiters,   \* the threads that wait with a timeout
          Nesting,        \* those that take a lock while they own one
          NoCvar          \* the null PRCondVar *

ASSUME CVarsAssumption == /\ CvLock \in [CVars -> Locks]
                          /\ NoCvar \notin CVars
                          /\ Interrupts \subseteq Threads \X Threads
                          /\ TimedWaiters \subseteq Threads
                          /\ Nesting \subseteq Threads

VARIABLES condQ,          \* PRCondVar.condQ, a list of threads
          waitCvar,       \* PRThread.wait.cvar
          timed,          \* threads with a timer running: the sleepQ of the
                          \* processor, a semaphore with timeout if native
          interrupted,    \* PRThread.flags & _PR_INTERRUPT
          pc,             \* where a thread is in _PR_WaitCondVar or PR_Interrupt
          waitingOn,      \* the cvar argument of its _PR_WaitCondVar
          victim          \* the thread its PR_Interrupt is waking

cvVars == <<condQ, waitCvar, timed, interrupted, pc, waitingOn, victim>>
allVars == <<vars, cvVars>>

\* idle: in neither call.  unlock: queued, before PR_Unlock(lock).  wait: in
\* _PR_MD_WAIT.  relock: awake, before PR_Lock(lock).  return: in or after
\* that PR_Lock.  interrupt: between the two halves of PR_Interrupt.
Pcs == {"idle", "unlock", "wait", "relock", "return", "interrupt"}

CvInit == /\ Init
          /\ condQ = [c \in CVars |-> << >>]
          /\ waitCvar = [t \in Threads |-> NoCvar]
          /\ timed = {}
          /\ interrupted = [t \in Threads |-> FALSE]
          /\ pc = [t \in Threads |-> "idle"]
          /\ waitingOn = [t \in Threads |-> NoCvar]
          /\ victim = [t \in Threads |-> NoThread]

-----------------------------------------------------------------------------
(* Slips: versions of definitions below that forget something.  Nothing     *)
(* uses them; with one of them in place a property of this module fails.    *)

\* _PR_NotifyThread does not test _PR_SUSPENDING.
SlipWakeMarked(u) == IF u \in Local THEN "RUNNABLE" ELSE "RUNNING"

\* _PR_NotifyThread leaves wait.cvar as it is.
SlipKeepCvar(us) ==
  /\ state' = [u \in Threads |-> IF u \in us /\ u \in Local THEN "RUNNABLE"
                                 ELSE IF u \in us THEN "RUNNING" ELSE state[u]]
  /\ timed' = timed \ us
  /\ UNCHANGED waitCvar

\* ... or the thread on the sleep queue.
SlipKeepTimer(us) ==
  /\ waitCvar' = [u \in Threads |-> IF u \in us THEN NoCvar ELSE waitCvar[u]]
  /\ state' = [u \in Threads |-> IF u \in us /\ u \in Local THEN "RUNNABLE"
                                 ELSE IF u \in us THEN "RUNNING" ELSE state[u]]
  /\ UNCHANGED timed

\* _PR_NotifyCondVar takes the first thread of the queue, notified or not.
SlipNotifyAgain(c) == DOMAIN condQ[c]

-----------------------------------------------------------------------------
(* Helpers.                                                                *)

\* The processor is inside a section that runs with interrupts off.
InterruptsOff == \E t \in Local : pc[t] \in {"unlock", "interrupt"}

GoTo(t, label) == pc' = [pc EXCEPT ![t] = label]

\* t runs and is in none of this module's calls.
Free(t) == state[t] = "RUNNING" /\ pc[t] = "idle"

\* _PR_NotifyThread of every thread in us, each of which still waits: a
\* suspended one will be made runnable by _PR_Resume.
WakeState(u) == CASE suspending[u] -> "SUSPENDED"
                  [] ~suspending[u] /\ u \in Local -> "RUNNABLE"
                  [] ~suspending[u] /\ u \in Native -> "RUNNING"

NotifyThreads(us) ==
  /\ waitCvar' = [u \in Threads |-> IF u \in us THEN NoCvar ELSE waitCvar[u]]
  /\ state' = [u \in Threads |-> IF u \in us THEN WakeState(u) ELSE state[u]]
  /\ timed' = timed \ us

\* The places in c's queue of threads nobody has notified yet.
Notifiable(c) == {i \in DOMAIN condQ[c] : waitCvar[condQ[c][i]] # NoCvar}

FirstOf(is) == CHOOSE i \in is : \A j \in is : i <= j

-----------------------------------------------------------------------------
(* _PR_WaitCondVar.                                                        *)

\* A pending interrupt makes the wait fail at once.
WaitRefused(t, c) == /\ Free(t) /\ MayLock(t)
                     /\ owner[CvLock[c]] = t
                     /\ interrupted[t]
                     /\ interrupted' = [interrupted EXCEPT ![t] = FALSE]
                     /\ UNCHANGED <<vars, condQ, waitCvar, timed, pc, waitingOn,
                                    victim>>

\* The thread joins the queue, with or without a timeout.
WaitCondVar(t, c, hasTimeout) ==
  /\ Free(t) /\ MayLock(t)
  /\ owner[CvLock[c]] = t
  /\ ~interrupted[t]
  /\ state' = [state EXCEPT ![t] = "COND_WAIT"]
  /\ waitCvar' = [waitCvar EXCEPT ![t] = c]
  /\ waitingOn' = [waitingOn EXCEPT ![t] = c]
  /\ condQ' = [condQ EXCEPT ![c] = Append(@, t)]
  /\ timed' = IF hasTimeout THEN timed \cup {t} ELSE timed
  /\ GoTo(t, "unlock")
  /\ UNCHANGED <<suspending, priority, waitLock, lockVars, gcVars, interrupted,
                 victim>>

\* PR_Unlock(lock), and on to _PR_MD_WAIT.  A native thread may have notified
\* t already.
WaitUnlocks(t) == /\ pc[t] = "unlock"
                  /\ Release(CvLock[waitingOn[t]])
                  /\ GoTo(t, "wait")
                  /\ UNCHANGED <<suspending, priority, gcVars, condQ, waitCvar,
                                 timed, interrupted, waitingOn, victim>>

\* Awake again: PR_REMOVE_LINK takes the thread off the queue.
WaitWakes(t) == /\ pc[t] = "wait"
                /\ state[t] = "RUNNING"
                /\ condQ' = [condQ EXCEPT ![waitingOn[t]] = RemoveFirst(@, t)]
                /\ GoTo(t, "relock")
                /\ UNCHANGED <<vars, waitCvar, timed, interrupted, waitingOn,
                               victim>>

\* PR_Lock(lock).
WaitRelocks(t) == /\ pc[t] = "relock"
                  /\ PR_Lock(t, CvLock[waitingOn[t]])
                  /\ GoTo(t, "return")
                  /\ UNCHANGED <<condQ, waitCvar, timed, interrupted, waitingOn,
                                 victim>>

\* A pending interrupt is reported, once, by the failure of the wait.
WaitReturns(t) == /\ pc[t] = "return"
                  /\ state[t] = "RUNNING"
                  /\ interrupted' = [interrupted EXCEPT ![t] = FALSE]
                  /\ waitingOn' = [waitingOn EXCEPT ![t] = NoCvar]
                  /\ GoTo(t, "idle")
                  /\ UNCHANGED <<vars, condQ, waitCvar, timed, victim>>

-----------------------------------------------------------------------------
(* Notification and timeout.                                               *)

\* PR_NotifyCondVar: the first thread of the queue that still waits.
PR_NotifyCondVar(t, c) ==
  /\ Free(t) /\ MayLock(t)
  /\ owner[CvLock[c]] = t
  /\ Notifiable(c) # {}
  /\ NotifyThreads({condQ[c][FirstOf(Notifiable(c))]})
  /\ UNCHANGED <<suspending, priority, waitLock, lockVars, gcVars, condQ,
                 interrupted, pc, waitingOn, victim>>

PR_NotifyAllCondVar(t, c) ==
  /\ Free(t)
  /\ owner[CvLock[c]] = t
  /\ Notifiable(c) # {}
  /\ NotifyThreads({condQ[c][i] : i \in Notifiable(c)})
  /\ UNCHANGED <<suspending, priority, waitLock, lockVars, gcVars, condQ,
                 interrupted, pc, waitingOn, victim>>

\* _PR_ClockInterrupt takes one expired thread off the sleep queue.  It wakes
\* it unless somebody has cleared wait.cvar, and when it is marked suspends it.
ClockInterrupt(u) ==
  /\ ~InterruptsOff
  /\ u \in Local \cap timed
  /\ timed' = timed \ {u}
  /\ waitCvar' = [waitCvar EXCEPT ![u] = NoCvar]
  /\ state' = [state EXCEPT ![u] =
                 CASE suspending[u] -> "SUSPENDED"
                   [] ~suspending[u] /\ waitCvar[u] # NoCvar -> "RUNNABLE"
                   [] ~suspending[u] /\ waitCvar[u] = NoCvar -> @]
  /\ UNCHANGED <<suspending, priority, waitLock, lockVars, gcVars, condQ,
                 interrupted, pc, waitingOn, victim>>

\* _MD_wait: the semaphore of a native thread times out.  If it has been
\* notified meanwhile it waits on for the post.
NativeTimeout(u) == /\ u \in Native \cap timed
                    /\ pc[u] = "wait"
                    /\ waitCvar[u] # NoCvar
                    /\ NotifyThreads({u})
                    /\ UNCHANGED <<suspending, priority, waitLock, lockVars,
                                   gcVars, condQ, interrupted, pc, waitingOn,
                                   victim>>

-----------------------------------------------------------------------------
(* PR_Interrupt and PR_ClearInterrupt.  The collector makes no such call    *)
(* while the world is stopped.                                             *)

MayInterrupt(me, u) == /\ Free(me)
                       /\ me # suspendAllThread
                       /\ <<me, u>> \in Interrupts

\* A thread that does not wait for a condition is only flagged.
InterruptFlags(me, u) == /\ MayInterrupt(me, u)
                         /\ state[u] # "COND_WAIT"
                         /\ ~interrupted[u]
                         /\ interrupted' = [interrupted EXCEPT ![u] = TRUE]
                         /\ UNCHANGED <<vars, condQ, waitCvar, timed, pc,
                                        waitingOn, victim>>

\* _PR_NotifyLockedThread claims a waiting thread by clearing its wait.cvar,
\* then lets go of its lock.  The queue of a null wait.cvar, which only an
\* earlier claim leaves, would be an access through a null pointer.
InterruptClaims(me, u) == /\ MayInterrupt(me, u)
                          /\ state[u] = "COND_WAIT"
                          /\ waitCvar[u] # NoCvar
                          /\ interrupted' = [interrupted EXCEPT ![u] = TRUE]
                          /\ waitCvar' = [waitCvar EXCEPT ![u] = NoCvar]
                          /\ victim' = [victim EXCEPT ![me] = u]
                          /\ GoTo(me, "interrupt")
                          /\ UNCHANGED <<vars, condQ, timed, waitingOn>>

\* ... and takes it again to wake the thread: a local one whether or not it is
\* marked for suspension.
InterruptWakes(me) ==
  LET u == victim[me]
  IN  /\ pc[me] = "interrupt"
      /\ timed' = timed \ {u}
      /\ state' = [state EXCEPT ![u] = IF u \in Local THEN "RUNNABLE"
                                                      ELSE "RUNNING"]
      /\ victim' = [victim EXCEPT ![me] = NoThread]
      /\ GoTo(me, "idle")
      /\ UNCHANGED <<suspending, priority, waitLock, lockVars, gcVars, condQ,
                     waitCvar, interrupted, waitingOn>>

PR_ClearInterrupt(t) == /\ Free(t)
                        /\ interrupted[t]
                        /\ interrupted' = [interrupted EXCEPT ![t] = FALSE]
                        /\ UNCHANGED <<vars, condQ, waitCvar, timed, pc,
                                       waitingOn, victim>>

-----------------------------------------------------------------------------
(* _PR_Resume of the states that PrLock alone does not reach.              *)

ResumeCondWait(t, u) == /\ Walking(t, "resuming")
                        /\ Visit(u)
                        /\ state[u] = "COND_WAIT"
                        /\ Unmark(u)
                        /\ UNCHANGED <<state, priority, waitLock, lockVars>>

\* Nothing is done for a thread on the run queue: not even its mark goes.
ResumeRunnable(t, u) == /\ Walking(t, "resuming")
                        /\ Visit(u)
                        /\ state[u] = "RUNNABLE"
                        /\ UNCHANGED <<threadVars, lockVars>>

-----------------------------------------------------------------------------
Wait(t) == \/ \E c \in CVars : WaitRefused(t, c)
           \/ \E c \in CVars : WaitCondVar(t, c, FALSE)
           \/ \E c \in CVars : t \in TimedWaiters /\ WaitCondVar(t, c, TRUE)

\* The rest of a wait that has begun.
WaitGoesOn(t) == WaitUnlocks(t) \/ WaitWakes(t) \/ WaitRelocks(t) \/ WaitReturns(t)

Notify(t) == \E c \in CVars : PR_NotifyCondVar(t, c) \/ PR_NotifyAllCondVar(t, c)

Timeout(t) == ClockInterrupt(t) \/ NativeTimeout(t)

Interrupt(t) == \/ \E u \in Threads : InterruptFlags(t, u) \/ InterruptClaims(t, u)
                \/ InterruptWakes(t)
                \/ PR_ClearInterrupt(t)

\* The scheduler cannot run while interrupts are off.
Schedule(t) == /\ ~InterruptsOff
               /\ Dispatch(t) \/ Preempt(t)
               /\ UNCHANGED cvVars

CollectCv(t) == /\ pc[t] = "idle"
                /\ \/ Collect(t)
                   \/ \E u \in GcAble : ResumeCondWait(t, u) \/ ResumeRunnable(t, u)
                /\ UNCHANGED cvVars

\* Clients that never hold a lock while they wait for another do not block each
\* other for ever.
MayNest(t) == t \in Nesting \/ \A l \in Locks : owner[l] # t

LockCv(t) == pc[t] = "idle" /\ MayNest(t) /\ Lock(t) /\ UNCHANGED cvVars

UnlockCv(t) == pc[t] = "idle" /\ Unlock(t) /\ UNCHANGED cvVars

CvNext ==
  \/ \E t \in Local : \/ Schedule(t)
                      \/ CollectCv(t)
                      \/ pc[t] = "idle" /\ SuspendAll(t) /\ UNCHANGED cvVars
  \/ \E t \in Threads : \/ Wait(t) \/ WaitGoesOn(t) \/ Notify(t) \/ Timeout(t)
                        \/ Interrupt(t)
                        \/ LockCv(t) \/ UnlockCv(t)
                        \/ pc[t] = "idle" /\ Reprioritize(t) /\ UNCHANGED cvVars

CvSpec == CvInit /\ [][CvNext]_allVars

-----------------------------------------------------------------------------
(* Correctness.                                                            *)

CvTypeOK ==
  /\ TypeOK
  /\ condQ \in [CVars -> Seq(Threads)]
  /\ waitCvar \in [Threads -> CVars \cup {NoCvar}]
  /\ timed \subseteq Threads
  /\ interrupted \in [Threads -> BOOLEAN]
  /\ pc \in [Threads -> Pcs]
  /\ waitingOn \in [Threads -> CVars \cup {NoCvar}]
  /\ victim \in [Threads -> Threads \cup {NoThread}]

\* A thread is in the queue of the condition it called PR_WaitCondVar for,
\* once, from its wait until it has run again, whoever woke it in between.
WaitersAreInCondQueue ==
  /\ \A c \in CVars : IsInjective(condQ[c])
  /\ \A t \in Threads, c \in CVars :
       t \in Range(condQ[c]) <=> waitingOn[t] = c /\ pc[t] \in {"unlock", "wait"}

\* A thread in _PR_COND_WAIT can be woken: a notify will find it in the queue
\* with its wait.cvar set, or a PR_Interrupt that cleared it has still to wake
\* the thread.  A thread in another state is not notified a second time.
WaitersCanBeWoken ==
  /\ WaitersAreInCondQueue
  /\ \A t \in Threads :
       /\ waitCvar[t] # NoCvar => state[t] = "COND_WAIT" /\ waitCvar[t] = waitingOn[t]
       /\ state[t] = "COND_WAIT" =>
            waitCvar[t] # NoCvar \/ \E me \in Threads : victim[me] = t

\* No timer outlives the wait it was started for, so that a late timeout never
\* ends a later wait or wakes a thread that waits for a lock.
TimersBelongToWaits == \A t \in timed : state[t] = "COND_WAIT"

\* The condition variables and timers of prucv.c are in a consistent state.
CvInv == CvTypeOK /\ TimersBelongToWaits

\* A native thread interrupts u: it may do so while the world is stopped.
NativelyInterrupted(u) == \E n \in Native : <<n, u>> \in Interrupts

\* PR_SuspendAll "prevents all other threads from running", those that wait
\* for conditions included: they stay blocked, or marked, or suspended, however
\* their notifications, timeouts and interrupts by local threads fall.
CvWorldIsStopped ==
  gcPhase = "stopped" =>
    \A u \in GcAble \ {suspendAllThread} :
      \/ NativelyInterrupted(u)
      \/ state[u] = "SUSPENDED"
      \/ state[u] \in {"LOCK_WAIT", "COND_WAIT"} /\ suspending[u]

\* PR_WaitCondVar: "When the wait has finished the thread regains control of the
\* condition variable after locking the associated lock": no wake-up meant for
\* the condition reaches the thread once it is blocked in PR_Lock.
WaitReturnsWithLock ==
  [][\A t \in Threads : pc[t] = "return" /\ pc'[t] = "idle" =>
       owner[CvLock[waitingOn[t]]] = t]_allVars

\* Somebody else's view of a thread's wait: it has given the lock up as soon as
\* it is queued, and is back once it owns the lock.
HolderSeen(l) ==
  IF \E t \in Threads : owner[l] = t /\ pc[t] = "unlock" /\ CvLock[waitingOn[t]] = l
  THEN NoThread
  ELSE owner[l]

PhaseSeen(t) ==
  CASE waitingOn[t] = NoCvar -> "out"
    [] waitCvar[t] # NoCvar -> "waiting"
    [] pc[t] = "return" /\ owner[CvLock[waitingOn[t]]] = t -> "back"
    [] OTHER -> "woken"

AbstractCv == INSTANCE AbstractCondVar
                WITH holder <- [l \in Locks |-> HolderSeen(l)],
                     on <- waitingOn,
                     phase <- [t \in Threads |-> PhaseSeen(t)]

\* Queues, inner locks, timers, suspension and the two halves of an interrupt
\* together implement the condition variables that clients see: in particular a
\* notify that finds a thread waiting wakes exactly one that nothing else woke.
ImplementsCondVar == AbstractCv!ACvSpec

-----------------------------------------------------------------------------
(* Liveness.  The run queue is first-in first-out within a priority and     *)
(* every clock tick sends the running thread to its back, so a runnable     *)
(* thread runs again and again, and a native one always; a thread that runs *)
(* reaches the end of its critical section, and of its collection, wait or  *)
(* interrupt.  The two are apart: no thread interrupts others for ever while *)
(* it holds a lock.                                                        *)

\* A thread that is given the processor goes on with the call it has begun.
Advance(t) == CollectCv(t) \/ WaitGoesOn(t) \/ InterruptWakes(t)

CvFairness ==
  /\ \A t \in Local :
       /\ SF_allVars(Dispatch(t) /\ ~InterruptsOff /\ UNCHANGED cvVars)
       /\ WF_allVars(Preempt(t) /\ ~InterruptsOff /\ UNCHANGED cvVars)
  /\ \A t \in Threads : SF_allVars(UnlockCv(t)) /\ SF_allVars(Advance(t))
  /\ \A t \in TimedWaiters : SF_allVars(Timeout(t))

CvFairSpec == CvSpec /\ CvFairness

\* If collections stop, a waiter with a timer, or that was notified, interrupted
\* or timed out, returns from its wait: what woke it while the world was stopped
\* is not forgotten.
WokenWaiterReturns ==
  <>[](suspendAllThread = NoThread) =>
    \A t \in Threads :
      pc[t] = "wait" /\ (waitCvar[t] = NoCvar \/ t \in timed) ~> pc[t] = "idle"

-----------------------------------------------------------------------------
(* What comments promise.                                                  *)

\* PR_ResumeAll: "This routine unblocks all other threads that were suspended
\* from running by PR_SuspendAll()."
NobodyStaysSuspended ==
  suspendAllThread = NoThread => \A t \in Threads : ~Stopped(t)
=============================================================================
