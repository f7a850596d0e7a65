-------------------------------- MODULE PrSem --------------------------------
(***************************************************************************)
(* NSPR's counting semaphore, prsem.c: a count and a number of waiters      *)
(* under the lock of a condition variable.                                 *)
(***************************************************************************)
EXTENDS CvClient, Integers

CONSTANTS SemLock,    \* sem->cvar->lock
          SemCvar,    \* sem->cvar
          SemValue,   \* the argument of PR_NewSem
          MaxCount    \* bound: no post beyond this count

ASSUME SemAssumption == /\ SemCvar \in CVars /\ CvLock[SemCvar] = SemLock
                        /\ MaxCount \in Nat /\ SemValue \in 0..MaxCount

VARIABLES count,      \* sem->count
          waiters,    \* sem->waiters
          posted,     \* history: threads a post has woken for a count
          swallowed   \* history: such threads that gave up, since count was 0

semVars == <<count, waiters, posted, swallowed>>

SemPcs == {"semTest", "semWait", "semDone", "post", "postDone"}

SemInit == /\ count = SemValue
           /\ waiters = 0
           /\ posted = {}
           /\ swallowed = 0

-----------------------------------------------------------------------------
(* Slips.                                                                  *)

\* PR_PostSem notifies only when the count was 0.
SlipNotifyFirst == waiters > 0 /\ count = 0

-----------------------------------------------------------------------------
(* PR_WaitSem.                                                             *)

Swallow(n) == swallowed' = IF count' = 0 THEN 0 ELSE n

WaitSem(t) == /\ Lock(t, SemLock, "run", "semTest")
              /\ UNCHANGED semVars

TakeCount(t) == /\ Continue(t, "semTest", "semDone")
                /\ count > 0
                /\ count' = count - 1
                /\ posted' = posted \ {t}
                /\ Swallow(swallowed)
                /\ UNCHANGED waiters

SemWaits(t) == /\ count = 0
               /\ Wait(t, SemCvar, "semTest", "semWait")
               /\ waiters' = waiters + 1
               /\ posted' = posted \ {t}
               /\ UNCHANGED <<count, swallowed>>

\* The wait is refused: waiters goes up and down again, and the loop ends.
SemRefused(t) == /\ count = 0
                 /\ WaitFails(t, SemCvar, "semTest", "semDone")
                 /\ posted' = posted \ {t}
                 /\ UNCHANGED <<count, waiters, swallowed>>

SemWaitEnds(t) == /\ WaitEnds(t, "semWait", IF interrupted[t] THEN "semDone"
                                                              ELSE "semTest")
                  /\ waiters' = waiters - 1

\* The count is tested again.
SemWoken(t) == /\ SemWaitEnds(t)
               /\ ~interrupted[t]
               /\ UNCHANGED <<count, posted, swallowed>>

\* The wait has failed: no count is taken, even if a post came first.
SemInterrupted(t) == /\ SemWaitEnds(t)
                     /\ interrupted[t]
                     /\ posted' = posted \ {t}
                     /\ swallowed' = IF t \in posted /\ count > 0
                                     THEN swallowed + 1 ELSE swallowed
                     /\ UNCHANGED count

WaitSemReturns(t) == /\ Unlock(t, SemLock, "semDone", "run")
                     /\ UNCHANGED semVars

-----------------------------------------------------------------------------
(* PR_PostSem.                                                             *)

PostSem(t) == /\ count < MaxCount
              /\ Lock(t, SemLock, "run", "post")
              /\ UNCHANGED semVars

MustNotify == waiters > 0

\* Whom the step wakes.
Woken == {u \in Waiting(SemCvar) : phase'[u] = "woken"}

PostCounts(t) == /\ At(t, "post")
                 /\ IF MustNotify THEN Notify(t, SemCvar) ELSE UNCHANGED acvVars
                 /\ count' = count + 1
                 /\ posted' = posted \cup Woken
                 /\ GoTo(t, "postDone")
                 /\ UNCHANGED <<waiters, swallowed>>

PostSemReturns(t) == /\ Unlock(t, SemLock, "postDone", "run")
                     /\ UNCHANGED semVars

-----------------------------------------------------------------------------
SemGoesOn(t) == \/ TakeCount(t) \/ SemWaits(t) \/ SemRefused(t)
                \/ SemWoken(t) \/ SemInterrupted(t) \/ WaitSemReturns(t)
                \/ PostCounts(t) \/ PostSemReturns(t)

SemTypeOK == /\ count \in 0..MaxCount
             /\ waiters \in 0..Cardinality(Threads)
             /\ posted \subseteq Threads
             /\ swallowed \in Nat

\* PR_PostSem unblocks "ONE thread" for each unit it adds: as long as a thread
\* waits, every unit of the count has a thread on its way to take it.  The only
\* exception are units whose thread was interrupted before it ran.
UnitsHaveTakers ==
  Waiting(SemCvar) # {} => count <= Cardinality(posted) + swallowed
=============================================================================
