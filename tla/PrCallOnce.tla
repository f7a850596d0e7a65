----------------------------- MODULE PrCallOnce -----------------------------
(***************************************************************************)
(* PR_CallOnce, prinit.c: the first caller runs the function, the others    *)
(* wait until it is done.  All objects share one lock and one condition.    *)
(***************************************************************************)
EXTENDS CvClient, Integers

CONSTANTS Onces,      \* the PRCallOnceTypes
          InitLock,   \* mod_init.ml
          InitCvar,   \* mod_init.cv
          NoOnce      \* "calls none"

ASSUME OnceAssumption == /\ InitCvar \in CVars /\ CvLock[InitCvar] = InitLock
                         /\ NoOnce \notin Onces

VARIABLES inProgress,    \* once->inProgress
          initialized,   \* once->initialized
          status,        \* once->status: whether the function has set it
          once,          \* the argument of the call a thread is in
          ran            \* history: who ran the function of an object

onceVars == <<inProgress, initialized, status, once, ran>>

OncePcs == {"onceClaim", "onceFunc", "oncePublish", "onceNotify", "onceLock",
            "onceTest", "onceWait", "onceDone", "onceStatus"}

OnceInit == /\ inProgress = [o \in Onces |-> FALSE]
            /\ initialized = [o \in Onces |-> FALSE]
            /\ status = [o \in Onces |-> FALSE]
            /\ once = [t \in Threads |-> NoOnce]
            /\ ran = [o \in Onces |-> {}]

-----------------------------------------------------------------------------
(* Slips.                                                                  *)

\* PR_NotifyCondVar in the place of PR_NotifyAllCondVar.
SlipNotifyOne(t) == Notify(t, InitCvar)

\* PR_AtomicSet becomes a test and an assignment.
SlipTestOnly(o) == UNCHANGED inProgress

-----------------------------------------------------------------------------
\* The first test of initialized, without the lock.
CallOnce(t, o) == /\ ~initialized[o]
                  /\ once' = [once EXCEPT ![t] = o]
                  /\ Continue(t, "run", "onceClaim")
                  /\ UNCHANGED <<inProgress, initialized, status, ran>>

CallOnceAgain(t, o) == /\ initialized[o]
                       /\ once' = [once EXCEPT ![t] = o]
                       /\ Continue(t, "run", "onceStatus")
                       /\ UNCHANGED <<inProgress, initialized, status, ran>>

SetInProgress(o) == inProgress' = [inProgress EXCEPT ![o] = TRUE]

\* PR_AtomicSet(&once->inProgress, 1) tells the callers apart.
Claim(t) == /\ At(t, "onceClaim")
            /\ Continue(t, "onceClaim", IF inProgress[once[t]] THEN "onceLock"
                                                              ELSE "onceFunc")
            /\ SetInProgress(once[t])
            /\ UNCHANGED <<initialized, status, once, ran>>

\* The function returns.
CallFunc(t) == /\ Continue(t, "onceFunc", "oncePublish")
               /\ status' = [status EXCEPT ![once[t]] = TRUE]
               /\ ran' = [ran EXCEPT ![once[t]] = @ \cup {t}]
               /\ UNCHANGED <<inProgress, initialized, once>>

PublishLocks(t) == /\ Lock(t, InitLock, "oncePublish", "onceNotify")
                   /\ UNCHANGED onceVars

WakeCallers(t) == NotifyAll(t, InitCvar)

Publish(t) == /\ At(t, "onceNotify")
              /\ WakeCallers(t)
              /\ initialized' = [initialized EXCEPT ![once[t]] = TRUE]
              /\ GoTo(t, "onceDone")
              /\ UNCHANGED <<inProgress, status, once, ran>>

AwaitLocks(t) == Lock(t, InitLock, "onceLock", "onceTest") /\ UNCHANGED onceVars

Await(t) == /\ At(t, "onceTest")
            /\ ~initialized[once[t]]
            /\ \/ Wait(t, InitCvar, "onceTest", "onceWait")
               \/ WaitFails(t, InitCvar, "onceTest", "onceTest")
            /\ UNCHANGED onceVars

\* Whatever ended the wait, initialized is tested again.
AwaitEnds(t) == WaitEnds(t, "onceWait", "onceTest") /\ UNCHANGED onceVars

SeeInitialized(t) == /\ Continue(t, "onceTest", "onceDone")
                     /\ initialized[once[t]]
                     /\ UNCHANGED onceVars

OnceUnlocks(t) == Unlock(t, InitLock, "onceDone", "onceStatus") /\ UNCHANGED onceVars

\* return once->status, read without the lock.
CallOnceReturns(t) == /\ Continue(t, "onceStatus", "run")
                      /\ once' = [once EXCEPT ![t] = NoOnce]
                      /\ UNCHANGED <<inProgress, initialized, status, ran>>

-----------------------------------------------------------------------------
OnceBegins(t, o) == CallOnce(t, o) \/ CallOnceAgain(t, o)

OnceGoesOn(t) == \/ Claim(t) \/ CallFunc(t) \/ PublishLocks(t) \/ Publish(t)
                 \/ AwaitLocks(t) \/ Await(t) \/ AwaitEnds(t) \/ SeeInitialized(t)
                 \/ OnceUnlocks(t) \/ CallOnceReturns(t)

OnceTypeOK == /\ inProgress \in [Onces -> BOOLEAN]
              /\ initialized \in [Onces -> BOOLEAN]
              /\ status \in [Onces -> BOOLEAN]
              /\ once \in [Threads -> Onces \cup {NoOnce}]
              /\ ran \in [Onces -> SUBSET Threads]

\* The function of an object runs in one thread only, however many call at
\* once; and every caller, also one that was interrupted or woken for another
\* object, or that took the path without the lock, returns the status it set.
FuncRunsOnce ==
  /\ \A o \in Onces : Cardinality(ran[o]) <= 1
  /\ \A t \in Threads : pc[t] = "onceStatus" => status[once[t]]

\* Everybody who calls returns once the function has: no caller of any object
\* misses the notify, whoever else waits on the condition they share.
CallersReturn ==
  <>[]NoInterrupts =>
    \A t \in Threads : pc[t] \in OncePcs ~> pc[t] = "run"
=============================================================================
