------------------------------ MODULE PrThread ------------------------------
(***************************************************************************)
(* The life of NSPR's threads, pruthr.c: creation with reuse of dead        *)
(* threads, the active list and the count of user threads, exit, join, and  *)
(* the primordial thread's PR_Cleanup (prinit.c).                           *)
(*                                                                         *)
(* A thread of the pool stands for a PRThread object.  It is created, runs   *)
(* and exits, and is then destroyed or kept for reuse.                     *)
(***************************************************************************)
EXTENDS CvClient, Integers, Sequences

CONSTANTS Main,             \* the primordial thread
          RecycleThreads,   \* the argument of PR_SetThreadRecycleMode
          ActiveLock,       \* _pr_activeLock
          TermLock,         \* _pr_terminationCVLock
          ExitCvar,         \* _pr_primordialExitCVar
          Term              \* thread.term of a joinable thread

Pool == Threads \ {Main}

ASSUME ThreadAssumption ==
  /\ IsFiniteSet(Threads) /\ Main \in Threads
  /\ TermLock \in Locks
  /\ RecycleThreads \in Nat
  /\ ExitCvar \in CVars /\ CvLock[ExitCvar] = ActiveLock
  /\ \A t \in Pool : Term[t] \in CVars /\ CvLock[Term[t]] = TermLock

VARIABLES state,        \* PRThread.state
          joinable,     \* PRThread.term # NULL
          active,       \* the active lists
          userActive,   \* _pr_userActive
          deadQ,        \* the dead threads kept for reuse
          recycling,    \* _pr_recycleThreads
          target,       \* the thread a creator or a joiner is busy with
          joiner        \* who will join a thread: its creator

thrVars == <<state, joinable, active, userActive, deadQ, recycling, target, joiner>>

States == {"NONE", "RUNNABLE", "JOIN_WAIT", "DEAD"}

\* Where a thread is in creating another, in its own life, in joining, and
\* where the primordial thread is in PR_Cleanup.
CreatePcs == {"createLock", "createCount", "createStart", "failCount", "failDone"}
LifePcs   == {"none", "created", "enter", "leave", "ended", "endNotify",
              "endUnlock", "parked", "decr", "decrCount", "decrDone", "dead",
              "recycle"}
JoinPcs   == {"join", "joinTest", "joinWait", "joined"}
MainPcs   == {"cleanup", "cleanupTest", "cleanupWait", "exited"}

ThrInit == /\ state = [t \in Threads |-> IF t = Main THEN "RUNNABLE" ELSE "NONE"]
           /\ joinable = [t \in Threads |-> FALSE]
           /\ active = {Main}
           /\ userActive = 1
           /\ deadQ = << >>
           /\ recycling = RecycleThreads
           /\ target = [t \in Threads |-> NoThread]
           /\ joiner = [t \in Threads |-> NoThread]
           /\ pc = [t \in Threads |-> IF t = Main THEN "run" ELSE "none"]

\* _pr_primordialExitCount, for a primordial thread that is a user thread.
primordialExitCount == 1

-----------------------------------------------------------------------------
(* Slips.                                                                  *)

\* _PR_NotifyJoinWaiters leaves the joiner to find the state by itself.
SlipNoTell(t) == UNCHANGED acvVars

\* _PR_DecrActiveThreadCount is called before the thread waits to be joined.
SlipNoPark(t) == Unlock(t, TermLock, "endUnlock", "decr")

\* The count goes up when the new thread enters its start function.
SlipNoCount == UNCHANGED userActive

\* The last thread does not notify PR_Cleanup.
SlipNoNotify(t) == UNCHANGED acvVars

-----------------------------------------------------------------------------
(* _PR_CreateThread.                                                       *)

\* A dead thread is taken for reuse, ...
CreateRecycled(me, j) ==
  /\ Continue(me, "run", "createLock")
  /\ deadQ # << >>
  /\ target' = [target EXCEPT ![me] = Head(deadQ)]
  /\ deadQ' = Tail(deadQ)
  /\ joinable' = [joinable EXCEPT ![Head(deadQ)] = j]
  /\ UNCHANGED <<state, active, userActive, recycling, joiner>>

\* ... or, if there is none, a new object is allocated.
CreateFresh(me, u, j) ==
  /\ Continue(me, "run", "createLock")
  /\ deadQ = << >>
  /\ pc[u] = "none" /\ state[u] = "NONE" /\ \A t \in Threads : target[t] # u
  /\ target' = [target EXCEPT ![me] = u]
  /\ joinable' = [joinable EXCEPT ![u] = j]
  /\ UNCHANGED <<state, active, userActive, deadQ, recycling, joiner>>

CreateLocks(me) == /\ Lock(me, ActiveLock, "createLock", "createCount")
                   /\ UNCHANGED thrVars

CountUp == userActive' = userActive + 1

CreateCounts(me) == /\ Unlock(me, ActiveLock, "createCount", "createStart")
                    /\ CountUp
                    /\ UNCHANGED <<state, joinable, active, deadQ, recycling,
                                   target, joiner>>

\* The new thread may run.  Its creator is the one that will join it.
CreateStarts(me) ==
  LET u == target[me]
  IN  /\ At(me, "createStart")
      /\ pc' = [pc EXCEPT ![me] = "run", ![u] = "created"]
      /\ state' = [state EXCEPT ![u] = "RUNNABLE"]
      /\ target' = [target EXCEPT ![me] = NoThread]
      /\ joiner' = [joiner EXCEPT ![u] = IF joinable[u] THEN me ELSE NoThread]
      /\ UNCHANGED <<acvVars, joinable, active, userActive, deadQ, recycling>>

\* There is no kernel thread for a new object: the count is taken back.
CreateFails(me) == /\ Lock(me, ActiveLock, "createStart", "failCount")
                   /\ state[target[me]] = "NONE"
                   /\ UNCHANGED thrVars

\* _PR_DecrActiveThreadCount, for both of its callers.
NotifyLast(t) == IF userActive - 1 = primordialExitCount
                 THEN Notify(t, ExitCvar)
                 ELSE UNCHANGED acvVars

CountDown(t, from, to) == /\ At(t, from)
                          /\ userActive' = userActive - 1
                          /\ NotifyLast(t)
                          /\ GoTo(t, to)
                          /\ UNCHANGED <<state, joinable, active, deadQ,
                                         recycling, target, joiner>>

FailCounts(me) == CountDown(me, "failCount", "failDone")

FailReturns(me) == /\ Unlock(me, ActiveLock, "failDone", "run")
                   /\ joinable' = [joinable EXCEPT ![target[me]] = FALSE]
                   /\ target' = [target EXCEPT ![me] = NoThread]
                   /\ UNCHANGED <<state, active, userActive, deadQ, recycling,
                                  joiner>>

-----------------------------------------------------------------------------
(* _PR_UserRunThread and _PR_NativeRunThread: one life of a thread.         *)

Begin(t) == Lock(t, ActiveLock, "created", "enter") /\ UNCHANGED thrVars

\* On the active list, the thread runs its start function.
Enter(t) == /\ Unlock(t, ActiveLock, "enter", "run")
            /\ active' = active \cup {t}
            /\ UNCHANGED <<state, joinable, userActive, deadQ, recycling,
                           target, joiner>>

\* The start function returns.
Exit(t) == /\ t \in Pool
           /\ Lock(t, ActiveLock, "run", "leave")
           /\ UNCHANGED thrVars

Delist(t) == active' = active \ {t}

Leave(t) == /\ Unlock(t, ActiveLock, "leave", "ended")
            /\ Delist(t)
            /\ UNCHANGED <<state, joinable, userActive, deadQ, recycling,
                           target, joiner>>

\* _PR_NotifyJoinWaiters: a thread without a term goes on at once.
NobodyJoins(t) == /\ ~joinable[t]
                  /\ Continue(t, "ended", "decr")
                  /\ UNCHANGED thrVars

EndsJoinable(t) == /\ joinable[t]
                   /\ Lock(t, TermLock, "ended", "endNotify")
                   /\ UNCHANGED thrVars

TellJoiner(t) == Notify(t, Term[t])

NotifyJoiner(t) == /\ At(t, "endNotify")
                   /\ state' = [state EXCEPT ![t] = "JOIN_WAIT"]
                   /\ TellJoiner(t)
                   /\ GoTo(t, "endUnlock")
                   /\ UNCHANGED <<joinable, active, userActive, deadQ,
                                  recycling, target, joiner>>

Parks(t) == Unlock(t, TermLock, "endUnlock", "parked")

Park(t) == Parks(t) /\ UNCHANGED thrVars

DecrLocks(t) == Lock(t, ActiveLock, "decr", "decrCount") /\ UNCHANGED thrVars

DecrCounts(t) == CountDown(t, "decrCount", "decrDone")

DecrUnlocks(t) == Unlock(t, ActiveLock, "decrDone", "dead") /\ UNCHANGED thrVars

\* _PR_DEAD_STATE: is there room for one more thread to reuse?
Die(t) == /\ Continue(t, "dead", IF Len(deadQ) < recycling THEN "recycle" ELSE "none")
          /\ state' = [state EXCEPT ![t] = IF Len(deadQ) < recycling
                                           THEN "DEAD" ELSE "NONE"]
          /\ joinable' = [joinable EXCEPT ![t] = @ /\ Len(deadQ) < recycling]
          /\ UNCHANGED <<active, userActive, deadQ, recycling, target, joiner>>

RecycleThread(t) == /\ Continue(t, "recycle", "none")
                    /\ deadQ' = Append(deadQ, t)
                    /\ UNCHANGED <<state, joinable, active, userActive,
                                   recycling, target, joiner>>

-----------------------------------------------------------------------------
(* PR_JoinThread.                                                          *)

\* The queue of term holds a waiting thread until it runs again.
JoinQueued(u) == {t \in Threads : on[t] = Term[u] /\ phase[t] \in {"waiting", "woken"}}

\* Both tests of term are made without the lock.
JoinBegins(me, u) == /\ joinable[u]
                     /\ JoinQueued(u) = {}
                     /\ Continue(me, "run", "join")
                     /\ target' = [target EXCEPT ![me] = u]
                     /\ UNCHANGED <<state, joinable, active, userActive, deadQ,
                                    recycling, joiner>>

JoinThread(me, u) == joiner[u] = me /\ JoinBegins(me, u)

JoinLocks(me) == Lock(me, TermLock, "join", "joinTest") /\ UNCHANGED thrVars

JoinWaits(me) == /\ At(me, "joinTest")
                 /\ state[target[me]] # "JOIN_WAIT"
                 /\ \/ Wait(me, Term[target[me]], "joinTest", "joinWait")
                    \/ WaitFails(me, Term[target[me]], "joinTest", "joinTest")
                 /\ UNCHANGED thrVars

JoinWoken(me) == WaitEnds(me, "joinWait", "joinTest") /\ UNCHANGED thrVars

JoinSees(me) == /\ Unlock(me, TermLock, "joinTest", "joined")
                /\ state[target[me]] = "JOIN_WAIT"

JoinUnlocks(me) == JoinSees(me) /\ UNCHANGED thrVars

\* Without the lock the joiner makes the thread runnable, to end.
JoinReturns(me) ==
  LET u == target[me]
  IN  /\ At(me, "joined")
      /\ state' = [state EXCEPT ![u] = "RUNNABLE"]
      /\ pc' = [t \in Threads |-> CASE t = me -> "run"
                                    [] t = u /\ pc[u] = "parked" -> "decr"
                                    [] OTHER -> pc[t]]
      /\ target' = [target EXCEPT ![me] = NoThread]
      /\ joiner' = [joiner EXCEPT ![u] = NoThread]
      /\ UNCHANGED <<acvVars, joinable, active, userActive, deadQ, recycling>>

-----------------------------------------------------------------------------
(* PR_Cleanup.                                                             *)

Cleanup == /\ Continue(Main, "run", "cleanup")
           /\ recycling' = 0
           /\ UNCHANGED <<state, joinable, active, userActive, deadQ, target,
                          joiner>>

CleanupLocks == Lock(Main, ActiveLock, "cleanup", "cleanupTest") /\ UNCHANGED thrVars

CleanupWaits == /\ userActive > primordialExitCount
                /\ \/ Wait(Main, ExitCvar, "cleanupTest", "cleanupWait")
                   \/ WaitFails(Main, ExitCvar, "cleanupTest", "cleanupTest")
                /\ UNCHANGED thrVars

CleanupWoken == WaitEnds(Main, "cleanupWait", "cleanupTest") /\ UNCHANGED thrVars

CleanupReturns == /\ userActive <= primordialExitCount
                  /\ Unlock(Main, ActiveLock, "cleanupTest", "exited")
                  /\ UNCHANGED thrVars

-----------------------------------------------------------------------------
Creates(t, j) == CreateRecycled(t, j) \/ \E u \in Pool : CreateFresh(t, u, j)

Joins(t) == \E u \in Pool : JoinThread(t, u)

ThrGoesOn(t) ==
  \/ CreateLocks(t) \/ CreateCounts(t) \/ CreateStarts(t)
  \/ CreateFails(t) \/ FailCounts(t) \/ FailReturns(t)
  \/ Begin(t) \/ Enter(t)
  \/ Leave(t) \/ NobodyJoins(t) \/ EndsJoinable(t) \/ NotifyJoiner(t) \/ Park(t)
  \/ DecrLocks(t) \/ DecrCounts(t) \/ DecrUnlocks(t) \/ Die(t) \/ RecycleThread(t)
  \/ JoinLocks(t) \/ JoinWaits(t) \/ JoinWoken(t) \/ JoinUnlocks(t) \/ JoinReturns(t)

MainGoesOn == CleanupLocks \/ CleanupWaits \/ CleanupWoken \/ CleanupReturns

-----------------------------------------------------------------------------
(* Correctness.                                                            *)

ThrTypeOK == /\ state \in [Threads -> States]
             /\ joinable \in [Threads -> BOOLEAN]
             /\ active \subseteq Threads
             /\ userActive \in 0..Cardinality(Threads)
             /\ deadQ \in Seq(Pool)
             /\ recycling \in {0, RecycleThreads}
             /\ target \in [Threads -> Pool \cup {NoThread}]
             /\ joiner \in [Threads -> Threads \cup {NoThread}]

\* A thread outside its start function: it has not entered it yet or has left.
Outside(t) == pc[t] \in LifePcs

\* PR_Cleanup "blocks the primordial thread until all the other user threads
\* have terminated": none of them runs or can start to run any more.
CleanupIsLast ==
  pc[Main] = "exited" =>
    \A t \in Pool : pc[t] \in {"none", "decrDone", "dead", "recycle"}

\* PR_JoinThread reads and writes the thread it is given: the object is neither
\* destroyed nor reused, and its thread does not go on, before the join is over.
JoinedThreadsExist ==
  \A me \in Threads : pc[me] \in JoinPcs =>
    /\ pc[target[me]] \notin {"none", "decr", "decrCount", "decrDone", "dead",
                              "recycle"}
    /\ pc[me] = "joined" => pc[target[me]] = "parked"

\* A join returns when its thread ends, unless interrupts never stop: each makes
\* PR_WaitCondVar fail, and the loop try again.
JoinReturnsInTime ==
  <>[]NoInterrupts =>
    \A t \in Threads :
      pc[t] \in JoinPcs /\ pc[target[t]] = "ended" ~> pc[t] = "run"

\* PR_Cleanup is told that the threads have ended, whichever of them, or of the
\* creations that failed, counted down last, and before or after it waits.
CleanupCompletes ==
  <>[](NoInterrupts /\ \A t \in Pool : Outside(t) /\ pc[t] # "parked") =>
    (pc[Main] \in MainPcs ~> pc[Main] = "exited")
=============================================================================
