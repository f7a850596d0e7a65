---------------------------- MODULE PrCondVarProofs ----------------------------
(***************************************************************************)
(* Proofs about PrCondVar, for any threads, locks, conditions and            *)
(* interrupts, on one condition: see NoLateTimeouts.  What is said of marks   *)
(* and collections needs another: see NoMarkedInterrupts.                   *)
(***************************************************************************)
EXTENDS PrCondVar, PrLockProofs, WellFoundedInduction

\* No native thread interrupts a thread of the processor that may wait with a
\* timeout.  One that does can be overtaken, between the halves of PR_Interrupt,
\* by the timeout; the second half then wakes a thread that waits for a lock.
NoLateTimeouts ==
  \A n \in Native, u \in Local \cap TimedWaiters : <<n, u>> \notin Interrupts

-----------------------------------------------------------------------------
(* The inductive invariant.                                                *)

\* One thread of the processor runs at a time, the suspender if there is one,
\* which holds _pr_activeLock and is in no call of prucv.c.
RunInv ==
  /\ \A t, u \in Local : state[t] = "RUNNING" /\ state[u] = "RUNNING" => t = u
  /\ suspendAllThread = NoThread <=> gcPhase = "none"
  /\ suspendAllThread # NoThread =>
       /\ \A t \in Local : state[t] = "RUNNING" => t = suspendAllThread
       /\ pc[suspendAllThread] = "idle"
       /\ owner[ActiveLock] = suspendAllThread

\* Where a thread is in its wait, and what it holds, runs or waits for there.
WaitInv ==
  \A t \in Threads :
    /\ waitingOn[t] # NoCvar <=> pc[t] \in {"unlock", "wait", "relock", "return"}
    /\ state[t] = "COND_WAIT" => pc[t] \in {"unlock", "wait"}
    /\ state[t] = "LOCK_WAIT" => pc[t] \in {"idle", "return"}
    /\ pc[t] = "interrupt" => state[t] = "RUNNING"
    /\ pc[t] = "unlock" => owner[CvLock[waitingOn[t]]] = t
    /\ pc[t] = "return" =>
         IF state[t] = "LOCK_WAIT" THEN waitLock[t] = CvLock[waitingOn[t]]
                                   ELSE owner[CvLock[waitingOn[t]]] = t

\* Who waits and has not been spoken for has its wait.cvar set.
WakeInv ==
  \A t \in Threads :
    /\ waitCvar[t] # NoCvar => state[t] = "COND_WAIT" /\ waitCvar[t] = waitingOn[t]
    /\ state[t] = "COND_WAIT" =>
         waitCvar[t] # NoCvar \/ \E me \in Threads : victim[me] = t

\* Between the halves of PR_Interrupt its victim waits and is nobody else's.
ClaimInv ==
  /\ \A me \in Threads :
       /\ victim[me] # NoThread <=> pc[me] = "interrupt"
       /\ victim[me] # NoThread => /\ state[victim[me]] = "COND_WAIT"
                                   /\ waitCvar[victim[me]] = NoCvar
                                   /\ <<me, victim[me]>> \in Interrupts
  /\ \A me, you \in Threads :
       victim[me] # NoThread /\ victim[me] = victim[you] => me = you

\* Timers run for waits with a timeout only.
TimerInv == TimersBelongToWaits /\ timed \subseteq TimedWaiters

\* Blocked or off the run queue, so that nothing makes the thread run before
\* PR_ResumeAll, unless a native thread interrupts it.
Halted(u) == \/ NativelyInterrupted(u)
             \/ state[u] = "SUSPENDED"
             \/ state[u] \in {"LOCK_WAIT", "COND_WAIT"} /\ suspending[u]

\* The walk of PR_SuspendAll halts the threads that it visits.
HaltInv ==
  /\ gcPhase = "stopped" => unvisited = {}
  /\ gcPhase \in {"suspending", "stopped"} =>
       \A u \in Suspendable(suspendAllThread) \ unvisited : Halted(u)

PlaceInv == RunInv /\ WaitInv /\ WakeInv /\ ClaimInv /\ TimerInv

CvIInv == /\ CvTypeOK /\ WaitersAreQueued
          /\ PlaceInv
          /\ WaitersAreInCondQueue
          /\ HaltInv

-----------------------------------------------------------------------------
(* The list operators of prucv.c.                                          *)

LEMMA SmallestNumber ==
  ASSUME NEW T \in SUBSET Nat, T # {}
  PROVE  \E n \in T : \A m \in T : n <= m
PROOF
  <1> DEFINE R == OpToRel(<, Nat)
  <1>1. \A m, k \in Nat : m < k => <<m, k>> \in R
    BY DEF OpToRel
  <1>2. IsWellFoundedOn(R, Nat)
    BY NatLessThanWellFounded
  <1> HIDE DEF R
  <1>3. PICK k \in T : \A m \in T : ~ (<<m, k>> \in R)
    BY <1>2, WFMin
  <1>4. \A m \in T : ~(m < k)
    BY <1>1, <1>3
  <1> QED  BY <1>4

\* The place in front of all others.
LEMMA FirstOfPlaces ==
  ASSUME NEW is \in SUBSET Nat, is # {}
  PROVE  FirstOf(is) \in is
PROOF
  BY SmallestNumber DEF FirstOf

\* PR_REMOVE_LINK of a thread that is in the queue.
LEMMA UnlinkWaiter ==
  ASSUME NEW S, NEW q \in Seq(S), IsInjective(q), NEW t \in Range(q)
  PROVE  /\ RemoveFirst(q, t) \in Seq(S)
         /\ Range(RemoveFirst(q, t)) = Range(q) \ {t}
         /\ IsInjective(RemoveFirst(q, t))
PROOF
  <1> DEFINE is == {i \in 1 .. Len(q) : q[i] = t}
             k  == Min(is)
             r  == RemoveAt(q, k)
  <1>1. Len(q) \in Nat /\ DOMAIN q = 1 .. Len(q)
    BY LenProperties
  <1>2. is # {} /\ is \in SUBSET Nat
    BY <1>1, RangeByIndex
  <1>3. k \in is
    BY <1>2, SmallestNumber DEF Min
  <1>4. RemoveFirst(q, t) = r
    BY <1>2 DEF RemoveFirst, SelectInSeq
  <1> HIDE DEF k
  <1>5. k \in 1 .. Len(q) /\ q[k] = t
    BY <1>3
  <1>5a. k \in Int /\ 1 <= k /\ k <= Len(q) /\ Len(q) \in Int
    BY <1>1, <1>5
  <1>6. /\ SubSeq(q, 1, k - 1) \in Seq(S) /\ Len(SubSeq(q, 1, k - 1)) = k - 1
        /\ \A i \in 1 .. k - 1 : SubSeq(q, 1, k - 1)[i] = q[i]
    <2>1. /\ 1 \in Int /\ k - 1 \in Int
          /\ \A i \in 1 .. k - 1 : q[i] \in S
      BY <1>1, <1>5, ElementOfSeq
    <2> QED  BY <1>1, <1>5, <2>1, SubSeqProperties
  <1>7. /\ SubSeq(q, k + 1, Len(q)) \in Seq(S)
        /\ Len(SubSeq(q, k + 1, Len(q))) = Len(q) - k
        /\ \A i \in 1 .. Len(q) - k : SubSeq(q, k + 1, Len(q))[i] = q[k + i]
    <2> DEFINE s == SubSeq(q, k + 1, Len(q))
    <2>1. /\ k + 1 \in Int /\ Len(q) \in Int
          /\ \A i \in k + 1 .. Len(q) : q[i] \in S
      BY <1>1, <1>5, ElementOfSeq
    <2>2. /\ s \in Seq(S)
          /\ Len(s) = IF k + 1 <= Len(q) THEN Len(q) - (k + 1) + 1 ELSE 0
          /\ \A i \in 1 .. Len(q) - (k + 1) + 1 : s[i] = q[(k + 1) + i - 1]
      BY <2>1, SubSeqProperties
    <2> HIDE DEF s
    <2>3. Len(s) = Len(q) - k
      <3>1. CASE k + 1 <= Len(q)
        <4>1. Len(s) = Len(q) - (k + 1) + 1
          BY <2>2, <3>1
        <4> QED  BY <1>1, <1>5, <4>1
      <3>2. CASE ~(k + 1 <= Len(q))
        <4>1. Len(s) = 0
          BY <2>2, <3>2
        <4>2. k = Len(q)
          BY <1>5a, <3>2
        <4> QED  BY <1>5a, <4>1, <4>2
      <3> QED  BY <3>1, <3>2
    <2>4. ASSUME NEW i \in 1 .. Len(q) - k  PROVE s[i] = q[k + i]
      <3>1. i \in 1 .. Len(q) - (k + 1) + 1 /\ (k + 1) + i - 1 = k + i
        BY <1>1, <1>5
      <3> QED  BY <2>2, <3>1
    <2> QED  BY <2>2, <2>3, <2>4 DEF s
  <1>8. /\ r \in Seq(S) /\ Len(r) = Len(q) - 1
        /\ \A i \in 1 .. Len(q) - 1 : r[i] = IF i < k THEN q[i] ELSE q[i + 1]
    <2>1. /\ r \in Seq(S)
          /\ Len(r) = (k - 1) + (Len(q) - k)
          /\ \A i \in 1 .. (k - 1) + (Len(q) - k) :
               r[i] = IF i <= k - 1 THEN SubSeq(q, 1, k - 1)[i]
                                    ELSE SubSeq(q, k + 1, Len(q))[i - (k - 1)]
      <3> DEFINE a == SubSeq(q, 1, k - 1)
                 b == SubSeq(q, k + 1, Len(q))
      <3>1. a \in Seq(S) /\ b \in Seq(S) /\ Len(a) = k - 1 /\ Len(b) = Len(q) - k
        BY <1>6, <1>7
      <3>2. r = a \o b
        BY DEF RemoveAt
      <3> HIDE DEF a, b, r
      <3>3. /\ a \o b \in Seq(S) /\ Len(a \o b) = Len(a) + Len(b)
            /\ \A i \in 1 .. Len(a) + Len(b) :
                 (a \o b)[i] = IF i <= Len(a) THEN a[i] ELSE b[i - Len(a)]
        BY <3>1, ConcatProperties
      <3>4. /\ r \in Seq(S)
            /\ Len(r) = (k - 1) + (Len(q) - k)
            /\ \A i \in 1 .. (k - 1) + (Len(q) - k) :
                 r[i] = IF i <= k - 1 THEN a[i] ELSE b[i - (k - 1)]
        BY <3>1, <3>2, <3>3
      <3> QED  BY <3>4 DEF a, b
    <2> HIDE DEF r
    <2>2. ASSUME NEW i \in 1 .. Len(q) - 1
          PROVE  r[i] = IF i < k THEN q[i] ELSE q[i + 1]
      <3>1. CASE i < k
        BY <1>1, <1>5, <1>6, <2>1, <3>1
      <3>2. CASE i >= k
        <4>1. i - (k - 1) \in 1 .. Len(q) - k /\ k + (i - (k - 1)) = i + 1
          BY <1>1, <1>5, <3>2
        <4>2. r[i] = SubSeq(q, k + 1, Len(q))[i - (k - 1)]
          <5>1. i \in 1 .. (k - 1) + (Len(q) - k) /\ ~(i <= k - 1)
            BY <1>1, <1>5, <3>2
          <5> QED  BY <2>1, <5>1
        <4>3. SubSeq(q, k + 1, Len(q))[i - (k - 1)] = q[k + (i - (k - 1))]
          BY <1>7, <4>1
        <4> QED  BY <1>1, <1>5, <3>2, <4>1, <4>2, <4>3
      <3> QED  BY <1>1, <1>5, <3>1, <3>2
    <2> QED  BY <1>1, <1>5, <2>1, <2>2
  <1> HIDE DEF r
  <1>9. DOMAIN r = 1 .. Len(r)
    BY <1>8, LenProperties
  <1>10. Range(r) = Range(q) \ {t}
    <2>1. ASSUME NEW i \in 1 .. Len(r)  PROVE r[i] \in Range(q) \ {t}
      <3> DEFINE j == IF i < k THEN i ELSE i + 1
      <3>1. j \in 1 .. Len(q) /\ j # k /\ r[i] = q[j]
        BY <1>1, <1>5, <1>8
      <3>2. q[j] # q[k]
        BY <3>1, <1>1, <1>5 DEF IsInjective
      <3> QED  BY <3>1, <3>2, <1>5, RangeByIndex
    <2>2. ASSUME NEW j \in 1 .. Len(q), q[j] # t  PROVE q[j] \in Range(r)
      <3> DEFINE i == IF j < k THEN j ELSE j - 1
      <3>1. i \in 1 .. Len(r) /\ r[i] = q[j]
        BY <1>1, <1>5, <1>8, <2>2
      <3> QED  BY <3>1, <1>8, RangeByIndex
    <2> QED  BY <2>1, <2>2, <1>8, RangeByIndex
  <1>11. IsInjective(r)
    <2> SUFFICES ASSUME NEW i \in 1 .. Len(r), NEW j \in 1 .. Len(r), r[i] = r[j]
                 PROVE  i = j
      BY <1>9 DEF IsInjective
    <2> DEFINE p(n) == IF n < k THEN n ELSE n + 1
    <2>1. p(i) \in 1 .. Len(q) /\ p(j) \in 1 .. Len(q) /\ q[p(i)] = q[p(j)]
      BY <1>1, <1>5, <1>8
    <2>2. p(i) = p(j)
      BY <2>1, <1>1 DEF IsInjective
    <2> QED  BY <1>1, <1>5, <1>8, <2>2
  <1> QED  BY <1>4, <1>8, <1>10, <1>11

-----------------------------------------------------------------------------
(* What the invariant's parts depend on.                                    *)

\* The queues of the conditions follow waitingOn and the two labels.
LEMMA CondQueuesAreKept ==
  ASSUME WaitersAreInCondQueue, UNCHANGED <<condQ, waitingOn>>,
         \A t \in Threads : pc'[t] \in {"unlock", "wait"} <=> pc[t] \in {"unlock", "wait"}
  PROVE  WaitersAreInCondQueue'
BY DEF WaitersAreInCondQueue

-----------------------------------------------------------------------------
(* The scheduler and the collector keep the invariant.                      *)

LEMMA ScheduleKeepsCvIInv ==
  ASSUME CvIInv, NEW t \in Local, Schedule(t)
  PROVE  CvIInv'
PROOF
  <1>1. /\ t \in Threads
        /\ state[t] \in {"RUNNING", "RUNNABLE"}
        /\ state'[t] \in {"RUNNING", "RUNNABLE"}
        /\ \A u \in Threads \ {t} : state'[u] = state[u]
        /\ state' \in [Threads -> ThreadStates]
        /\ UNCHANGED <<suspending, priority, waitLock, owner, waitQ,
                       suspendAllThread, gcPhase, unvisited>>
        /\ UNCHANGED <<condQ, waitCvar, timed, interrupted, pc, waitingOn, victim>>
        /\ pc[t] \notin {"unlock", "interrupt"}
    BY DEF Schedule, Dispatch, Preempt, Schedulable, InterruptsOff, Threads, lockVars,
           gcVars, cvVars, CvIInv, CvTypeOK, TypeOK, ThreadStates
  <1>2. state'[t] = "RUNNING" =>
          /\ \A u \in Local : state[u] # "RUNNING"
          /\ suspendAllThread \in {t, NoThread}
    BY <1>1 DEF Schedule, Dispatch, Preempt, Schedulable, ProcessorIdle, CvIInv,
                CvTypeOK, TypeOK
  <1>3. CvTypeOK'
    BY <1>1 DEF CvIInv, CvTypeOK, TypeOK
  <1>4. WaitersAreQueued' /\ WaitersAreInCondQueue'
    BY <1>1, QueuesAreKept, CondQueuesAreKept DEF CvIInv
  <1>5. RunInv'
    BY <1>1, <1>2 DEF CvIInv, PlaceInv, RunInv, Threads
  <1>6. WaitInv'
    BY <1>1 DEF CvIInv, PlaceInv, WaitInv
  <1>7. WakeInv'
    BY <1>1 DEF CvIInv, PlaceInv, WakeInv
  <1>8. ClaimInv' /\ TimerInv'
    <2>1. \A u \in Threads : state[u] = "COND_WAIT" => state'[u] = "COND_WAIT"
      BY <1>1
    <2> QED  BY <1>1, <2>1 DEF CvIInv, CvTypeOK, PlaceInv, ClaimInv, TimerInv,
             TimersBelongToWaits
  <1>9. HaltInv'
    BY <1>1, ThreadsAssumption
       DEF CvIInv, HaltInv, Halted, NativelyInterrupted, Suspendable, Threads
  <1> QED  BY <1>3, <1>4, <1>5, <1>6, <1>7, <1>8, <1>9 DEF CvIInv, PlaceInv

LEMMA PhaseKeepsCvIInv ==
  ASSUME CvIInv, NEW t \in Local, pc[t] = "idle", UNCHANGED cvVars,
         SuspendAll(t) \/ SuspendAllReturns(t) \/ ResumeAll(t)
  PROVE  CvIInv'
PROOF
  <1>1. /\ t \in Threads /\ t # NoThread
        /\ UNCHANGED <<state, suspending, priority, waitLock, owner, waitQ>>
        /\ UNCHANGED <<condQ, waitCvar, timed, interrupted, pc, waitingOn, victim>>
    BY ThreadsAssumption DEF SuspendAll, SuspendAllReturns, ResumeAll, Threads,
       threadVars, lockVars, cvVars
  <1>2. /\ suspendAllThread' = t /\ owner[ActiveLock] = t /\ state[t] = "RUNNING"
        /\ gcPhase' \in {"suspending", "stopped", "resuming"}
        /\ unvisited' \in SUBSET GcAble
    BY <1>1 DEF SuspendAll, SuspendAllReturns, ResumeAll, MayLock, Walking, Suspendable,
       CvIInv, CvTypeOK, TypeOK, PlaceInv, RunInv
  <1>3. CvTypeOK'
    BY <1>1, <1>2 DEF CvIInv, CvTypeOK, TypeOK, GcPhases
  <1>4. WaitersAreQueued' /\ WaitersAreInCondQueue'
    BY <1>1, QueuesAreKept, CondQueuesAreKept DEF CvIInv
  <1>5. RunInv'
    BY <1>1, <1>2 DEF CvIInv, PlaceInv, RunInv
  <1>6. WaitInv' /\ WakeInv' /\ ClaimInv' /\ TimerInv'
    BY <1>1 DEF CvIInv, PlaceInv, WaitInv, WakeInv, ClaimInv, TimerInv, TimersBelongToWaits
  <1>7. HaltInv'
    <2>1. CASE SuspendAll(t)
      BY <2>1 DEF SuspendAll, HaltInv, Suspendable
    <2>2. CASE SuspendAllReturns(t)
      BY <2>2, <1>1 DEF SuspendAllReturns, Walking, CvIInv, HaltInv, Halted
    <2>3. CASE ResumeAll(t)
      BY <2>3 DEF ResumeAll, HaltInv
    <2> QED  BY <2>1, <2>2, <2>3
  <1> QED  BY <1>3, <1>4, <1>5, <1>6, <1>7 DEF CvIInv, PlaceInv

\* A visited thread is halted.
LEMMA SuspendKeepsCvIInv ==
  ASSUME CvIInv, NEW t \in Local, NEW u \in GcAble, UNCHANGED cvVars,
         SuspendRunnable(t, u) \/ SuspendBlocked(t, u)
  PROVE  CvIInv'
PROOF
  <1>1. /\ u \in Threads
        /\ gcPhase = "suspending"
        /\ unvisited' = unvisited \ {u}
        /\ UNCHANGED <<priority, waitLock, owner, waitQ, suspendAllThread, gcPhase>>
        /\ UNCHANGED <<condQ, waitCvar, timed, interrupted, pc, waitingOn, victim>>
        /\ state' \in [Threads -> ThreadStates] /\ suspending' \in [Threads -> BOOLEAN]
        /\ \A v \in Threads \ {u} : state'[v] = state[v] /\ suspending'[v] = suspending[v]
        /\ \/ state[u] = "RUNNABLE" /\ state'[u] = "SUSPENDED"
           \/ /\ state[u] \in {"LOCK_WAIT", "COND_WAIT"}
              /\ state'[u] = state[u] /\ suspending'[u]
    <2>1. u \in Threads /\ state \in [Threads -> ThreadStates]
          /\ suspending \in [Threads -> BOOLEAN]
      BY ThreadsAssumption DEF Threads, CvIInv, CvTypeOK, TypeOK
    <2>2. CASE SuspendRunnable(t, u)
      BY <2>1, <2>2 DEF SuspendRunnable, Walking, Visit, lockVars, cvVars, ThreadStates
    <2>3. CASE SuspendBlocked(t, u)
      BY <2>1, <2>3 DEF SuspendBlocked, Walking, Visit, lockVars, cvVars, ThreadStates
    <2> QED  BY <2>2, <2>3
  <1>2. /\ \A v \in Threads : state[v] = "COND_WAIT" <=> state'[v] = "COND_WAIT"
        /\ \A v \in Threads : state[v] = "LOCK_WAIT" <=> state'[v] = "LOCK_WAIT"
        /\ \A v \in Threads : state[v] = "RUNNING" <=> state'[v] = "RUNNING"
    BY <1>1
  <1>3. CvTypeOK'
    BY <1>1 DEF CvIInv, CvTypeOK, TypeOK
  <1>4. WaitersAreQueued' /\ WaitersAreInCondQueue'
    BY <1>1, <1>2, QueuesAreKept, CondQueuesAreKept DEF CvIInv
  <1>5. RunInv'
    BY <1>1, <1>2 DEF CvIInv, PlaceInv, RunInv, Threads
  <1>6. WaitInv' /\ WakeInv'
    BY <1>1, <1>2 DEF CvIInv, PlaceInv, WaitInv, WakeInv
  <1>7. ClaimInv' /\ TimerInv'
    BY <1>1, <1>2 DEF CvIInv, CvTypeOK, PlaceInv, ClaimInv, TimerInv, TimersBelongToWaits
  <1>8. HaltInv'
    <2>1. Halted(u)'
      BY <1>1 DEF Halted
    <2>2. \A v \in Threads \ {u} : Halted(v) => Halted(v)'
      BY <1>1 DEF Halted, NativelyInterrupted
    <2>3. Suspendable(suspendAllThread) \subseteq Threads
      BY ThreadsAssumption DEF Suspendable, Threads
    <2> QED  BY <1>1, <2>1, <2>2, <2>3 DEF CvIInv, HaltInv, Suspendable
  <1> QED  BY <1>3, <1>4, <1>5, <1>6, <1>7, <1>8 DEF CvIInv, PlaceInv

\* Unmarking a thread, or putting a suspended one on the run queue.
LEMMA ResumeKeepsCvIInv ==
  ASSUME CvIInv, NEW t \in Local, NEW u \in GcAble, UNCHANGED cvVars,
         ResumeSuspended(t, u) \/ ResumeCondWait(t, u) \/ ResumeRunnable(t, u)
  PROVE  CvIInv'
PROOF
  <1>1. /\ u \in Threads
        /\ gcPhase = "resuming"
        /\ unvisited' = unvisited \ {u}
        /\ UNCHANGED <<priority, waitLock, owner, waitQ, suspendAllThread, gcPhase>>
        /\ UNCHANGED <<condQ, waitCvar, timed, interrupted, pc, waitingOn, victim>>
        /\ state' \in [Threads -> ThreadStates] /\ suspending' \in [Threads -> BOOLEAN]
        /\ \A v \in Threads \ {u} : state'[v] = state[v]
        /\ state'[u] = state[u] \/ (state[u] = "SUSPENDED" /\ state'[u] = "RUNNABLE")
    <2>1. u \in Threads /\ state \in [Threads -> ThreadStates]
          /\ suspending \in [Threads -> BOOLEAN]
      BY ThreadsAssumption DEF Threads, CvIInv, CvTypeOK, TypeOK
    <2>2. CASE ResumeSuspended(t, u)
      BY <2>1, <2>2 DEF ResumeSuspended, Walking, Visit, Unmark, lockVars, cvVars, ThreadStates
    <2>3. CASE ResumeCondWait(t, u)
      BY <2>1, <2>3 DEF ResumeCondWait, Walking, Visit, Unmark, lockVars, cvVars
    <2>4. CASE ResumeRunnable(t, u)
      BY <2>1, <2>4 DEF ResumeRunnable, Walking, Visit, threadVars, lockVars, cvVars
    <2> QED  BY <2>2, <2>3, <2>4
  <1>2. /\ \A v \in Threads : state[v] = "COND_WAIT" <=> state'[v] = "COND_WAIT"
        /\ \A v \in Threads : state[v] = "LOCK_WAIT" <=> state'[v] = "LOCK_WAIT"
        /\ \A v \in Threads : state[v] = "RUNNING" <=> state'[v] = "RUNNING"
    BY <1>1
  <1>3. CvTypeOK'
    BY <1>1 DEF CvIInv, CvTypeOK, TypeOK
  <1>4. WaitersAreQueued' /\ WaitersAreInCondQueue'
    BY <1>1, <1>2, QueuesAreKept, CondQueuesAreKept DEF CvIInv
  <1>5. RunInv'
    BY <1>1, <1>2 DEF CvIInv, PlaceInv, RunInv, Threads
  <1>6. WaitInv' /\ WakeInv'
    BY <1>1, <1>2 DEF CvIInv, PlaceInv, WaitInv, WakeInv
  <1>7. ClaimInv' /\ TimerInv'
    BY <1>1, <1>2 DEF CvIInv, CvTypeOK, PlaceInv, ClaimInv, TimerInv, TimersBelongToWaits
  <1>8. HaltInv'
    BY <1>1 DEF HaltInv
  <1> QED  BY <1>3, <1>4, <1>5, <1>6, <1>7, <1>8 DEF CvIInv, PlaceInv

-----------------------------------------------------------------------------
(* Taking, awaiting and giving up locks keeps the invariant.                *)

\* A free lock is taken, outside a wait or at its end.
LEMMA TakeKeepsCvIInv ==
  ASSUME CvIInv, NEW t \in Threads, NEW l \in Locks, state[t] = "RUNNING",
         TakeFree(t, l),
         UNCHANGED <<suspending, priority, gcVars>>,
         UNCHANGED <<condQ, waitCvar, timed, interrupted, waitingOn, victim>>,
         \/ pc[t] = "idle" /\ UNCHANGED pc
         \/ pc[t] = "relock" /\ l = CvLock[waitingOn[t]] /\ GoTo(t, "return")
  PROVE  CvIInv'
PROOF
  <1>1. /\ owner[l] = NoThread
        /\ owner' \in [Locks -> Threads \cup {NoThread}] /\ owner'[l] = t
        /\ \A k \in Locks \ {l} : owner'[k] = owner[k]
        /\ UNCHANGED <<state, waitLock, waitQ, suspending, priority, suspendAllThread,
                       gcPhase, unvisited>>
        /\ UNCHANGED <<condQ, waitCvar, timed, interrupted, waitingOn, victim>>
    BY DEF TakeFree, gcVars, CvIInv, CvTypeOK, TypeOK
  <1>2. /\ pc' \in [Threads -> Pcs]
        /\ \A u \in Threads \ {t} : pc'[u] = pc[u]
        /\ \/ pc[t] = "idle" /\ pc'[t] = "idle"
           \/ pc[t] = "relock" /\ pc'[t] = "return" /\ l = CvLock[waitingOn[t]]
    BY DEF GoTo, Pcs, CvIInv, CvTypeOK
  <1>3. NoThread \notin Threads /\ ActiveLock \in Locks
    BY ThreadsAssumption, LocksAssumption
  <1>4. CvTypeOK'
    BY <1>1, <1>2 DEF CvIInv, CvTypeOK, TypeOK
  <1>5. WaitersAreQueued' /\ WaitersAreInCondQueue'
    BY <1>1, <1>2, QueuesAreKept, CondQueuesAreKept DEF CvIInv
  <1>6. RunInv'
    BY <1>1, <1>2, <1>3 DEF CvIInv, CvTypeOK, TypeOK, PlaceInv, RunInv, Threads
  <1>7. WaitInv'
    <2>1. \A u \in Threads : waitingOn[u] # NoCvar => CvLock[waitingOn[u]] \in Locks
      BY CVarsAssumption DEF CvIInv, CvTypeOK
    <2> QED  BY <1>1, <1>2, <1>3, <2>1 DEF CvIInv, PlaceInv, WaitInv
  <1>8. WakeInv' /\ TimerInv' /\ HaltInv'
    BY <1>1 DEF CvIInv, PlaceInv, WakeInv, TimerInv, TimersBelongToWaits, HaltInv, Halted
  <1>9. ClaimInv'
    BY <1>1, <1>2 DEF CvIInv, PlaceInv, ClaimInv
  <1> QED  BY <1>4, <1>5, <1>6, <1>7, <1>8, <1>9 DEF CvIInv, PlaceInv

\* A running thread that blocks on a lock was not halted.
LEMMA WaitForKeepsCvIInv ==
  ASSUME CvIInv, NEW t \in Threads, NEW l \in Locks, MayLock(t), WaitFor(t, l),
         UNCHANGED <<suspending, priority, gcVars>>,
         UNCHANGED <<condQ, waitCvar, timed, interrupted, waitingOn, victim>>,
         \/ pc[t] = "idle" /\ UNCHANGED pc
         \/ pc[t] = "relock" /\ l = CvLock[waitingOn[t]] /\ GoTo(t, "return")
  PROVE  CvIInv'
PROOF
  <1>1. /\ state[t] = "RUNNING" /\ state'[t] = "LOCK_WAIT" /\ waitLock'[t] = l
        /\ \A u \in Threads \ {t} : state'[u] = state[u] /\ waitLock'[u] = waitLock[u]
        /\ UNCHANGED <<owner, suspending, priority, suspendAllThread, gcPhase, unvisited>>
        /\ UNCHANGED <<condQ, waitCvar, timed, interrupted, waitingOn, victim>>
    BY DEF WaitFor, MayLock, gcVars, CvIInv, CvTypeOK, TypeOK
  <1>2. /\ pc' \in [Threads -> Pcs]
        /\ \A u \in Threads \ {t} : pc'[u] = pc[u]
        /\ \/ pc[t] = "idle" /\ pc'[t] = "idle"
           \/ pc[t] = "relock" /\ pc'[t] = "return" /\ l = CvLock[waitingOn[t]]
    BY DEF GoTo, Pcs, CvIInv, CvTypeOK
  <1>3. CvTypeOK' /\ WaitersAreQueued'
    <2>1. TypeOK /\ WaitersAreQueued
      BY DEF CvIInv, CvTypeOK
    <2>2. /\ state' \in [Threads -> ThreadStates]
          /\ waitLock' \in [Threads -> Locks \cup {NoLock}]
          /\ waitQ' \in [Locks -> Seq(Threads)]
          /\ WaitersAreQueued'
      BY <1>1, <2>1, WaitForKeepsQueues
    <2> QED  BY <1>1, <1>2, <2>2 DEF CvIInv, CvTypeOK, TypeOK
  <1>4. WaitersAreInCondQueue'
    BY <1>1, <1>2, CondQueuesAreKept DEF CvIInv
  <1>5. RunInv'
    <2>1. \A u \in Local : state'[u] = "RUNNING" => state[u] = "RUNNING"
      BY <1>1 DEF Threads
    <2>2. suspendAllThread # NoThread => pc'[suspendAllThread] = "idle"
      BY <1>2 DEF CvIInv, CvTypeOK, TypeOK, PlaceInv, RunInv, Threads
    <2> QED  BY <1>1, <2>1, <2>2 DEF CvIInv, PlaceInv, RunInv
  <1>6. WaitInv'
    BY <1>1, <1>2 DEF CvIInv, PlaceInv, WaitInv
  <1>7. \A u \in Threads : state'[u] = "COND_WAIT" <=> state[u] = "COND_WAIT"
    BY <1>1
  <1>8. WakeInv'
    BY <1>1, <1>7 DEF CvIInv, PlaceInv, WakeInv
  <1>9. ClaimInv' /\ TimerInv'
    BY <1>1, <1>2, <1>7 DEF CvIInv, CvTypeOK, PlaceInv, ClaimInv, TimerInv,
       TimersBelongToWaits
  <1>10. HaltInv'
    BY <1>1, ThreadsAssumption
       DEF CvIInv, HaltInv, Halted, NativelyInterrupted, Suspendable, Threads
  <1> QED  BY <1>3, <1>4, <1>5, <1>6, <1>8, <1>9, <1>10 DEF CvIInv, PlaceInv

LEMMA LockKeepsCvIInv ==
  ASSUME CvIInv, NEW t \in Threads, pc[t] = "idle" /\ Lock(t) /\ UNCHANGED cvVars
  PROVE  CvIInv'
BY TakeKeepsCvIInv, WaitForKeepsCvIInv DEF Lock, PR_Lock, PR_TestAndLock, MayLock, cvVars

LEMMA WaitRelocksKeepsCvIInv ==
  ASSUME CvIInv, NEW t \in Threads, WaitRelocks(t)
  PROVE  CvIInv'
PROOF
  <1>1. CvLock[waitingOn[t]] \in Locks
    BY CVarsAssumption DEF WaitRelocks, CvIInv, CvTypeOK, PlaceInv, WaitInv
  <1> QED  BY <1>1, TakeKeepsCvIInv, WaitForKeepsCvIInv DEF WaitRelocks, PR_Lock, MayLock

\* The receiver of a lock may be in the middle of a wait; the thread that gives
\* it up is outside one, or has just joined a condition's queue.
LEMMA ReleaseKeepsCvIInv ==
  ASSUME CvIInv, NEW t \in Threads, NEW l \in Locks, Release(l), owner[l] = t,
         UNCHANGED <<suspending, priority, unvisited>>,
         UNCHANGED <<condQ, waitCvar, timed, interrupted, waitingOn, victim>>,
         \/ pc[t] = "idle" /\ UNCHANGED pc
         \/ pc[t] = "unlock" /\ GoTo(t, "wait"),
         \/ UNCHANGED gcVars /\ t # suspendAllThread
         \/ suspendAllThread' = NoThread /\ gcPhase' = "none"
  PROVE  CvIInv'
PROOF
  <1>1. TypeOK /\ WaitersAreQueued
    BY DEF CvIInv, CvTypeOK
  <1>2. /\ state' \in [Threads -> ThreadStates]
        /\ waitLock' \in [Threads -> Locks \cup {NoLock}]
        /\ owner' \in [Locks -> Threads \cup {NoThread}]
        /\ waitQ' \in [Locks -> Seq(Threads)]
        /\ WaitersAreQueued'
        /\ \A k \in Locks \ {l} : owner'[k] = owner[k]
        /\ \/ \E u \in Threads :
                /\ state[u] = "LOCK_WAIT" /\ waitLock[u] = l /\ ~suspending[u]
                /\ owner'[l] = u
                /\ state'[u] = IF u \in Native THEN "RUNNING" ELSE "RUNNABLE"
                /\ \A v \in Threads \ {u} : /\ state'[v] = state[v]
                                            /\ waitLock'[v] = waitLock[v]
           \/ /\ owner'[l] = NoThread
              /\ UNCHANGED <<state, waitLock, waitQ>>
    BY <1>1, ReleaseEffect
  <1>3. /\ pc' \in [Threads -> Pcs]
        /\ \A u \in Threads \ {t} : pc'[u] = pc[u]
        /\ \/ pc[t] = "idle" /\ pc'[t] = "idle"
           \/ pc[t] = "unlock" /\ pc'[t] = "wait"
    BY DEF GoTo, Pcs, CvIInv, CvTypeOK
  <1>4. /\ \A u \in Threads : state'[u] = "COND_WAIT" <=> state[u] = "COND_WAIT"
        /\ \A u \in Local : state'[u] = "RUNNING" => state[u] = "RUNNING"
        /\ \A u \in Threads : state[u] = "RUNNING" => state'[u] = "RUNNING"
        /\ \A u \in Threads : state'[u] = "LOCK_WAIT" =>
             state[u] = "LOCK_WAIT" /\ waitLock'[u] = waitLock[u]
        /\ \A u \in Threads : state[u] = "LOCK_WAIT" /\ state'[u] # "LOCK_WAIT" =>
             waitLock[u] = l /\ owner'[l] = u /\ ~suspending[u]
        /\ \A u \in Threads : state[u] = "SUSPENDED" => state'[u] = "SUSPENDED"
    BY <1>2, ThreadsAssumption DEF Threads
  <1>5. NoThread \notin Threads /\ ActiveLock \in Locks
    BY ThreadsAssumption, LocksAssumption
  <1>6. CvTypeOK'
    BY <1>1, <1>2, <1>3 DEF CvIInv, CvTypeOK, TypeOK, gcVars, GcPhases
  <1>7. WaitersAreInCondQueue'
    BY <1>3, CondQueuesAreKept DEF CvIInv
  <1>8. RunInv'
    <2>1. CASE UNCHANGED gcVars /\ t # suspendAllThread
      BY <1>2, <1>3, <1>4, <1>5, <2>1 DEF gcVars, CvIInv, CvTypeOK, TypeOK, PlaceInv,
         RunInv, Threads
    <2>2. CASE suspendAllThread' = NoThread /\ gcPhase' = "none"
      BY <1>4, <2>2 DEF CvIInv, PlaceInv, RunInv
    <2> QED  BY <2>1, <2>2
  <1>9. WaitInv'
    <2>1. \A u \in Threads : waitingOn[u] # NoCvar => CvLock[waitingOn[u]] \in Locks
      BY CVarsAssumption DEF CvIInv, CvTypeOK
    <2> SUFFICES ASSUME NEW u \in Threads
                 PROVE  /\ waitingOn[u] # NoCvar <=>
                             pc'[u] \in {"unlock", "wait", "relock", "return"}
                        /\ state'[u] = "COND_WAIT" => pc'[u] \in {"unlock", "wait"}
                        /\ state'[u] = "LOCK_WAIT" => pc'[u] \in {"idle", "return"}
                        /\ pc'[u] = "interrupt" => state'[u] = "RUNNING"
                        /\ pc'[u] = "unlock" => owner'[CvLock[waitingOn[u]]] = u
                        /\ pc'[u] = "return" =>
                             IF state'[u] = "LOCK_WAIT"
                             THEN waitLock'[u] = CvLock[waitingOn[u]]
                             ELSE owner'[CvLock[waitingOn[u]]] = u
      BY DEF WaitInv
    <2>2. /\ waitingOn[u] # NoCvar <=> pc[u] \in {"unlock", "wait", "relock", "return"}
          /\ state[u] = "COND_WAIT" => pc[u] \in {"unlock", "wait"}
          /\ state[u] = "LOCK_WAIT" => pc[u] \in {"idle", "return"}
          /\ pc[u] = "interrupt" => state[u] = "RUNNING"
          /\ pc[u] = "unlock" => owner[CvLock[waitingOn[u]]] = u
          /\ pc[u] = "return" =>
               IF state[u] = "LOCK_WAIT" THEN waitLock[u] = CvLock[waitingOn[u]]
                                         ELSE owner[CvLock[waitingOn[u]]] = u
      BY DEF CvIInv, PlaceInv, WaitInv
    <2>3. CASE u = t
      BY <1>3, <1>4, <2>2, <2>3
    <2>4. CASE u # t
      BY <1>2, <1>3, <1>4, <2>1, <2>2, <2>4
    <2> QED  BY <2>3, <2>4
  <1>10. WakeInv'
    BY <1>4 DEF CvIInv, PlaceInv, WakeInv
  <1>11. ClaimInv' /\ TimerInv'
    BY <1>3, <1>4 DEF CvIInv, CvTypeOK, PlaceInv, ClaimInv, TimerInv, TimersBelongToWaits
  <1>12. HaltInv'
    <2>1. CASE UNCHANGED gcVars
      <3>1. \A u \in GcAble : u \in Threads
        BY ThreadsAssumption DEF Threads
      <3>2. \A u \in GcAble : Halted(u) => Halted(u)'
        BY <1>4, <3>1 DEF Halted, NativelyInterrupted
      <3> QED  BY <2>1, <3>2 DEF gcVars, CvIInv, HaltInv, Suspendable
    <2>2. CASE gcPhase' = "none"
      BY <2>2 DEF HaltInv
    <2> QED  BY <2>1, <2>2
  <1> QED  BY <1>2, <1>6, <1>7, <1>8, <1>9, <1>10, <1>11, <1>12 DEF CvIInv, PlaceInv

LEMMA UnlockKeepsCvIInv ==
  ASSUME CvIInv, NEW t \in Threads, UnlockCv(t) \/ WaitUnlocks(t)
  PROVE  CvIInv'
PROOF
  <1>1. CASE UnlockCv(t)
    BY <1>1, ReleaseKeepsCvIInv DEF UnlockCv, Unlock, PR_Unlock, MayLock, cvVars, gcVars
  <1>2. CASE WaitUnlocks(t)
    <2>1. /\ CvLock[waitingOn[t]] \in Locks
          /\ owner[CvLock[waitingOn[t]]] = t
          /\ pc[t] = "unlock"
      BY <1>2, CVarsAssumption DEF WaitUnlocks, CvIInv, CvTypeOK, PlaceInv, WaitInv
    <2>2. t # suspendAllThread
      BY <2>1, ThreadsAssumption DEF CvIInv, PlaceInv, RunInv
    <2> QED  BY <1>2, <2>1, <2>2, ReleaseKeepsCvIInv DEF WaitUnlocks, gcVars
  <1> QED  BY <1>1, <1>2

LEMMA ResumeAllReturnsKeepsCvIInv ==
  ASSUME CvIInv, NEW t \in Local, pc[t] = "idle", ResumeAllReturns(t), UNCHANGED cvVars
  PROVE  CvIInv'
PROOF
  <1>1. t \in Threads /\ t # NoThread /\ t = suspendAllThread /\ ActiveLock \in Locks
    BY ThreadsAssumption, LocksAssumption DEF Threads, ResumeAllReturns, Walking
  <1>2. owner[ActiveLock] = t
    BY <1>1 DEF CvIInv, PlaceInv, RunInv
  <1> QED  BY <1>1, <1>2, ReleaseKeepsCvIInv DEF ResumeAllReturns, cvVars

LEMMA ResumeLockWaitKeepsCvIInv ==
  ASSUME CvIInv, NEW t \in Local, NEW u \in GcAble, ResumeLockWait(t, u), UNCHANGED cvVars
  PROVE  CvIInv'
PROOF
  <1>1. TypeOK /\ WaitersAreQueued
    BY DEF CvIInv, CvTypeOK
  <1>2. /\ state' \in [Threads -> ThreadStates]
        /\ waitLock' \in [Threads -> Locks \cup {NoLock}]
        /\ owner' \in [Locks -> Threads \cup {NoThread}]
        /\ waitQ' \in [Locks -> Seq(Threads)]
        /\ WaitersAreQueued'
        /\ \/ \E v \in Threads, l \in Locks :
                /\ state[v] = "LOCK_WAIT" /\ waitLock[v] = l
                /\ owner[l] = NoThread /\ owner'[l] = v
                /\ \A k \in Locks \ {l} : owner'[k] = owner[k]
                /\ state'[v] = IF v \in Native THEN "RUNNING" ELSE "RUNNABLE"
                /\ \A w \in Threads \ {v} : /\ state'[w] = state[w]
                                            /\ waitLock'[w] = waitLock[w]
           \/ UNCHANGED <<state, waitLock, owner, waitQ>>
    BY <1>1, ResumeEffect
  <1>3. /\ gcPhase = "resuming"
        /\ unvisited' = unvisited \ {u}
        /\ suspending' \in [Threads -> BOOLEAN]
        /\ UNCHANGED <<priority, suspendAllThread, gcPhase>>
        /\ UNCHANGED <<condQ, waitCvar, timed, interrupted, pc, waitingOn, victim>>
    BY <1>1 DEF ResumeLockWait, Walking, Visit, Unmark, cvVars, TypeOK
  <1>4. /\ \A v \in Threads : state'[v] = "COND_WAIT" <=> state[v] = "COND_WAIT"
        /\ \A v \in Local : state'[v] = "RUNNING" => state[v] = "RUNNING"
        /\ \A v \in Threads : state[v] = "RUNNING" => state'[v] = "RUNNING"
        /\ \A v \in Threads : state'[v] = "LOCK_WAIT" =>
             state[v] = "LOCK_WAIT" /\ waitLock'[v] = waitLock[v]
        /\ \A v \in Threads : state[v] = "LOCK_WAIT" /\ state'[v] # "LOCK_WAIT" =>
             owner'[waitLock[v]] = v
        /\ \A k \in Locks : owner[k] # NoThread => owner'[k] = owner[k]
    BY <1>2, ThreadsAssumption DEF Threads
  <1>5. CvTypeOK'
    BY <1>1, <1>2, <1>3 DEF CvIInv, CvTypeOK, TypeOK
  <1>6. WaitersAreInCondQueue'
    BY <1>3, CondQueuesAreKept DEF CvIInv
  <1>7. RunInv'
    BY <1>3, <1>4, ThreadsAssumption, LocksAssumption DEF CvIInv, PlaceInv, RunInv
  <1>8. WaitInv'
    <2>1. \A v \in Threads : waitingOn[v] # NoCvar => CvLock[waitingOn[v]] \in Locks
      BY CVarsAssumption DEF CvIInv, CvTypeOK
    <2> QED  BY <1>3, <1>4, <2>1, ThreadsAssumption DEF CvIInv, PlaceInv, WaitInv
  <1>9. WakeInv'
    BY <1>3, <1>4 DEF CvIInv, PlaceInv, WakeInv
  <1>10. ClaimInv' /\ TimerInv'
    BY <1>3, <1>4 DEF CvIInv, CvTypeOK, PlaceInv, ClaimInv, TimerInv, TimersBelongToWaits
  <1>11. HaltInv'
    BY <1>3 DEF HaltInv
  <1> QED  BY <1>2, <1>5, <1>6, <1>7, <1>8, <1>9, <1>10, <1>11 DEF CvIInv, PlaceInv

LEMMA ReprioritizeKeepsCvIInv ==
  ASSUME CvIInv, NEW t \in Threads, Reprioritize(t), UNCHANGED cvVars
  PROVE  CvIInv'
PROOF
  <1>1. /\ priority' \in [Threads -> Nat]
        /\ UNCHANGED <<state, suspending, waitLock, owner, waitQ, suspendAllThread,
                       gcPhase, unvisited>>
        /\ UNCHANGED <<condQ, waitCvar, timed, interrupted, pc, waitingOn, victim>>
    BY PriorityAssumption DEF Reprioritize, SetThreadPriority, lockVars, gcVars, cvVars,
       CvIInv, CvTypeOK, TypeOK
  <1>2. CvTypeOK' /\ WaitersAreQueued' /\ WaitersAreInCondQueue'
    BY <1>1, QueuesAreKept, CondQueuesAreKept DEF CvIInv, CvTypeOK, TypeOK
  <1>3. PlaceInv' /\ HaltInv'
    BY <1>1 DEF CvIInv, PlaceInv, RunInv, WaitInv, WakeInv, ClaimInv, TimerInv,
       TimersBelongToWaits, HaltInv, Halted
  <1> QED  BY <1>2, <1>3 DEF CvIInv

-----------------------------------------------------------------------------
(* Notifications, timeouts and interrupts keep the invariant.               *)

\* The threads at the notifiable places wait and have their wait.cvar set.
LEMMA NotifiableThreads ==
  ASSUME CvIInv, NEW c \in CVars, NEW i \in Notifiable(c)
  PROVE  /\ i \in 1 .. Len(condQ[c])
         /\ condQ[c][i] \in Threads
         /\ waitCvar[condQ[c][i]] = c
         /\ state[condQ[c][i]] = "COND_WAIT"
PROOF
  <1>1. condQ[c] \in Seq(Threads)
    BY DEF CvIInv, CvTypeOK
  <1>2. i \in 1 .. Len(condQ[c]) /\ waitCvar[condQ[c][i]] # NoCvar
    BY <1>1, LenProperties DEF Notifiable
  <1>3. condQ[c][i] \in Threads /\ condQ[c][i] \in Range(condQ[c])
    BY <1>1, <1>2, RangeByIndex, ElementOfSeq
  <1> QED  BY <1>2, <1>3 DEF CvIInv, WaitersAreInCondQueue, PlaceInv, WakeInv

\* Nobody has spoken for the threads that _PR_NotifyThread wakes, so no second
\* half of a PR_Interrupt is under way for them.
LEMMA NotifyThreadsKeepsCvIInv ==
  ASSUME CvIInv, NEW us \in SUBSET Threads, \A u \in us : waitCvar[u] # NoCvar,
         NotifyThreads(us),
         UNCHANGED <<suspending, priority, waitLock, lockVars, gcVars, condQ,
                     interrupted, pc, waitingOn, victim>>
  PROVE  CvIInv'
PROOF
  <1>1. UNCHANGED <<suspending, priority, waitLock, owner, waitQ, suspendAllThread,
                    gcPhase, unvisited, condQ, interrupted, pc, waitingOn, victim>>
    BY DEF lockVars, gcVars
  <1>2. \A u \in us : state[u] = "COND_WAIT"
    BY DEF CvIInv, PlaceInv, WakeInv
  <1>3. \A u \in Threads : /\ WakeState(u) \in {"SUSPENDED", "RUNNABLE", "RUNNING"}
                           /\ u \in Local => WakeState(u) # "RUNNING"
                           /\ u \in Local /\ suspending[u] => WakeState(u) = "SUSPENDED"
    BY ThreadsAssumption DEF WakeState, Threads, CvIInv, CvTypeOK, TypeOK
  <1>4. /\ waitCvar' \in [Threads -> CVars \cup {NoCvar}]
        /\ state' \in [Threads -> ThreadStates]
        /\ timed' = timed \ us
        /\ \A u \in us : waitCvar'[u] = NoCvar /\ state'[u] = WakeState(u)
        /\ \A u \in Threads \ us : waitCvar'[u] = waitCvar[u] /\ state'[u] = state[u]
    BY <1>3 DEF NotifyThreads, CvIInv, CvTypeOK, TypeOK, ThreadStates
  <1> HIDE DEF WakeState
  <1>5. /\ \A u \in Threads : state'[u] = "LOCK_WAIT" <=> state[u] = "LOCK_WAIT"
        /\ \A u \in Local : state'[u] = "RUNNING" => state[u] = "RUNNING"
        /\ \A u \in Threads : state[u] = "RUNNING" => state'[u] = "RUNNING"
        /\ \A u \in Threads : state'[u] = "COND_WAIT" <=> state[u] = "COND_WAIT" /\ u \notin us
    BY <1>2, <1>3, <1>4 DEF Threads
  <1>6. CvTypeOK'
    BY <1>1, <1>4 DEF CvIInv, CvTypeOK, TypeOK
  <1>7. WaitersAreQueued' /\ WaitersAreInCondQueue'
    BY <1>1, <1>5, QueuesAreKept, CondQueuesAreKept DEF CvIInv
  <1>8. RunInv'
    BY <1>1, <1>5 DEF CvIInv, PlaceInv, RunInv
  <1>9. WaitInv'
    BY <1>1, <1>5 DEF CvIInv, PlaceInv, WaitInv
  <1>10. WakeInv'
    BY <1>1, <1>4, <1>5 DEF CvIInv, PlaceInv, WakeInv
  <1>11. ClaimInv'
    <2>1. \A me \in Threads : victim[me] # NoThread =>
            /\ victim[me] \in Threads \ us
            /\ state'[victim[me]] = "COND_WAIT"
            /\ waitCvar'[victim[me]] = NoCvar
      <3> SUFFICES ASSUME NEW me \in Threads, victim[me] # NoThread
                   PROVE  /\ victim[me] \in Threads \ us
                          /\ state'[victim[me]] = "COND_WAIT"
                          /\ waitCvar'[victim[me]] = NoCvar
        OBVIOUS
      <3>1. victim[me] \in Threads /\ state[victim[me]] = "COND_WAIT"
            /\ waitCvar[victim[me]] = NoCvar
        BY DEF CvIInv, CvTypeOK, PlaceInv, ClaimInv
      <3> QED  BY <1>4, <1>5, <3>1
    <2> QED  BY <1>1, <2>1 DEF CvIInv, PlaceInv, ClaimInv
  <1>12. TimerInv'
    BY <1>4, <1>5 DEF CvIInv, CvTypeOK, PlaceInv, TimerInv, TimersBelongToWaits
  <1>13. HaltInv'
    <2>1. \A u \in GcAble : u \in Local /\ u \in Threads
      BY ThreadsAssumption DEF Threads
    <2>2. \A u \in GcAble : Halted(u) => Halted(u)'
      BY <1>1, <1>2, <1>3, <1>4, <2>1 DEF Halted, NativelyInterrupted
    <2> QED  BY <1>1, <2>2 DEF CvIInv, HaltInv, Suspendable
  <1> QED  BY <1>6, <1>7, <1>8, <1>9, <1>10, <1>11, <1>12, <1>13 DEF CvIInv, PlaceInv

LEMMA NotifyKeepsCvIInv ==
  ASSUME CvIInv, NEW t \in Threads, Notify(t)
  PROVE  CvIInv'
PROOF
  <1> PICK c \in CVars : PR_NotifyCondVar(t, c) \/ PR_NotifyAllCondVar(t, c)
    BY DEF Notify
  <1>1. \A i \in Notifiable(c) : /\ condQ[c][i] \in Threads
                                 /\ waitCvar[condQ[c][i]] # NoCvar
    BY NotifiableThreads DEF Notifiable
  <1>2. CASE PR_NotifyCondVar(t, c)
    <2>1. FirstOf(Notifiable(c)) \in Notifiable(c)
      <3>1. Notifiable(c) \in SUBSET Nat
        BY NotifiableThreads DEF CvIInv, CvTypeOK
      <3> QED  BY <1>2, <3>1, FirstOfPlaces DEF PR_NotifyCondVar
    <2>2. NotifyThreads({condQ[c][FirstOf(Notifiable(c))]})
      BY <1>2 DEF PR_NotifyCondVar
    <2> QED  BY <1>1, <1>2, <2>1, <2>2, NotifyThreadsKeepsCvIInv DEF PR_NotifyCondVar
  <1>3. CASE PR_NotifyAllCondVar(t, c)
    <2> DEFINE us == {condQ[c][i] : i \in Notifiable(c)}
    <2>1. us \in SUBSET Threads /\ \A u \in us : waitCvar[u] # NoCvar
      BY <1>1
    <2>2. /\ NotifyThreads(us)
          /\ UNCHANGED <<suspending, priority, waitLock, lockVars, gcVars, condQ,
                         interrupted, pc, waitingOn, victim>>
      BY <1>3 DEF PR_NotifyAllCondVar
    <2> HIDE DEF us
    <2> QED  BY <2>1, <2>2, NotifyThreadsKeepsCvIInv
  <1> QED  BY <1>2, <1>3

\* The clock does not come between the halves of a PR_Interrupt by a local
\* thread, nor by hypothesis of one by a native thread: it finds wait.cvar set.
LEMMA ClockFindsWaiter ==
  ASSUME NoLateTimeouts, CvIInv, NEW u \in Threads, ClockInterrupt(u)
  PROVE  waitCvar[u] # NoCvar
PROOF
  <1> SUFFICES ASSUME waitCvar[u] = NoCvar PROVE FALSE
    OBVIOUS
  <1>1. u \in Local /\ u \in TimedWaiters /\ state[u] = "COND_WAIT"
    BY DEF ClockInterrupt, CvIInv, PlaceInv, TimerInv, TimersBelongToWaits
  <1>2. PICK me \in Threads : victim[me] = u
    BY <1>1 DEF CvIInv, PlaceInv, WakeInv
  <1>3. pc[me] = "interrupt" /\ <<me, u>> \in Interrupts
    BY <1>2, ThreadsAssumption DEF CvIInv, PlaceInv, ClaimInv
  <1>4. me \notin Local
    BY <1>3 DEF ClockInterrupt, InterruptsOff
  <1> QED  BY <1>1, <1>3, <1>4 DEF NoLateTimeouts, Threads

LEMMA TimeoutKeepsCvIInv ==
  ASSUME NoLateTimeouts, CvIInv, NEW u \in Threads, Timeout(u)
  PROVE  CvIInv'
PROOF
  <1>1. CASE NativeTimeout(u)
    BY <1>1, NotifyThreadsKeepsCvIInv DEF NativeTimeout
  <1>2. CASE ClockInterrupt(u)
    <2>1. waitCvar[u] # NoCvar /\ u \in Local
      BY <1>2, ClockFindsWaiter DEF ClockInterrupt
    <2>2. state' = [state EXCEPT ![u] = WakeState(u)]
      BY <1>2, <2>1 DEF ClockInterrupt, WakeState, CvIInv, CvTypeOK, TypeOK
    <2> HIDE DEF WakeState
    <2>3. NotifyThreads({u})
      BY <1>2, <2>2 DEF ClockInterrupt, NotifyThreads, CvIInv, CvTypeOK, TypeOK
    <2> QED  BY <1>2, <2>1, <2>3, NotifyThreadsKeepsCvIInv DEF ClockInterrupt
  <1> QED  BY <1>1, <1>2 DEF Timeout

\* The flag _PR_INTERRUPT is no part of the other invariants.
LEMMA FlagKeepsCvIInv ==
  ASSUME CvIInv, NEW t \in Threads, interrupted' \in [Threads -> BOOLEAN],
         UNCHANGED <<vars, condQ, waitCvar, timed, pc, waitingOn, victim>>
  PROVE  CvIInv'
PROOF
  <1>1. UNCHANGED <<state, suspending, priority, waitLock, owner, waitQ,
                    suspendAllThread, gcPhase, unvisited>>
    BY DEF vars, threadVars, lockVars, gcVars
  <1>2. CvTypeOK' /\ WaitersAreQueued' /\ WaitersAreInCondQueue'
    BY <1>1, QueuesAreKept, CondQueuesAreKept DEF CvIInv, CvTypeOK, TypeOK
  <1>3. PlaceInv' /\ HaltInv'
    BY <1>1 DEF CvIInv, PlaceInv, RunInv, WaitInv, WakeInv, ClaimInv, TimerInv,
       TimersBelongToWaits, HaltInv, Halted
  <1> QED  BY <1>2, <1>3 DEF CvIInv

LEMMA InterruptClaimsKeepsCvIInv ==
  ASSUME CvIInv, NEW me \in Threads, NEW u \in Threads, InterruptClaims(me, u)
  PROVE  CvIInv'
PROOF
  <1>1. /\ UNCHANGED <<state, suspending, priority, waitLock, owner, waitQ,
                       suspendAllThread, gcPhase, unvisited>>
        /\ UNCHANGED <<condQ, timed, waitingOn>>
    BY DEF InterruptClaims, vars, threadVars, lockVars, gcVars
  <1>2. /\ state[me] = "RUNNING" /\ pc[me] = "idle" /\ me # suspendAllThread
        /\ <<me, u>> \in Interrupts
        /\ state[u] = "COND_WAIT" /\ waitCvar[u] # NoCvar /\ u # NoThread
    BY ThreadsAssumption DEF InterruptClaims, MayInterrupt, Free
  <1>3. /\ interrupted' \in [Threads -> BOOLEAN]
        /\ waitCvar' \in [Threads -> CVars \cup {NoCvar}]
        /\ waitCvar'[u] = NoCvar
        /\ \A v \in Threads \ {u} : waitCvar'[v] = waitCvar[v]
        /\ victim' \in [Threads -> Threads \cup {NoThread}]
        /\ victim'[me] = u
        /\ \A v \in Threads \ {me} : victim'[v] = victim[v]
        /\ pc' \in [Threads -> Pcs]
        /\ pc'[me] = "interrupt"
        /\ \A v \in Threads \ {me} : pc'[v] = pc[v]
    BY DEF InterruptClaims, GoTo, Pcs, CvIInv, CvTypeOK
  <1>4. CvTypeOK'
    BY <1>1, <1>3 DEF CvIInv, CvTypeOK, TypeOK
  <1>5. WaitersAreQueued' /\ WaitersAreInCondQueue'
    BY <1>1, <1>2, <1>3, QueuesAreKept, CondQueuesAreKept DEF CvIInv
  <1>6. RunInv'
    BY <1>1, <1>2, <1>3 DEF CvIInv, CvTypeOK, TypeOK, PlaceInv, RunInv, Threads
  <1>7. WaitInv'
    BY <1>1, <1>2, <1>3 DEF CvIInv, PlaceInv, WaitInv
  <1>8. victim[me] = NoThread
    BY <1>2 DEF CvIInv, PlaceInv, ClaimInv
  <1>9. WakeInv'
    BY <1>1, <1>2, <1>3, <1>8, ThreadsAssumption DEF CvIInv, PlaceInv, WakeInv
  <1>10. ClaimInv'
    <2>1. \A you \in Threads : victim[you] # u
      BY <1>2 DEF CvIInv, PlaceInv, ClaimInv
    <2>2. /\ \A v \in Threads : victim'[v] # NoThread <=> pc'[v] = "interrupt"
          /\ \A v \in Threads : victim'[v] # NoThread => <<v, victim'[v]>> \in Interrupts
      <3>1. \A v \in Threads \ {me} : /\ victim'[v] = victim[v]
                                      /\ pc'[v] = pc[v]
        BY <1>3
      <3>2. \A v \in Threads : /\ victim[v] # NoThread <=> pc[v] = "interrupt"
                               /\ victim[v] # NoThread => <<v, victim[v]>> \in Interrupts
        BY DEF CvIInv, PlaceInv, ClaimInv
      <3> QED  BY <1>2, <1>3, <3>1, <3>2
    <2>3. \A v \in Threads : victim'[v] # NoThread =>
            state'[victim'[v]] = "COND_WAIT" /\ waitCvar'[victim'[v]] = NoCvar
      <3> SUFFICES ASSUME NEW v \in Threads, victim'[v] # NoThread
                   PROVE  state[victim'[v]] = "COND_WAIT" /\ waitCvar'[victim'[v]] = NoCvar
        BY <1>1
      <3>1. CASE v = me
        BY <1>2, <1>3, <3>1
      <3>2. CASE v # me
        <4>1. victim'[v] = victim[v]
          BY <1>3, <3>2
        <4>2. victim[v] # NoThread /\ victim[v] # u
          BY <2>1, <4>1
        <4>3. state[victim[v]] = "COND_WAIT" /\ waitCvar[victim[v]] = NoCvar
          BY <4>2 DEF CvIInv, PlaceInv, ClaimInv
        <4>4. victim[v] \in Threads
          BY <4>2 DEF CvIInv, CvTypeOK
        <4> QED  BY <1>3, <4>1, <4>2, <4>3, <4>4
      <3> QED  BY <3>1, <3>2
    <2>4. \A v, w \in Threads : victim'[v] # NoThread /\ victim'[v] = victim'[w] => v = w
      BY <1>3, <2>1 DEF CvIInv, PlaceInv, ClaimInv
    <2> QED  BY <2>2, <2>3, <2>4 DEF ClaimInv
  <1>11. TimerInv' /\ HaltInv'
    BY <1>1 DEF CvIInv, PlaceInv, TimerInv, TimersBelongToWaits, HaltInv, Halted
  <1> QED  BY <1>4, <1>5, <1>6, <1>7, <1>9, <1>10, <1>11 DEF CvIInv, PlaceInv

\* A local thread inside PR_Interrupt is not the suspender, so it is preempted
\* while the world is being stopped; a native one may wake a halted thread.
LEMMA InterruptWakesKeepsCvIInv ==
  ASSUME CvIInv, NEW me \in Threads, InterruptWakes(me)
  PROVE  CvIInv'
PROOF
  <1> DEFINE u == victim[me]
  <1>1. UNCHANGED <<suspending, priority, waitLock, owner, waitQ, suspendAllThread,
                    gcPhase, unvisited, condQ, waitCvar, interrupted, waitingOn>>
    BY DEF InterruptWakes, lockVars, gcVars
  <1>2. /\ u \in Threads /\ u # NoThread /\ u # me
        /\ state[u] = "COND_WAIT" /\ waitCvar[u] = NoCvar
        /\ <<me, u>> \in Interrupts
        /\ pc[me] = "interrupt" /\ state[me] = "RUNNING"
    BY DEF InterruptWakes, CvIInv, CvTypeOK, PlaceInv, ClaimInv, WaitInv
  <1>3. /\ timed' = timed \ {u}
        /\ state' \in [Threads -> ThreadStates]
        /\ state'[u] = IF u \in Local THEN "RUNNABLE" ELSE "RUNNING"
        /\ \A v \in Threads \ {u} : state'[v] = state[v]
        /\ victim' \in [Threads -> Threads \cup {NoThread}]
        /\ victim'[me] = NoThread
        /\ \A v \in Threads \ {me} : victim'[v] = victim[v]
        /\ pc' \in [Threads -> Pcs]
        /\ pc'[me] = "idle"
        /\ \A v \in Threads \ {me} : pc'[v] = pc[v]
    BY <1>2 DEF InterruptWakes, GoTo, Pcs, ThreadStates, CvIInv, CvTypeOK, TypeOK
  <1> HIDE DEF u
  <1>4. /\ \A v \in Threads : state'[v] = "LOCK_WAIT" <=> state[v] = "LOCK_WAIT"
        /\ \A v \in Local : state'[v] = "RUNNING" => state[v] = "RUNNING"
        /\ \A v \in Threads : state[v] = "RUNNING" => state'[v] = "RUNNING"
        /\ \A v \in Threads : state'[v] = "COND_WAIT" <=> state[v] = "COND_WAIT" /\ v # u
    BY <1>2, <1>3 DEF Threads
  <1>5. CvTypeOK'
    BY <1>1, <1>3 DEF CvIInv, CvTypeOK, TypeOK
  <1>6. WaitersAreQueued' /\ WaitersAreInCondQueue'
    BY <1>1, <1>2, <1>3, <1>4, QueuesAreKept, CondQueuesAreKept DEF CvIInv
  <1>7. RunInv'
    BY <1>1, <1>3, <1>4 DEF CvIInv, CvTypeOK, TypeOK, PlaceInv, RunInv, Threads
  <1>8. WaitInv'
    BY <1>1, <1>2, <1>3, <1>4 DEF CvIInv, PlaceInv, WaitInv
  <1>9. \A you \in Threads \ {me} : victim[you] # u
    BY <1>2 DEF CvIInv, PlaceInv, ClaimInv, u
  <1>10. WakeInv'
    BY <1>1, <1>2, <1>3, <1>4 DEF CvIInv, PlaceInv, WakeInv, u
  <1>11. ClaimInv'
    BY <1>1, <1>2, <1>3, <1>4, <1>9 DEF CvIInv, CvTypeOK, PlaceInv, ClaimInv
  <1>12. TimerInv'
    BY <1>3, <1>4 DEF CvIInv, CvTypeOK, PlaceInv, TimerInv, TimersBelongToWaits
  <1>13. HaltInv'
    <2> SUFFICES ASSUME gcPhase \in {"suspending", "stopped"},
                        NEW v \in GcAble, Halted(v)
                 PROVE  Halted(v)'
      BY <1>1 DEF CvIInv, HaltInv, Suspendable
    <2>1. me \notin Local
      BY <1>2 DEF CvIInv, PlaceInv, RunInv
    <2>2. v \in Threads
      BY ThreadsAssumption DEF Threads
    <2>3. CASE v = u
      BY <1>2, <2>1, <2>3 DEF Halted, NativelyInterrupted, Threads
    <2>4. CASE v # u
      BY <1>1, <1>3, <2>2, <2>4 DEF Halted, NativelyInterrupted
    <2> QED  BY <2>3, <2>4
  <1> QED  BY <1>5, <1>6, <1>7, <1>8, <1>10, <1>11, <1>12, <1>13 DEF CvIInv, PlaceInv

-----------------------------------------------------------------------------
(* The steps of a wait keep the invariant.                                  *)

LEMMA WaitCondVarKeepsCvIInv ==
  ASSUME CvIInv, NEW t \in Threads, NEW c \in CVars,
         \/ WaitCondVar(t, c, FALSE)
         \/ t \in TimedWaiters /\ WaitCondVar(t, c, TRUE)
  PROVE  CvIInv'
PROOF
  <1>1. /\ UNCHANGED <<suspending, priority, waitLock, owner, waitQ, suspendAllThread,
                       gcPhase, unvisited, interrupted, victim>>
        /\ timed' \subseteq timed \cup {t}
        /\ t \in timed' => t \in TimedWaiters \cup timed
        /\ condQ' = [condQ EXCEPT ![c] = Append(@, t)]
        /\ owner[CvLock[c]] = t
        /\ state[t] = "RUNNING" /\ pc[t] = "idle" /\ t # suspendAllThread
    BY DEF WaitCondVar, Free, MayLock, lockVars, gcVars
  <1>2. /\ state' \in [Threads -> ThreadStates]
        /\ state'[t] = "COND_WAIT"
        /\ \A u \in Threads \ {t} : state'[u] = state[u]
        /\ waitCvar' \in [Threads -> CVars \cup {NoCvar}]
        /\ waitCvar'[t] = c
        /\ \A u \in Threads \ {t} : waitCvar'[u] = waitCvar[u]
        /\ waitingOn' \in [Threads -> CVars \cup {NoCvar}]
        /\ waitingOn'[t] = c
        /\ \A u \in Threads \ {t} : waitingOn'[u] = waitingOn[u]
        /\ pc' \in [Threads -> Pcs]
        /\ pc'[t] = "unlock"
        /\ \A u \in Threads \ {t} : pc'[u] = pc[u]
    <2>1. /\ state' = [state EXCEPT ![t] = "COND_WAIT"]
          /\ waitCvar' = [waitCvar EXCEPT ![t] = c]
          /\ waitingOn' = [waitingOn EXCEPT ![t] = c]
          /\ pc' = [pc EXCEPT ![t] = "unlock"]
      BY DEF WaitCondVar, GoTo
    <2>2. CvTypeOK /\ TypeOK
      BY DEF CvIInv, CvTypeOK
    <2>3. /\ state' \in [Threads -> ThreadStates] /\ state'[t] = "COND_WAIT"
          /\ \A u \in Threads \ {t} : state'[u] = state[u]
      BY <2>1, <2>2 DEF TypeOK, ThreadStates
    <2>4. /\ waitCvar' \in [Threads -> CVars \cup {NoCvar}] /\ waitCvar'[t] = c
          /\ \A u \in Threads \ {t} : waitCvar'[u] = waitCvar[u]
      BY <2>1, <2>2 DEF CvTypeOK
    <2>5. /\ waitingOn' \in [Threads -> CVars \cup {NoCvar}] /\ waitingOn'[t] = c
          /\ \A u \in Threads \ {t} : waitingOn'[u] = waitingOn[u]
      BY <2>1, <2>2 DEF CvTypeOK
    <2>6. /\ pc' \in [Threads -> Pcs] /\ pc'[t] = "unlock"
          /\ \A u \in Threads \ {t} : pc'[u] = pc[u]
      BY <2>1, <2>2 DEF CvTypeOK, Pcs
    <2> QED  BY <2>3, <2>4, <2>5, <2>6
  <1>3. c # NoCvar
    BY CVarsAssumption
  <1>4. /\ condQ[c] \in Seq(Threads) /\ IsInjective(condQ[c])
        /\ \A d \in CVars : t \notin Range(condQ[d])
    BY <1>1 DEF CvIInv, CvTypeOK, WaitersAreInCondQueue
  <1>5. /\ condQ' \in [CVars -> Seq(Threads)]
        /\ Range(condQ'[c]) = Range(condQ[c]) \cup {t} /\ IsInjective(condQ'[c])
        /\ \A d \in CVars \ {c} : condQ'[d] = condQ[d]
    <2> DEFINE q == Append(condQ[c], t)
    <2>1. q \in Seq(Threads) /\ Range(q) = Range(condQ[c]) \cup {t} /\ IsInjective(q)
      BY <1>4, AppendWaiter
    <2>2. condQ' = [condQ EXCEPT ![c] = q]
      BY <1>1
    <2> HIDE DEF q
    <2> QED  BY <2>1, <2>2 DEF CvIInv, CvTypeOK
  <1>6. CvTypeOK'
    BY <1>1, <1>2, <1>5 DEF CvIInv, CvTypeOK, TypeOK
  <1>7. WaitersAreQueued'
    BY <1>1, <1>2, QueuesAreKept DEF CvIInv
  <1>8. WaitersAreInCondQueue'
    <2>1. \A d \in CVars : IsInjective(condQ'[d])
      BY <1>5 DEF CvIInv, WaitersAreInCondQueue
    <2>2. ASSUME NEW u \in Threads, NEW d \in CVars
          PROVE  u \in Range(condQ'[d]) <=> waitingOn'[u] = d /\ pc'[u] \in {"unlock", "wait"}
      <3>1. u \in Range(condQ'[d]) <=> u \in Range(condQ[d]) \/ (d = c /\ u = t)
        BY <1>5
      <3>2. u \in Range(condQ[d]) <=> waitingOn[u] = d /\ pc[u] \in {"unlock", "wait"}
        BY DEF CvIInv, WaitersAreInCondQueue
      <3> QED  BY <1>2, <1>4, <3>1, <3>2
    <2> QED  BY <2>1, <2>2 DEF WaitersAreInCondQueue
  <1>9. RunInv'
    <2>1. \A u \in Local : state'[u] = "RUNNING" => state[u] = "RUNNING"
      BY <1>2 DEF Threads
    <2>2. suspendAllThread # NoThread => pc'[suspendAllThread] = "idle"
      BY <1>1, <1>2 DEF CvIInv, CvTypeOK, TypeOK, PlaceInv, RunInv, Threads
    <2> QED  BY <1>1, <2>1, <2>2 DEF CvIInv, PlaceInv, RunInv
  <1>10. WaitInv'
    BY <1>1, <1>2, <1>3 DEF CvIInv, PlaceInv, WaitInv
  <1>11. WakeInv'
    BY <1>1, <1>2, <1>3 DEF CvIInv, PlaceInv, WakeInv
  <1>12. ClaimInv'
    <2>1. \A me \in Threads : victim[me] # NoThread =>
            /\ state'[victim[me]] = "COND_WAIT"
            /\ waitCvar'[victim[me]] = NoCvar
      <3> SUFFICES ASSUME NEW me \in Threads, victim[me] # NoThread
                   PROVE  /\ state'[victim[me]] = "COND_WAIT"
                          /\ waitCvar'[victim[me]] = NoCvar
        OBVIOUS
      <3>1. state[victim[me]] = "COND_WAIT" /\ waitCvar[victim[me]] = NoCvar
        BY DEF CvIInv, PlaceInv, ClaimInv
      <3>2. victim[me] \in Threads
        BY DEF CvIInv, CvTypeOK
      <3> QED  BY <1>1, <1>2, <3>1, <3>2
    <2> QED  BY <1>1, <1>2, <2>1 DEF CvIInv, PlaceInv, ClaimInv
  <1>13. TimerInv'
    BY <1>1, <1>2 DEF CvIInv, CvTypeOK, PlaceInv, TimerInv, TimersBelongToWaits
  <1>14. HaltInv'
    <2>1. \A u \in GcAble : u \in Threads
      BY ThreadsAssumption DEF Threads
    <2>2. \A u \in GcAble : Halted(u) => Halted(u)'
      BY <1>1, <1>2, <2>1 DEF Halted, NativelyInterrupted
    <2> QED  BY <1>1, <2>2 DEF CvIInv, HaltInv, Suspendable
  <1> QED  BY <1>6, <1>7, <1>8, <1>9, <1>10, <1>11, <1>12, <1>13, <1>14 DEF CvIInv, PlaceInv

\* A woken thread leaves the queue it is in.
LEMMA WaitWakesKeepsCvIInv ==
  ASSUME CvIInv, NEW t \in Threads, WaitWakes(t)
  PROVE  CvIInv'
PROOF
  <1> DEFINE c == waitingOn[t]
             q == RemoveFirst(condQ[c], t)
  <1>1. /\ UNCHANGED <<state, suspending, priority, waitLock, owner, waitQ,
                       suspendAllThread, gcPhase, unvisited>>
        /\ UNCHANGED <<waitCvar, timed, interrupted, waitingOn, victim>>
        /\ condQ' = [condQ EXCEPT ![c] = q]
        /\ pc[t] = "wait" /\ state[t] = "RUNNING"
    BY DEF WaitWakes, vars, threadVars, lockVars, gcVars
  <1>2. /\ pc' \in [Threads -> Pcs]
        /\ pc'[t] = "relock"
        /\ \A u \in Threads \ {t} : pc'[u] = pc[u]
    BY DEF WaitWakes, GoTo, Pcs, CvIInv, CvTypeOK
  <1>3. c \in CVars
    BY <1>1 DEF CvIInv, CvTypeOK, PlaceInv, WaitInv
  <1>4. q \in Seq(Threads) /\ Range(q) = Range(condQ[c]) \ {t} /\ IsInjective(q)
    <2>1. condQ[c] \in Seq(Threads) /\ IsInjective(condQ[c]) /\ t \in Range(condQ[c])
      BY <1>1, <1>3 DEF CvIInv, CvTypeOK, WaitersAreInCondQueue
    <2> QED  BY <2>1, UnlinkWaiter
  <1> HIDE DEF c, q
  <1>5. /\ condQ' \in [CVars -> Seq(Threads)] /\ condQ'[c] = q
        /\ \A d \in CVars \ {c} : condQ'[d] = condQ[d]
    BY <1>1, <1>3, <1>4 DEF CvIInv, CvTypeOK
  <1>6. CvTypeOK'
    BY <1>1, <1>2, <1>5 DEF CvIInv, CvTypeOK, TypeOK
  <1>7. WaitersAreQueued'
    BY <1>1, QueuesAreKept DEF CvIInv
  <1>8. WaitersAreInCondQueue'
    <2>1. \A d \in CVars : IsInjective(condQ'[d])
      BY <1>4, <1>5 DEF CvIInv, WaitersAreInCondQueue
    <2>2. ASSUME NEW u \in Threads, NEW d \in CVars
          PROVE  u \in Range(condQ'[d]) <=> waitingOn'[u] = d /\ pc'[u] \in {"unlock", "wait"}
      <3>1. u \in Range(condQ'[d]) <=> u \in Range(condQ[d]) /\ ~(d = c /\ u = t)
        BY <1>4, <1>5
      <3>2. u \in Range(condQ[d]) <=> waitingOn[u] = d /\ pc[u] \in {"unlock", "wait"}
        BY DEF CvIInv, WaitersAreInCondQueue
      <3> QED  BY <1>1, <1>2, <3>1, <3>2 DEF c
    <2> QED  BY <2>1, <2>2 DEF WaitersAreInCondQueue
  <1>9. RunInv' /\ WaitInv'
    BY <1>1, <1>2 DEF CvIInv, CvTypeOK, TypeOK, PlaceInv, RunInv, WaitInv, Threads
  <1>10. WakeInv' /\ TimerInv' /\ HaltInv'
    BY <1>1 DEF CvIInv, PlaceInv, WakeInv, TimerInv, TimersBelongToWaits, HaltInv, Halted
  <1>11. ClaimInv'
    BY <1>1, <1>2 DEF CvIInv, PlaceInv, ClaimInv
  <1> QED  BY <1>6, <1>7, <1>8, <1>9, <1>10, <1>11 DEF CvIInv, PlaceInv

LEMMA WaitReturnsKeepsCvIInv ==
  ASSUME CvIInv, NEW t \in Threads, WaitReturns(t)
  PROVE  CvIInv'
PROOF
  <1>1. /\ UNCHANGED <<state, suspending, priority, waitLock, owner, waitQ,
                       suspendAllThread, gcPhase, unvisited>>
        /\ UNCHANGED <<condQ, waitCvar, timed, victim>>
        /\ pc[t] = "return" /\ state[t] = "RUNNING"
    BY DEF WaitReturns, vars, threadVars, lockVars, gcVars
  <1>2. /\ pc' \in [Threads -> Pcs] /\ pc'[t] = "idle"
        /\ \A u \in Threads \ {t} : pc'[u] = pc[u]
        /\ waitingOn' \in [Threads -> CVars \cup {NoCvar}] /\ waitingOn'[t] = NoCvar
        /\ \A u \in Threads \ {t} : waitingOn'[u] = waitingOn[u]
        /\ interrupted' \in [Threads -> BOOLEAN]
    BY DEF WaitReturns, GoTo, Pcs, CvIInv, CvTypeOK
  <1>3. CvTypeOK'
    BY <1>1, <1>2 DEF CvIInv, CvTypeOK, TypeOK
  <1>4. WaitersAreQueued'
    BY <1>1, QueuesAreKept DEF CvIInv
  <1>5. WaitersAreInCondQueue'
    BY <1>1, <1>2, CVarsAssumption DEF CvIInv, WaitersAreInCondQueue
  <1>6. RunInv'
    BY <1>1, <1>2 DEF CvIInv, CvTypeOK, TypeOK, PlaceInv, RunInv, Threads
  <1>7. WaitInv'
    BY <1>1, <1>2 DEF CvIInv, PlaceInv, WaitInv
  <1>8. WakeInv'
    BY <1>1, <1>2 DEF CvIInv, PlaceInv, WakeInv
  <1>9. ClaimInv' /\ TimerInv' /\ HaltInv'
    BY <1>1, <1>2 DEF CvIInv, PlaceInv, ClaimInv, TimerInv, TimersBelongToWaits, HaltInv,
       Halted
  <1> QED  BY <1>3, <1>4, <1>5, <1>6, <1>7, <1>8, <1>9 DEF CvIInv, PlaceInv

-----------------------------------------------------------------------------
(* The invariant holds.                                                     *)

LEMMA InitCvIInv == CvInit => CvIInv
PROOF
  <1> SUFFICES ASSUME CvInit PROVE CvIInv
    OBVIOUS
  <1>1. Init /\ TypeOK /\ WaitersAreQueued
    BY InitIInv DEF CvInit, IInv
  <1>2. /\ \A c \in CVars : condQ[c] = << >>
        /\ \A t \in Threads : /\ waitCvar[t] = NoCvar /\ waitingOn[t] = NoCvar
                              /\ ~interrupted[t] /\ pc[t] = "idle" /\ victim[t] = NoThread
        /\ timed = {}
    BY DEF CvInit
  <1>3. \A t \in Threads : /\ state[t] \in {"RUNNING", "RUNNABLE"}
                           /\ t \in Local => state[t] = "RUNNABLE"
    BY <1>1 DEF Init
  <1>4. suspendAllThread = NoThread /\ gcPhase = "none"
    BY <1>1 DEF Init
  <1>5. CvTypeOK
    BY <1>1 DEF CvInit, CvTypeOK, Pcs
  <1>6. WaitersAreInCondQueue
    <2>1. Range(<< >>) = {} /\ IsInjective(<< >>)
      BY DEF Range, IsInjective
    <2> QED  BY <1>2, <2>1 DEF WaitersAreInCondQueue
  <1>7. RunInv
    BY <1>3, <1>4 DEF RunInv, Threads
  <1>8. WaitInv /\ WakeInv /\ ClaimInv /\ TimerInv
    BY <1>2, <1>3 DEF WaitInv, WakeInv, ClaimInv, TimerInv, TimersBelongToWaits
  <1>9. HaltInv
    BY <1>4 DEF HaltInv
  <1> QED  BY <1>1, <1>5, <1>6, <1>7, <1>8, <1>9 DEF CvIInv, PlaceInv

LEMMA NextKeepsCvIInv ==
  ASSUME NoLateTimeouts, CvIInv, [CvNext]_allVars
  PROVE  CvIInv'
PROOF
  <1>1. ASSUME NEW t \in Local, Schedule(t) PROVE CvIInv'
    BY <1>1, ScheduleKeepsCvIInv
  <1>2. ASSUME NEW t \in Local, CollectCv(t) PROVE CvIInv'
    BY <1>2, PhaseKeepsCvIInv, SuspendKeepsCvIInv, ResumeKeepsCvIInv,
       ResumeLockWaitKeepsCvIInv, ResumeAllReturnsKeepsCvIInv DEF CollectCv, Collect
  <1>3. ASSUME NEW t \in Local, pc[t] = "idle", SuspendAll(t), UNCHANGED cvVars PROVE CvIInv'
    BY <1>3, PhaseKeepsCvIInv
  <1>4. ASSUME NEW t \in Threads, Wait(t) PROVE CvIInv'
    <2>1. ASSUME NEW c \in CVars, WaitRefused(t, c) PROVE CvIInv'
      BY <2>1, FlagKeepsCvIInv DEF WaitRefused, CvIInv, CvTypeOK
    <2> QED  BY <1>4, <2>1, WaitCondVarKeepsCvIInv DEF Wait
  <1>5. ASSUME NEW t \in Threads, WaitGoesOn(t) PROVE CvIInv'
    BY <1>5, UnlockKeepsCvIInv, WaitWakesKeepsCvIInv, WaitRelocksKeepsCvIInv,
       WaitReturnsKeepsCvIInv DEF WaitGoesOn
  <1>6. ASSUME NEW t \in Threads, Notify(t) PROVE CvIInv'
    BY <1>6, NotifyKeepsCvIInv
  <1>7. ASSUME NEW t \in Threads, Timeout(t) PROVE CvIInv'
    BY <1>7, TimeoutKeepsCvIInv
  <1>8. ASSUME NEW t \in Threads, Interrupt(t) PROVE CvIInv'
    <2>1. ASSUME NEW u \in Threads, InterruptFlags(t, u) PROVE CvIInv'
      BY <2>1, FlagKeepsCvIInv DEF InterruptFlags, CvIInv, CvTypeOK
    <2>2. ASSUME PR_ClearInterrupt(t) PROVE CvIInv'
      BY <2>2, FlagKeepsCvIInv DEF PR_ClearInterrupt, CvIInv, CvTypeOK
    <2> QED  BY <1>8, <2>1, <2>2, InterruptClaimsKeepsCvIInv, InterruptWakesKeepsCvIInv
             DEF Interrupt
  <1>9. ASSUME NEW t \in Threads, pc[t] = "idle", Lock(t), UNCHANGED cvVars PROVE CvIInv'
    BY <1>9, LockKeepsCvIInv
  <1>10. ASSUME NEW t \in Threads, UnlockCv(t) PROVE CvIInv'
    BY <1>10, UnlockKeepsCvIInv
  <1>11. ASSUME NEW t \in Threads, Reprioritize(t), UNCHANGED cvVars PROVE CvIInv'
    BY <1>11, ReprioritizeKeepsCvIInv
  <1>12. CASE UNCHANGED allVars
    <2>1. UNCHANGED <<vars, condQ, waitCvar, timed, interrupted, pc, waitingOn, victim>>
      BY <1>12 DEF allVars, cvVars
    <2>2. UNCHANGED <<state, suspending, priority, waitLock, owner, waitQ,
                      suspendAllThread, gcPhase, unvisited>>
      BY <2>1 DEF vars, threadVars, lockVars, gcVars
    <2>3. CvTypeOK' /\ WaitersAreQueued' /\ WaitersAreInCondQueue'
      BY <2>1, <2>2, QueuesAreKept, CondQueuesAreKept DEF CvIInv, CvTypeOK, TypeOK
    <2>4. PlaceInv' /\ HaltInv'
      BY <2>1, <2>2 DEF CvIInv, PlaceInv, RunInv, WaitInv, WakeInv, ClaimInv, TimerInv,
         TimersBelongToWaits, HaltInv, Halted
    <2> QED  BY <2>3, <2>4 DEF CvIInv
  <1>13. CASE CvNext
    BY <1>1, <1>2, <1>3, <1>4, <1>5, <1>6, <1>7, <1>8, <1>9, <1>10, <1>11, <1>13 DEF CvNext, LockCv
  <1> QED  BY <1>12, <1>13

\* Threads, locks, conditions, timers and interrupts stay consistent.
THEOREM SpecCvIInv == NoLateTimeouts /\ CvSpec => []CvIInv
PROOF
  <1>1. CASE NoLateTimeouts
    <2>1. CvIInv /\ [CvNext]_allVars => CvIInv'
      BY <1>1, NextKeepsCvIInv
    <2> QED  BY <2>1, InitCvIInv, PTL DEF CvSpec
  <1>2. CASE ~NoLateTimeouts
    BY <1>2
  <1> QED  BY <1>1, <1>2

\* Every variable keeps its type, and no timer outlives its wait.
THEOREM SpecCvInv == NoLateTimeouts /\ CvSpec => []CvInv
PROOF
  <1>1. CvIInv => CvInv
    BY DEF CvIInv, PlaceInv, TimerInv, CvInv
  <1> QED  BY <1>1, SpecCvIInv, PTL

\* No wake-up is lost: who waits is where a notify or an interrupt finds it.
THEOREM SpecWaitersCanBeWoken == NoLateTimeouts /\ CvSpec => []WaitersCanBeWoken
PROOF
  <1>1. CvIInv => WaitersCanBeWoken
    BY DEF CvIInv, PlaceInv, WakeInv, WaitersCanBeWoken
  <1> QED  BY <1>1, SpecCvIInv, PTL

\* Nothing that a waiter waits for makes it run while the world is stopped.
THEOREM SpecCvWorldIsStopped == NoLateTimeouts /\ CvSpec => []CvWorldIsStopped
PROOF
  <1>1. CvIInv => CvWorldIsStopped
    BY DEF CvIInv, HaltInv, Halted, Suspendable, CvWorldIsStopped
  <1> QED  BY <1>1, SpecCvIInv, PTL

\* A wait ends with the lock held, when no late timeout can spoil it.
THEOREM SpecWaitReturnsWithLock == NoLateTimeouts /\ CvSpec => WaitReturnsWithLock
PROOF
  <1> DEFINE Returns == \A t \in Threads : pc[t] = "return" /\ pc'[t] = "idle" =>
                          owner[CvLock[waitingOn[t]]] = t
  <1>1. CvIInv /\ [CvNext]_allVars => [Returns]_allVars
    <2> SUFFICES ASSUME CvIInv, CvNext, NEW t \in Threads, pc[t] = "return", pc'[t] = "idle"
                 PROVE  owner[CvLock[waitingOn[t]]] = t
      OBVIOUS
    <2>1. WaitReturns(t)
      <3>1. pc[t] = "return" /\ pc'[t] = "idle" /\ pc \in [Threads -> Pcs]
        BY DEF CvIInv, CvTypeOK
      <3>2. pc' # pc
        BY <3>1
      <3>3. ASSUME NEW u \in Threads, Wait(u) PROVE FALSE
        BY <3>1, <3>2, <3>3 DEF Wait, WaitRefused, WaitCondVar, GoTo
      <3>4. ASSUME NEW u \in Threads, Notify(u) \/ Timeout(u) PROVE FALSE
        BY <3>2, <3>4 DEF Notify, PR_NotifyCondVar, PR_NotifyAllCondVar, Timeout,
           ClockInterrupt, NativeTimeout
      <3>5. ASSUME NEW u \in Threads, Interrupt(u) PROVE FALSE
        BY <3>1, <3>2, <3>5 DEF Interrupt, InterruptFlags, InterruptClaims, InterruptWakes,
           PR_ClearInterrupt, GoTo
      <3>6. ASSUME NEW u \in Threads, WaitGoesOn(u) PROVE u = t /\ WaitReturns(u)
        BY <3>1, <3>6 DEF WaitGoesOn, WaitUnlocks, WaitWakes, WaitRelocks, WaitReturns, GoTo
      <3>7. ~UNCHANGED cvVars
        BY <3>2 DEF cvVars
      <3> QED  BY <3>3, <3>4, <3>5, <3>6, <3>7 DEF CvNext, Schedule, CollectCv, LockCv, UnlockCv
    <2>2. state[t] = "RUNNING"
      BY <2>1 DEF WaitReturns
    <2> QED  BY <2>2 DEF CvIInv, PlaceInv, WaitInv
  <1> QED  BY <1>1, SpecCvIInv, PTL DEF CvSpec, WaitReturnsWithLock

-----------------------------------------------------------------------------
(* Marks and locks under conditions.                                        *)

\* No native thread interrupts a collectable one.  One that does makes it runnable
\* with its mark, which PR_ResumeAll then leaves.
NoMarkedInterrupts == \A u \in GcAble : ~NativelyInterrupted(u)

\* A step that leaves locks, marks and the collector alone.
LEMMA WaitStepKeepsIInv ==
  ASSUME IInv, UNCHANGED <<suspending, priority, waitLock, lockVars, gcVars>>,
         state' \in [Threads -> ThreadStates],
         \A u \in Threads :
           \/ state'[u] = state[u]
           \/ /\ state[u] \in {"RUNNING", "COND_WAIT"} /\ state'[u] # "LOCK_WAIT"
              /\ suspending[u] => state'[u] = "SUSPENDED"
              /\ ~suspending[u] => state'[u] # "SUSPENDED"
  PROVE  IInv'
PROOF
  <1>1. UNCHANGED <<suspending, priority, waitLock, owner, waitQ, suspendAllThread,
                    gcPhase, unvisited>>
    BY DEF lockVars, gcVars
  <1>2. TypeOK' /\ FreeLockAwaitsResume' /\ OwnersDoNotWait'
    BY <1>1 DEF IInv, TypeOK, FreeLockAwaitsResume, OwnersDoNotWait
  <1>3. WaitersAreQueued'
    BY <1>1, QueuesAreKept DEF IInv
  <1>4. CollectorStops'
    <2>1. \A u \in Threads : Stopped(u)' <=> Stopped(u)
      BY <1>1 DEF Stopped
    <2> QED  BY <1>1, <2>1 DEF IInv, CollectorStops, StoppedThreads, Suspendable
  <1>5. MarkedThreadsAreBlocked'
    BY <1>1 DEF IInv, MarkedThreadsAreBlocked
  <1> QED  BY <1>2, <1>3, <1>4, <1>5 DEF IInv

\* A notified or timed out thread that is marked becomes a suspended one.
LEMMA NotifyThreadsKeepsIInv ==
  ASSUME CvIInv, IInv, NEW us \in SUBSET Threads, \A u \in us : waitCvar[u] # NoCvar,
         NotifyThreads(us), UNCHANGED <<suspending, priority, waitLock, lockVars, gcVars>>
  PROVE  IInv'
PROOF
  <1>1. \A u \in us : state[u] = "COND_WAIT"
    BY DEF CvIInv, PlaceInv, WakeInv
  <1>2. \A u \in Threads : /\ WakeState(u) \in {"SUSPENDED", "RUNNABLE", "RUNNING"}
                           /\ suspending[u] <=> WakeState(u) = "SUSPENDED"
    BY DEF WakeState, Threads, IInv, TypeOK
  <1>3. /\ state' \in [Threads -> ThreadStates]
        /\ \A u \in Threads : state'[u] = state[u] \/ (u \in us /\ state'[u] = WakeState(u))
    BY <1>2 DEF NotifyThreads, IInv, TypeOK, ThreadStates
  <1> HIDE DEF WakeState
  <1> QED  BY <1>1, <1>2, <1>3, WaitStepKeepsIInv

LEMMA NotifyKeepsIInv ==
  ASSUME CvIInv, IInv, NEW t \in Threads, Notify(t)
  PROVE  IInv'
PROOF
  <1> PICK c \in CVars : PR_NotifyCondVar(t, c) \/ PR_NotifyAllCondVar(t, c)
    BY DEF Notify
  <1>1. \A i \in Notifiable(c) : /\ condQ[c][i] \in Threads
                                 /\ waitCvar[condQ[c][i]] # NoCvar
    BY NotifiableThreads DEF Notifiable
  <1>2. CASE PR_NotifyCondVar(t, c)
    <2>1. FirstOf(Notifiable(c)) \in Notifiable(c)
      <3>1. Notifiable(c) \in SUBSET Nat
        BY NotifiableThreads DEF CvIInv, CvTypeOK
      <3> QED  BY <1>2, <3>1, FirstOfPlaces DEF PR_NotifyCondVar
    <2> QED  BY <1>1, <1>2, <2>1, NotifyThreadsKeepsIInv DEF PR_NotifyCondVar
  <1>3. CASE PR_NotifyAllCondVar(t, c)
    <2> DEFINE us == {condQ[c][i] : i \in Notifiable(c)}
    <2>1. us \in SUBSET Threads /\ \A u \in us : waitCvar[u] # NoCvar
      BY <1>1
    <2>2. /\ NotifyThreads(us)
          /\ UNCHANGED <<suspending, priority, waitLock, lockVars, gcVars>>
      BY <1>3 DEF PR_NotifyAllCondVar
    <2> HIDE DEF us
    <2> QED  BY <2>1, <2>2, NotifyThreadsKeepsIInv
  <1> QED  BY <1>2, <1>3

LEMMA TimeoutKeepsIInv ==
  ASSUME NoLateTimeouts, CvIInv, IInv, NEW u \in Threads, Timeout(u)
  PROVE  IInv'
PROOF
  <1>1. CASE NativeTimeout(u)
    BY <1>1, NotifyThreadsKeepsIInv DEF NativeTimeout
  <1>2. CASE ClockInterrupt(u)
    <2>1. waitCvar[u] # NoCvar /\ u \in Local
      BY <1>2, ClockFindsWaiter DEF ClockInterrupt
    <2>2. state' = [state EXCEPT ![u] = WakeState(u)]
      BY <1>2, <2>1 DEF ClockInterrupt, WakeState, CvIInv, CvTypeOK, TypeOK
    <2> HIDE DEF WakeState
    <2>3. NotifyThreads({u})
      BY <1>2, <2>2 DEF ClockInterrupt, NotifyThreads, CvIInv, CvTypeOK, TypeOK
    <2> QED  BY <1>2, <2>1, <2>3, NotifyThreadsKeepsIInv DEF ClockInterrupt
  <1> QED  BY <1>1, <1>2 DEF Timeout

\* A local thread inside PR_Interrupt does not run while threads are marked, and a
\* native one by hypothesis does not wake a thread that may be.
LEMMA InterruptWakesKeepsIInv ==
  ASSUME NoMarkedInterrupts, CvIInv, IInv, NEW me \in Threads, InterruptWakes(me)
  PROVE  IInv'
PROOF
  <1> DEFINE u == victim[me]
  <1>1. /\ u \in Threads
        /\ state[u] = "COND_WAIT"
        /\ <<me, u>> \in Interrupts
        /\ pc[me] = "interrupt" /\ state[me] = "RUNNING"
    BY DEF InterruptWakes, CvIInv, CvTypeOK, PlaceInv, ClaimInv, WaitInv
  <1>2. state' = [state EXCEPT ![u] = IF u \in Local THEN "RUNNABLE" ELSE "RUNNING"]
    BY DEF InterruptWakes
  <1> HIDE DEF u
  <1>3. ~suspending[u]
    <2> SUFFICES ASSUME suspending[u] PROVE FALSE
      OBVIOUS
    <2>1. u \in GcAble /\ suspendAllThread # NoThread
      <3>1. TypeOK /\ u \in StoppedThreads /\ (suspendAllThread = NoThread <=> gcPhase = "none")
        BY <1>1 DEF IInv, CollectorStops, Stopped
      <3>2. StoppedThreads \subseteq GcAble /\ (gcPhase = "none" => StoppedThreads = {})
        BY <3>1 DEF StoppedThreads, Suspendable, TypeOK, GcPhases
      <3> QED  BY <3>1, <3>2
    <2>2. me \notin Local
      BY <1>1, <2>1 DEF CvIInv, PlaceInv, RunInv
    <2> QED  BY <1>1, <2>1, <2>2 DEF NoMarkedInterrupts, NativelyInterrupted, Threads
  <1>4. /\ state' \in [Threads -> ThreadStates]
        /\ state'[u] \in {"RUNNABLE", "RUNNING"}
        /\ \A v \in Threads \ {u} : state'[v] = state[v]
    BY <1>1, <1>2 DEF IInv, TypeOK, ThreadStates
  <1>5. UNCHANGED <<suspending, priority, waitLock, lockVars, gcVars>>
    BY DEF InterruptWakes
  <1> QED  BY <1>1, <1>3, <1>4, <1>5, WaitStepKeepsIInv

\* The resume of a thread that waits for a condition takes its mark away; a thread of
\* the walk is never on the run queue, where its mark would stay.
LEMMA ResumeWaiterKeepsIInv ==
  ASSUME IInv, NEW t \in Local, NEW u \in GcAble, ResumeCondWait(t, u) \/ ResumeRunnable(t, u)
  PROVE  IInv'
PROOF
  <1>1. /\ gcPhase = "resuming" /\ u \in unvisited
        /\ u \in Threads
    BY ThreadsAssumption DEF ResumeCondWait, ResumeRunnable, Walking, Visit, Threads
  <1>2. Stopped(u)
    BY <1>1 DEF IInv, CollectorStops, StoppedThreads
  <1>3. ResumeCondWait(t, u)
    BY <1>1, <1>2 DEF ResumeRunnable, Stopped, IInv, MarkedThreadsAreBlocked
  <1>4. /\ state[u] = "COND_WAIT"
        /\ unvisited' = unvisited \ {u}
        /\ suspending' = [suspending EXCEPT ![u] = FALSE]
        /\ UNCHANGED <<state, priority, waitLock, owner, waitQ, suspendAllThread, gcPhase>>
    BY <1>3 DEF ResumeCondWait, Visit, Unmark, lockVars
  <1>5. /\ suspending' \in [Threads -> BOOLEAN] /\ ~suspending'[u]
        /\ \A v \in Threads \ {u} : suspending'[v] = suspending[v]
    BY <1>1, <1>4 DEF IInv, TypeOK
  <1>6. TypeOK' /\ WaitersAreQueued' /\ OwnersDoNotWait' /\ MarkedThreadsAreBlocked'
    BY <1>4, <1>5 DEF IInv, TypeOK, WaitersAreQueued, OwnersDoNotWait, MarkedThreadsAreBlocked
  <1>7. FreeLockAwaitsResume'
    <2> SUFFICES ASSUME NEW l \in Locks, owner[l] = NoThread, waitQ[l] # << >>
                 PROVE  suspending'[Head(waitQ[l])]
      BY <1>4 DEF FreeLockAwaitsResume
    <2>1. Head(waitQ[l]) \in Threads /\ state[Head(waitQ[l])] = "LOCK_WAIT"
      BY FirstWaiter DEF IInv
    <2> QED  BY <1>4, <1>5, <2>1 DEF IInv, FreeLockAwaitsResume
  <1>8. CollectorStops'
    <2>1. \A v \in Threads \ {u} : Stopped(v)' <=> Stopped(v)
      BY <1>4, <1>5 DEF Stopped
    <2>2. ~Stopped(u)'
      BY <1>4, <1>5 DEF Stopped
    <2> QED  BY <1>1, <1>4, <2>1, <2>2 DEF IInv, CollectorStops, StoppedThreads, Suspendable
  <1> QED  BY <1>6, <1>7, <1>8 DEF IInv

\* PR_Unlock inside a wait, by a thread that is in _PR_COND_WAIT already.
LEMMA WaitUnlocksKeepsIInv ==
  ASSUME CvIInv, IInv, NEW t \in Threads, WaitUnlocks(t)
  PROVE  IInv'
PROOF
  <1>1. /\ CvLock[waitingOn[t]] \in Locks
        /\ owner[CvLock[waitingOn[t]]] = t
        /\ pc[t] = "unlock"
    BY CVarsAssumption DEF WaitUnlocks, CvIInv, CvTypeOK, PlaceInv, WaitInv
  <1>2. t # suspendAllThread
    BY <1>1, ThreadsAssumption DEF CvIInv, PlaceInv, RunInv
  <1> QED  BY <1>1, <1>2, ReleaseKeepsIInv DEF WaitUnlocks

LEMMA CvNextKeepsIInv ==
  ASSUME NoLateTimeouts, NoMarkedInterrupts, CvIInv, IInv, [CvNext]_allVars
  PROVE  IInv'
PROOF
  <1>1. ASSUME UNCHANGED vars PROVE IInv'
    <2>1. [Next]_vars
      BY <1>1
    <2> QED  BY <2>1, NextKeepsIInv
  <1>2. ASSUME Next PROVE IInv'
    BY <1>2, NextKeepsIInv
  <1>3. ASSUME NEW t \in Local, Schedule(t) PROVE IInv'
    BY <1>3, DispatchPreemptKeepIInv DEF Schedule
  <1>4. ASSUME NEW t \in Local, CollectCv(t) PROVE IInv'
    BY <1>2, <1>4, ResumeWaiterKeepsIInv DEF CollectCv, Next
  <1>5. ASSUME NEW t \in Threads, Wait(t) PROVE IInv'
    <2>1. ASSUME NEW c \in CVars, NEW b \in BOOLEAN, WaitCondVar(t, c, b) PROVE IInv'
      <3>1. /\ state[t] = "RUNNING" /\ state' = [state EXCEPT ![t] = "COND_WAIT"]
            /\ UNCHANGED <<suspending, priority, waitLock, lockVars, gcVars>>
        BY <2>1 DEF WaitCondVar, Free
      <3>2. ~suspending[t]
        BY <3>1 DEF IInv, MarkedThreadsAreBlocked
      <3>3. /\ state' \in [Threads -> ThreadStates] /\ state'[t] = "COND_WAIT"
            /\ \A u \in Threads \ {t} : state'[u] = state[u]
        BY <3>1 DEF IInv, TypeOK, ThreadStates
      <3> QED  BY <3>1, <3>2, <3>3, WaitStepKeepsIInv
    <2> QED  BY <1>1, <1>5, <2>1 DEF Wait, WaitRefused
  <1>6. ASSUME NEW t \in Threads, WaitGoesOn(t) PROVE IInv'
    <2>1. CASE WaitRelocks(t)
      <3>1. CvLock[waitingOn[t]] \in Locks
        BY <2>1, CVarsAssumption DEF WaitRelocks, CvIInv, CvTypeOK, PlaceInv, WaitInv
      <3> QED  BY <2>1, <3>1, LockKeepsIInv DEF WaitRelocks
    <2> QED  BY <1>1, <1>6, <2>1, WaitUnlocksKeepsIInv DEF WaitGoesOn, WaitWakes, WaitReturns
  <1>7. ASSUME NEW t \in Threads, Notify(t) \/ Timeout(t) PROVE IInv'
    BY <1>7, NotifyKeepsIInv, TimeoutKeepsIInv
  <1>8. ASSUME NEW t \in Threads, Interrupt(t) PROVE IInv'
    BY <1>1, <1>8, InterruptWakesKeepsIInv
    DEF Interrupt, InterruptFlags, InterruptClaims, PR_ClearInterrupt
  <1>9. CASE UNCHANGED allVars
    BY <1>1, <1>9 DEF allVars
  <1> QED  BY <1>2, <1>3, <1>4, <1>5, <1>6, <1>7, <1>8, <1>9
           DEF CvNext, Next, LockCv, UnlockCv

\* If no native thread interrupts a collectable one, conditions leave the invariant of
\* the locks intact.
THEOREM CvSpecIInv == NoLateTimeouts /\ NoMarkedInterrupts /\ CvSpec => []IInv
PROOF
  <1>1. CvInit => IInv
    BY InitIInv DEF CvInit
  <1>2. CASE NoLateTimeouts /\ NoMarkedInterrupts
    <2>1. CvIInv /\ IInv /\ [CvNext]_allVars => IInv'
      BY <1>2, CvNextKeepsIInv
    <2> QED  BY <1>1, <1>2, <2>1, SpecCvIInv, PTL DEF CvSpec
  <1>3. CASE ~(NoLateTimeouts /\ NoMarkedInterrupts)
    BY <1>3
  <1> QED  BY <1>2, <1>3

\* ... so that the walks of PR_SuspendAll and PR_ResumeAll stop and release exactly the
\* threads they should, although those are notified, interrupted or timed out on the
\* way: when a collection is over nobody stays suspended, and no lock lies idle.
THEOREM SpecCvCollectorStops ==
  NoLateTimeouts /\ NoMarkedInterrupts /\ CvSpec =>
    [](CollectorStops /\ NobodyStaysSuspended /\ NoIdleWaiters)
PROOF
  <1>1. IInv => CollectorStops /\ NobodyStaysSuspended
    BY DEF IInv, CollectorStops, StoppedThreads, NobodyStaysSuspended
  <1> QED  BY <1>1, IInvNoIdleWaiters, CvSpecIInv, PTL

-----------------------------------------------------------------------------
(* PrCondVar implements AbstractCondVar.                                    *)

HolderView == [l \in Locks |-> HolderSeen(l)]
PhaseView  == [t \in Threads |-> PhaseSeen(t)]

\* Outside a wait a thread is seen to hold the locks it owns.
LEMMA SeenOutside ==
  ASSUME CvIInv, NEW t \in Threads, pc[t] = "idle"
  PROVE  /\ waitingOn[t] = NoCvar /\ waitCvar[t] = NoCvar
         /\ PhaseSeen(t) = "out"
         /\ \A l \in Locks : owner[l] = t => HolderSeen(l) = t
BY DEF CvIInv, PlaceInv, WaitInv, WakeInv, PhaseSeen, HolderSeen

\* A thread is seen waiting until its wait.cvar is cleared, and woken from then
\* on until it owns the lock.
LEMMA SeenInWait ==
  ASSUME CvIInv, NEW t \in Threads
  PROVE  /\ waitCvar[t] # NoCvar => /\ PhaseSeen(t) = "waiting"
                                    /\ state[t] = "COND_WAIT"
                                    /\ pc[t] \in {"unlock", "wait"}
                                    /\ waitCvar[t] = waitingOn[t]
         /\ waitCvar[t] = NoCvar => PhaseSeen(t) # "waiting"
         /\ /\ waitCvar[t] = NoCvar
            /\ \/ pc[t] \in {"unlock", "wait", "relock"}
               \/ pc[t] = "return" /\ owner[CvLock[waitingOn[t]]] # t
            => /\ waitingOn[t] # NoCvar
               /\ PhaseSeen(t) = "woken"
BY DEF CvIInv, PlaceInv, WaitInv, WakeInv, PhaseSeen

\* What does not show.
LEMMA UnseenStep ==
  ASSUME CvIInv, UNCHANGED <<owner, waitCvar, waitingOn, interrupted>>,
         \A t \in Threads :
           \/ pc'[t] = pc[t]
           \/ {pc[t], pc'[t]} \subseteq {"idle", "wait", "relock", "interrupt"}
           \/ pc[t] = "relock" /\ pc'[t] = "return" /\ owner[CvLock[waitingOn[t]]] # t
  PROVE  UNCHANGED AbstractCv!acvVars
PROOF
  <1>1. \A l \in Locks : HolderSeen(l)' = HolderSeen(l)
    BY DEF HolderSeen
  <1>2. \A t \in Threads : PhaseSeen(t)' = PhaseSeen(t)
    <2> SUFFICES ASSUME NEW t \in Threads PROVE PhaseSeen(t)' = PhaseSeen(t)
      OBVIOUS
    <2>1. CASE pc'[t] = pc[t]
      BY <2>1 DEF PhaseSeen
    <2>2. CASE pc[t] # "return" /\ (pc'[t] # "return" \/ owner[CvLock[waitingOn[t]]] # t)
      BY <2>2 DEF PhaseSeen
    <2> QED  BY <2>1, <2>2
  <1>3. UNCHANGED <<HolderView, PhaseView>>
    BY <1>1, <1>2 DEF HolderView, PhaseView
  <1> QED  BY <1>3 DEF AbstractCv!acvVars, HolderView, PhaseView

\* A lock comes to u, outside a wait or at its end.
LEMMA GiveSeen ==
  ASSUME CvIInv, NEW u \in Threads, NEW l \in Locks,
         owner' \in [Locks -> Threads \cup {NoThread}],
         owner'[l] = u, owner[l] # u,
         \A k \in Locks \ {l} : owner'[k] = owner[k],
         UNCHANGED <<waitCvar, waitingOn, interrupted>>,
         \/ pc[u] = "idle" /\ pc'[u] = "idle"
         \/ /\ pc[u] \in {"relock", "return"} /\ pc'[u] = "return"
            /\ l = CvLock[waitingOn[u]] /\ waitCvar[u] = NoCvar,
         \A t \in Threads \ {u} :
           \/ pc'[t] = pc[t]
           \/ /\ pc[t] = "unlock" /\ pc'[t] = "wait"
              /\ owner[l] = t /\ CvLock[waitingOn[t]] = l,
         \A t \in Threads : owner[l] = t => pc[t] # "return"
  PROVE  /\ AbstractCv!Give(HolderSeen(l), u, l)
         /\ PhaseSeen(u) = IF pc[u] = "idle" THEN "out" ELSE "woken"
PROOF
  <1>1. /\ PhaseSeen(u) = IF pc[u] = "idle" THEN "out" ELSE "woken"
        /\ PhaseSeen(u)' = IF pc[u] = "idle" THEN "out" ELSE "back"
    <2>1. CASE pc[u] = "idle"
      BY <2>1, SeenOutside DEF PhaseSeen
    <2>2. CASE pc[u] \in {"relock", "return"}
      <3>1. waitingOn[u] # NoCvar /\ PhaseSeen(u) = "woken"
        BY <2>2, SeenInWait
      <3>2. PhaseSeen(u)' = "back"
        BY <2>2, <3>1 DEF PhaseSeen
      <3> QED  BY <2>2, <3>1, <3>2
    <2> QED  BY <2>1, <2>2
  <1>2. HolderSeen(l) # u
    BY ThreadsAssumption DEF HolderSeen
  <1>3. HolderSeen(l)' = u
    BY DEF HolderSeen
  <1>4. \A k \in Locks \ {l} : HolderSeen(k)' = HolderSeen(k)
    BY DEF HolderSeen
  <1>5. \A t \in Threads \ {u} : PhaseSeen(t)' = PhaseSeen(t)
    <2> SUFFICES ASSUME NEW t \in Threads \ {u} PROVE PhaseSeen(t)' = PhaseSeen(t)
      OBVIOUS
    <2>1. pc'[t] = "return" <=> pc[t] = "return"
      OBVIOUS
    <2>2. CASE pc[t] = "return"
      <3>1. CvLock[waitingOn[t]] \in Locks
        BY <2>2, CVarsAssumption DEF CvIInv, CvTypeOK, PlaceInv, WaitInv
      <3>2. owner'[CvLock[waitingOn[t]]] = t <=> owner[CvLock[waitingOn[t]]] = t
        BY <2>2, <3>1
      <3> QED  BY <2>1, <3>2 DEF PhaseSeen
    <2>3. CASE pc[t] # "return"
      BY <2>1, <2>3 DEF PhaseSeen
    <2> QED  BY <2>2, <2>3
  <1>6. HolderView' = [HolderView EXCEPT ![l] = u]
    BY <1>3, <1>4 DEF HolderView
  <1>7. PhaseView' = [PhaseView EXCEPT ![u] = IF @ = "woken" THEN "back" ELSE @]
    <2>1. PhaseView[u] = PhaseSeen(u)
      BY DEF PhaseView
    <2>2. PhaseSeen(u)' = IF PhaseView[u] = "woken" THEN "back" ELSE PhaseView[u]
      BY <1>1, <2>1
    <2> QED  BY <1>5, <2>2 DEF PhaseView
  <1>8. AbstractCv!MayHave(u, l)
    BY <1>1 DEF AbstractCv!MayHave
  <1> QED  BY <1>1, <1>2, <1>6, <1>7, <1>8 DEF AbstractCv!Give, HolderView, PhaseView

\* Threads that wait are woken.
LEMMA WakeSeen ==
  ASSUME CvIInv, NEW us \in SUBSET Threads, \A u \in us : waitCvar[u] # NoCvar,
         \A u \in Threads : waitCvar'[u] = IF u \in us THEN NoCvar ELSE waitCvar[u],
         UNCHANGED <<owner, waitingOn>>,
         \A t \in Threads : pc'[t] = pc[t] \/ (pc[t] = "idle" /\ pc'[t] = "interrupt")
  PROVE  /\ AbstractCv!Wake(us)
         /\ HolderView' = HolderView
PROOF
  <1>1. \A l \in Locks : HolderSeen(l)' = HolderSeen(l)
    BY DEF HolderSeen
  <1>2. ASSUME NEW u \in us PROVE PhaseSeen(u)' = "woken"
    <2>1. pc[u] \in {"unlock", "wait"} /\ waitingOn[u] # NoCvar
      BY SeenInWait
    <2>2. waitCvar'[u] = NoCvar /\ pc'[u] # "return"
      BY <2>1
    <2> QED  BY <2>1, <2>2 DEF PhaseSeen
  <1>3. ASSUME NEW t \in Threads \ us PROVE PhaseSeen(t)' = PhaseSeen(t)
    BY <1>3 DEF PhaseSeen
  <1>4. PhaseView' = [t \in Threads |-> IF t \in us THEN "woken" ELSE PhaseView[t]]
    BY <1>2, <1>3 DEF PhaseView
  <1> QED  BY <1>1, <1>4 DEF AbstractCv!Wake, HolderView, PhaseView

LEMMA ScheduleOrCollectSeen ==
  ASSUME CvIInv, UNCHANGED cvVars, UNCHANGED owner
  PROVE  UNCHANGED AbstractCv!acvVars
BY UnseenStep DEF cvVars

\* TakeFree is Take, or Regain at the end of a wait.
LEMMA TakeSeen ==
  ASSUME CvIInv, NEW t \in Threads, NEW l \in Locks, state[t] = "RUNNING",
         TakeFree(t, l), UNCHANGED <<waitCvar, waitingOn, interrupted>>,
         \/ pc[t] = "idle" /\ UNCHANGED pc
         \/ pc[t] = "relock" /\ l = CvLock[waitingOn[t]] /\ GoTo(t, "return")
  PROVE  AbstractCv!Take(t, l) \/ AbstractCv!Regain(t)
PROOF
  <1>1. /\ owner[l] = NoThread /\ NoThread \notin Threads
        /\ owner' \in [Locks -> Threads \cup {NoThread}] /\ owner'[l] = t
        /\ \A k \in Locks \ {l} : owner'[k] = owner[k]
    BY ThreadsAssumption DEF TakeFree, CvIInv, CvTypeOK, TypeOK
  <1>2. /\ \A u \in Threads \ {t} : pc'[u] = pc[u]
        /\ \/ pc[t] = "idle" /\ pc'[t] = "idle"
           \/ pc[t] = "relock" /\ pc'[t] = "return" /\ l = CvLock[waitingOn[t]]
    BY DEF GoTo, CvIInv, CvTypeOK
  <1>3. waitCvar[t] = NoCvar
    BY DEF CvIInv, PlaceInv, WakeInv
  <1>4. /\ AbstractCv!Give(HolderSeen(l), t, l)
        /\ PhaseSeen(t) = IF pc[t] = "idle" THEN "out" ELSE "woken"
    BY <1>1, <1>2, <1>3, GiveSeen
  <1>5. HolderSeen(l) = NoThread
    BY <1>1 DEF HolderSeen
  <1>6. PhaseView[t] = PhaseSeen(t)
    BY DEF PhaseView
  <1> QED  BY <1>2, <1>4, <1>5, <1>6 DEF AbstractCv!Take, AbstractCv!Regain, PhaseView

\* PR_Lock that blocks is not seen.
LEMMA WaitForSeen ==
  ASSUME CvIInv, NEW t \in Threads, NEW l \in Locks, state[t] = "RUNNING",
         WaitFor(t, l), UNCHANGED <<waitCvar, waitingOn, interrupted>>,
         \/ pc[t] = "idle" /\ UNCHANGED pc
         \/ pc[t] = "relock" /\ l = CvLock[waitingOn[t]] /\ GoTo(t, "return")
  PROVE  UNCHANGED AbstractCv!acvVars
PROOF
  <1>1. owner[l] # t /\ UNCHANGED owner
    BY DEF WaitFor
  <1>2. /\ \A u \in Threads \ {t} : pc'[u] = pc[u]
        /\ \/ pc'[t] = pc[t]
           \/ pc[t] = "relock" /\ pc'[t] = "return" /\ l = CvLock[waitingOn[t]]
    BY DEF GoTo, CvIInv, CvTypeOK
  <1> QED  BY <1>1, <1>2, UnseenStep

\* A lock comes to a waiter that is in PR_Lock, inside a wait or outside one.
LEMMA WaiterMayReceive ==
  ASSUME CvIInv, NEW u \in Threads, state[u] = "LOCK_WAIT"
  PROVE  /\ waitCvar[u] = NoCvar
         /\ \/ pc[u] = "idle"
            \/ pc[u] = "return" /\ waitLock[u] = CvLock[waitingOn[u]]
BY DEF CvIInv, PlaceInv, WaitInv, WakeInv

\* Release is Release or HandOver of a thread outside a wait; of a thread that
\* begins one, which is seen to have given the lock up already, it is Take,
\* Regain or no step at all.
LEMMA ReleaseSeen ==
  ASSUME CvIInv, NEW t \in Threads, NEW l \in Locks, Release(l), owner[l] = t,
         UNCHANGED <<waitCvar, waitingOn, interrupted>>,
         \/ pc[t] = "idle" /\ state[t] = "RUNNING" /\ UNCHANGED pc
         \/ pc[t] = "unlock" /\ l = CvLock[waitingOn[t]] /\ GoTo(t, "wait")
  PROVE  \/ AbstractCv!Release(t, l)
         \/ \E u \in Threads : \/ AbstractCv!HandOver(t, u, l)
                              \/ AbstractCv!Take(u, l)
                              \/ AbstractCv!Regain(u)
         \/ UNCHANGED AbstractCv!acvVars
PROOF
  <1>1. /\ owner' \in [Locks -> Threads \cup {NoThread}]
        /\ \A k \in Locks \ {l} : owner'[k] = owner[k]
        /\ \/ \E u \in Threads : /\ state[u] = "LOCK_WAIT" /\ waitLock[u] = l
                               /\ owner'[l] = u
           \/ owner'[l] = NoThread
    <2>1. TypeOK /\ WaitersAreQueued
      BY DEF CvIInv, CvTypeOK
    <2> QED  BY <2>1, ReleaseEffect
  <1>2. /\ \A u \in Threads \ {t} : pc'[u] = pc[u]
        /\ \/ pc[t] = "idle" /\ pc'[t] = "idle"
           \/ pc[t] = "unlock" /\ pc'[t] = "wait" /\ l = CvLock[waitingOn[t]]
    BY DEF GoTo, CvIInv, CvTypeOK
  <1>3. pc[t] = "idle" => HolderSeen(l) = t /\ PhaseSeen(t) = "out"
    BY SeenOutside
  <1>4. pc[t] = "unlock" => HolderSeen(l) = NoThread
    BY <1>2 DEF HolderSeen
  <1>5. HolderView[l] = HolderSeen(l) /\ PhaseView[t] = PhaseSeen(t)
    BY DEF HolderView, PhaseView
  <1>6. pc[t] = "idle" => AbstractCv!Holds(t, l)
    BY <1>3, <1>5 DEF AbstractCv!Holds, HolderView, PhaseView
  <1>7. ASSUME NEW u \in Threads, state[u] = "LOCK_WAIT", waitLock[u] = l, owner'[l] = u
        PROVE  \/ AbstractCv!HandOver(t, u, l)
               \/ AbstractCv!Take(u, l)
               \/ AbstractCv!Regain(u)
    <2>1. /\ waitCvar[u] = NoCvar
          /\ pc[u] = "idle" \/ (pc[u] = "return" /\ CvLock[waitingOn[u]] = l)
      BY <1>7, WaiterMayReceive
    <2>2. u # t
      BY <1>2, <1>7, <2>1
    <2>3. /\ AbstractCv!Give(HolderSeen(l), u, l)
          /\ PhaseSeen(u) = IF pc[u] = "idle" THEN "out" ELSE "woken"
      BY <1>1, <1>2, <1>7, <2>1, <2>2, GiveSeen
    <2>4. PhaseView[u] = PhaseSeen(u)
      BY DEF PhaseView
    <2>5. CASE pc[t] = "idle"
      BY <1>3, <1>6, <2>3, <2>5 DEF AbstractCv!HandOver
    <2>6. CASE pc[t] = "unlock"
      BY <1>4, <2>1, <2>3, <2>4, <2>6 DEF AbstractCv!Take, AbstractCv!Regain, PhaseView
    <2> QED  BY <1>2, <2>5, <2>6
  <1>8. ASSUME owner'[l] = NoThread
        PROVE  AbstractCv!Release(t, l) \/ UNCHANGED AbstractCv!acvVars
    <2>1. HolderSeen(l)' = NoThread
      BY <1>8, ThreadsAssumption DEF HolderSeen
    <2>2. \A k \in Locks \ {l} : HolderSeen(k)' = HolderSeen(k)
      BY <1>1, <1>2 DEF HolderSeen
    <2>3. \A u \in Threads : PhaseSeen(u)' = PhaseSeen(u)
      <3> SUFFICES ASSUME NEW u \in Threads PROVE PhaseSeen(u)' = PhaseSeen(u)
        OBVIOUS
      <3>1. pc'[u] = "return" <=> pc[u] = "return"
        BY <1>2
      <3>2. CASE pc[u] = "return"
        <4>1. CvLock[waitingOn[u]] \in Locks
          BY <3>2, CVarsAssumption DEF CvIInv, CvTypeOK, PlaceInv, WaitInv
        <4>2. owner'[CvLock[waitingOn[u]]] = u <=> owner[CvLock[waitingOn[u]]] = u
          BY <1>1, <1>2, <1>8, <3>2, <4>1, ThreadsAssumption
        <4> QED  BY <3>1, <4>2 DEF PhaseSeen
      <3>3. CASE pc[u] # "return"
        BY <3>1, <3>3 DEF PhaseSeen
      <3> QED  BY <3>2, <3>3
    <2>4. HolderView' = [HolderView EXCEPT ![l] = NoThread] /\ PhaseView' = PhaseView
      BY <2>1, <2>2, <2>3 DEF HolderView, PhaseView
    <2>5. CASE pc[t] = "idle"
      BY <1>6, <2>4, <2>5 DEF AbstractCv!Release, HolderView, PhaseView
    <2>6. CASE pc[t] = "unlock"
      <3>1. HolderView' = HolderView
        BY <1>4, <2>1, <2>2, <2>6 DEF HolderView
      <3> QED  BY <2>4, <3>1 DEF AbstractCv!acvVars, HolderView, PhaseView
    <2> QED  BY <1>2, <2>5, <2>6
  <1> QED  BY <1>1, <1>7, <1>8

\* The lock of a resumed thread was free.
LEMMA ResumeLockWaitSeen ==
  ASSUME CvIInv, NEW t \in Local, NEW u \in GcAble, ResumeLockWait(t, u), UNCHANGED cvVars
  PROVE  \/ \E v \in Threads, l \in Locks : AbstractCv!Take(v, l) \/ AbstractCv!Regain(v)
         \/ UNCHANGED AbstractCv!acvVars
PROOF
  <1>1. TypeOK /\ WaitersAreQueued /\ NoThread \notin Threads
    BY ThreadsAssumption DEF CvIInv, CvTypeOK
  <1>2. UNCHANGED <<waitCvar, waitingOn, interrupted, pc>>
    BY DEF cvVars
  <1>3. CASE UNCHANGED owner
    BY <1>3, ScheduleOrCollectSeen
  <1>4. ASSUME NEW v \in Threads, NEW l \in Locks,
               state[v] = "LOCK_WAIT", waitLock[v] = l, owner[l] = NoThread, owner'[l] = v,
               \A k \in Locks \ {l} : owner'[k] = owner[k],
               owner' \in [Locks -> Threads \cup {NoThread}]
        PROVE  AbstractCv!Take(v, l) \/ AbstractCv!Regain(v)
    <2>1. /\ waitCvar[v] = NoCvar
          /\ pc[v] = "idle" \/ (pc[v] = "return" /\ CvLock[waitingOn[v]] = l)
      BY <1>4, WaiterMayReceive
    <2>2. /\ AbstractCv!Give(HolderSeen(l), v, l)
          /\ PhaseSeen(v) = IF pc[v] = "idle" THEN "out" ELSE "woken"
      BY <1>1, <1>2, <1>4, <2>1, GiveSeen
    <2>3. HolderSeen(l) = NoThread
      BY <1>1, <1>4 DEF HolderSeen
    <2>4. PhaseView[v] = PhaseSeen(v)
      BY DEF PhaseView
    <2> QED  BY <2>1, <2>2, <2>3, <2>4 DEF AbstractCv!Take, AbstractCv!Regain, PhaseView
  <1> QED  BY <1>1, <1>3, <1>4, ResumeEffect

\* A waiting thread is one with wait.cvar set, and has a place in the queue.
LEMMA WaitingSeen ==
  ASSUME CvIInv, NEW c \in CVars
  PROVE  AbstractCv!Waiting(c) = {condQ[c][i] : i \in Notifiable(c)}
PROOF
  <1>1. AbstractCv!Waiting(c) = {t \in Threads : waitingOn[t] = c /\ PhaseSeen(t) = "waiting"}
    BY DEF AbstractCv!Waiting
  <1>2. ASSUME NEW t \in Threads, waitingOn[t] = c, PhaseSeen(t) = "waiting"
        PROVE  \E i \in Notifiable(c) : condQ[c][i] = t
    <2>1. waitCvar[t] # NoCvar /\ pc[t] \in {"unlock", "wait"}
      BY <1>2, SeenInWait
    <2>2. t \in Range(condQ[c])
      BY <1>2, <2>1 DEF CvIInv, WaitersAreInCondQueue
    <2> QED  BY <2>1, <2>2 DEF Range, Notifiable
  <1>3. ASSUME NEW i \in Notifiable(c)
        PROVE  condQ[c][i] \in Threads /\ waitingOn[condQ[c][i]] = c
               /\ PhaseSeen(condQ[c][i]) = "waiting"
    BY NotifiableThreads, SeenInWait, CVarsAssumption
  <1> QED  BY <1>1, <1>2, <1>3

LEMMA NotifySeen ==
  ASSUME CvIInv, NEW t \in Threads, NEW c \in CVars,
         PR_NotifyCondVar(t, c) \/ PR_NotifyAllCondVar(t, c)
  PROVE  AbstractCv!Notify(t, c) \/ AbstractCv!NotifyAll(t, c)
PROOF
  <1> DEFINE us == {condQ[c][i] : i \in Notifiable(c)}
  <1>1. /\ us \in SUBSET Threads
        /\ \A u \in us : waitCvar[u] # NoCvar
        /\ AbstractCv!Waiting(c) = us
    BY NotifiableThreads, WaitingSeen DEF Notifiable
  <1>2. /\ UNCHANGED <<owner, waitingOn, interrupted, pc>>
        /\ Notifiable(c) # {}
        /\ pc[t] = "idle" /\ owner[CvLock[c]] = t
    BY DEF PR_NotifyCondVar, PR_NotifyAllCondVar, Free, lockVars
  <1>3. AbstractCv!Holds(t, CvLock[c])
    BY <1>2, SeenOutside, CVarsAssumption DEF AbstractCv!Holds
  <1>4. ASSUME NEW vs \in SUBSET us, NotifyThreads(vs)
        PROVE  AbstractCv!Wake(vs) /\ HolderView' = HolderView
    <2>1. \A u \in Threads : waitCvar'[u] = IF u \in vs THEN NoCvar ELSE waitCvar[u]
      BY <1>4 DEF NotifyThreads
    <2>2. vs \in SUBSET Threads /\ \A u \in vs : waitCvar[u] # NoCvar
      BY <1>1
    <2>3. \A u \in Threads : pc'[u] = pc[u]
      BY <1>2
    <2> HIDE DEF us
    <2> QED  BY <1>2, <2>1, <2>2, <2>3, WakeSeen
  <1>5. CASE PR_NotifyCondVar(t, c)
    <2> DEFINE u == condQ[c][FirstOf(Notifiable(c))]
    <2>1. u \in us
      <3>1. Notifiable(c) \in SUBSET Nat
        BY NotifiableThreads DEF CvIInv, CvTypeOK
      <3>2. FirstOf(Notifiable(c)) \in Notifiable(c)
        BY <1>2, <3>1, FirstOfPlaces
      <3> QED  BY <3>2
    <2>2. NotifyThreads({u})
      BY <1>5 DEF PR_NotifyCondVar
    <2> HIDE DEF u, us
    <2>3. AbstractCv!Wake({u}) /\ HolderView' = HolderView
      BY <1>4, <2>1, <2>2
    <2> QED  BY <1>1, <1>2, <1>3, <2>1, <2>3 DEF AbstractCv!Notify, HolderView
  <1>6. CASE PR_NotifyAllCondVar(t, c)
    <2>1. NotifyThreads(us)
      BY <1>6 DEF PR_NotifyAllCondVar
    <2> HIDE DEF us
    <2>2. AbstractCv!Wake(us) /\ HolderView' = HolderView
      BY <1>4, <2>1
    <2> QED  BY <1>1, <1>2, <1>3, <2>2 DEF AbstractCv!NotifyAll, HolderView
  <1> QED  BY <1>5, <1>6

LEMMA TimeoutSeen ==
  ASSUME NoLateTimeouts, CvIInv, NEW u \in Threads, Timeout(u)
  PROVE  AbstractCv!TimeOut(u)
PROOF
  <1>1. waitCvar[u] # NoCvar
    BY ClockFindsWaiter DEF Timeout, NativeTimeout
  <1>2. /\ UNCHANGED <<owner, waitingOn, interrupted, pc>>
        /\ \A t \in Threads : waitCvar'[t] = IF t \in {u} THEN NoCvar ELSE waitCvar[t]
    BY DEF Timeout, NativeTimeout, ClockInterrupt, NotifyThreads, lockVars, CvIInv, CvTypeOK
  <1>3. AbstractCv!Wake({u}) /\ HolderView' = HolderView
    <2> DEFINE us == {u}
    <2>1. us \in SUBSET Threads /\ \A t \in us : waitCvar[t] # NoCvar
      BY <1>1
    <2>2. /\ \A t \in Threads : waitCvar'[t] = IF t \in us THEN NoCvar ELSE waitCvar[t]
          /\ \A t \in Threads : pc'[t] = pc[t]
          /\ UNCHANGED <<owner, waitingOn>>
      BY <1>2
    <2> HIDE DEF us
    <2>3. AbstractCv!Wake(us) /\ HolderView' = HolderView
      BY <2>1, <2>2, WakeSeen
    <2> QED  BY <2>3 DEF us
  <1>4. PhaseSeen(u) = "waiting"
    BY <1>1, SeenInWait
  <1> QED  BY <1>2, <1>3, <1>4 DEF AbstractCv!TimeOut, HolderView

LEMMA InterruptSeen ==
  ASSUME CvIInv, NEW me \in Threads, NEW u \in Threads,
         InterruptFlags(me, u) \/ InterruptClaims(me, u)
  PROVE  AbstractCv!Interrupt(u)
PROOF
  <1> DEFINE us == {u} \cap {t \in Threads : waitCvar[t] # NoCvar}
  <1>1. \A t \in Threads : PhaseView[t] = "waiting" <=> waitCvar[t] # NoCvar
    BY SeenInWait DEF PhaseView
  <1>2. {u} \cap {t \in Threads : PhaseView[t] = "waiting"} = us
    BY <1>1
  <1>3. state[u] # "COND_WAIT" => waitCvar[u] = NoCvar
    BY SeenInWait
  <1>4. /\ UNCHANGED <<owner, waitingOn>>
        /\ interrupted' = [interrupted EXCEPT ![u] = TRUE]
        /\ \A t \in Threads : waitCvar'[t] = IF t \in us THEN NoCvar ELSE waitCvar[t]
        /\ \A t \in Threads : pc'[t] = pc[t] \/ (pc[t] = "idle" /\ pc'[t] = "interrupt")
    <2>1. CASE InterruptFlags(me, u)
      BY <1>3, <2>1 DEF InterruptFlags, vars, lockVars
    <2>2. CASE InterruptClaims(me, u)
      <3>1. /\ UNCHANGED <<owner, waitingOn>>
            /\ interrupted' = [interrupted EXCEPT ![u] = TRUE]
            /\ waitCvar[u] # NoCvar /\ pc[me] = "idle"
            /\ waitCvar' = [waitCvar EXCEPT ![u] = NoCvar]
            /\ pc' = [pc EXCEPT ![me] = "interrupt"]
        BY <2>2 DEF InterruptClaims, MayInterrupt, Free, GoTo, vars, lockVars
      <3>2. waitCvar \in [Threads -> CVars \cup {NoCvar}] /\ pc \in [Threads -> Pcs]
        BY DEF CvIInv, CvTypeOK
      <3> QED  BY <3>1, <3>2
    <2> QED  BY <2>1, <2>2
  <1>5. us \in SUBSET Threads /\ \A t \in us : waitCvar[t] # NoCvar
    OBVIOUS
  <1> HIDE DEF us
  <1>6. AbstractCv!Wake(us) /\ HolderView' = HolderView
    BY <1>4, <1>5, WakeSeen
  <1> QED  BY <1>2, <1>4, <1>6 DEF AbstractCv!Interrupt, HolderView, PhaseView

\* A wait is seen to begin when the thread joins the queue, before PR_Unlock.
LEMMA BeginWaitSeen ==
  ASSUME CvIInv, NEW t \in Threads, NEW c \in CVars,
         WaitCondVar(t, c, FALSE) \/ WaitCondVar(t, c, TRUE)
  PROVE  AbstractCv!BeginWait(t, c)
PROOF
  <1> DEFINE l == CvLock[c]
  <1>1. /\ pc[t] = "idle" /\ owner[l] = t /\ ~interrupted[t]
        /\ UNCHANGED <<owner, interrupted>>
        /\ waitCvar' = [waitCvar EXCEPT ![t] = c]
        /\ waitingOn' = [waitingOn EXCEPT ![t] = c]
        /\ pc' = [pc EXCEPT ![t] = "unlock"]
    BY DEF WaitCondVar, Free, GoTo, lockVars
  <1>2. /\ waitCvar'[t] = c /\ waitingOn'[t] = c /\ pc'[t] = "unlock"
        /\ \A u \in Threads \ {t} : /\ waitCvar'[u] = waitCvar[u]
                                    /\ waitingOn'[u] = waitingOn[u] /\ pc'[u] = pc[u]
    BY <1>1 DEF CvIInv, CvTypeOK
  <1>3. l \in Locks /\ c # NoCvar
    BY CVarsAssumption
  <1>4. AbstractCv!Holds(t, l)
    BY <1>1, <1>3, SeenOutside DEF AbstractCv!Holds
  <1>5. HolderView' = [HolderView EXCEPT ![l] = NoThread]
    <2>1. HolderSeen(l)' = NoThread
      BY <1>1, <1>2 DEF HolderSeen
    <2>2. \A k \in Locks \ {l} : HolderSeen(k)' = HolderSeen(k)
      BY <1>1, <1>2 DEF HolderSeen
    <2> QED  BY <2>1, <2>2 DEF HolderView
  <1>6. PhaseView' = [PhaseView EXCEPT ![t] = "waiting"]
    <2>1. PhaseSeen(t)' = "waiting"
      BY <1>2, <1>3 DEF PhaseSeen
    <2>2. \A u \in Threads \ {t} : PhaseSeen(u)' = PhaseSeen(u)
      BY <1>1, <1>2 DEF PhaseSeen
    <2> QED  BY <2>1, <2>2 DEF PhaseView
  <1> QED  BY <1>1, <1>4, <1>5, <1>6 DEF AbstractCv!BeginWait, HolderView, PhaseView

LEMMA WaitReturnsSeen ==
  ASSUME CvIInv, NEW t \in Threads, WaitReturns(t)
  PROVE  AbstractCv!EndWait(t)
PROOF
  <1>1. /\ pc[t] = "return" /\ state[t] = "RUNNING"
        /\ UNCHANGED <<owner, waitCvar>>
        /\ interrupted' = [interrupted EXCEPT ![t] = FALSE]
        /\ waitingOn' = [waitingOn EXCEPT ![t] = NoCvar]
        /\ pc' = [pc EXCEPT ![t] = "idle"]
    BY DEF WaitReturns, GoTo, vars, lockVars
  <1>2. /\ pc'[t] = "idle" /\ waitingOn'[t] = NoCvar
        /\ \A u \in Threads \ {t} : pc'[u] = pc[u] /\ waitingOn'[u] = waitingOn[u]
    BY <1>1 DEF CvIInv, CvTypeOK
  <1>3. PhaseSeen(t) = "back" /\ waitCvar[t] = NoCvar
    BY <1>1 DEF CvIInv, PlaceInv, WaitInv, WakeInv, PhaseSeen
  <1>4. HolderView' = HolderView
    <2>1. \A l \in Locks : HolderSeen(l)' = HolderSeen(l)
      BY <1>1, <1>2 DEF HolderSeen
    <2> QED  BY <2>1 DEF HolderView
  <1>5. PhaseView' = [PhaseView EXCEPT ![t] = "out"]
    <2>1. PhaseSeen(t)' = "out"
      BY <1>1, <1>2, <1>3 DEF PhaseSeen
    <2>2. \A u \in Threads \ {t} : PhaseSeen(u)' = PhaseSeen(u)
      BY <1>1, <1>2 DEF PhaseSeen
    <2> QED  BY <2>1, <2>2 DEF PhaseView
  <1> QED  BY <1>1, <1>3, <1>4, <1>5 DEF AbstractCv!EndWait, HolderView, PhaseView

\* The flag alone: a wait that is refused, and PR_ClearInterrupt.
LEMMA FlagSeen ==
  ASSUME CvIInv, NEW t \in Threads,
         PR_ClearInterrupt(t) \/ \E c \in CVars : WaitRefused(t, c)
  PROVE  AbstractCv!ClearInterrupt(t) \/ \E c \in CVars : AbstractCv!RefuseWait(t, c)
PROOF
  <1>1. /\ pc[t] = "idle" /\ interrupted[t]
        /\ interrupted' = [interrupted EXCEPT ![t] = FALSE]
        /\ UNCHANGED <<owner, waitCvar, waitingOn, pc>>
    BY DEF PR_ClearInterrupt, WaitRefused, Free, vars, lockVars
  <1>2. HolderView' = HolderView /\ PhaseView' = PhaseView
    <2>1. \A l \in Locks : HolderSeen(l)' = HolderSeen(l)
      BY <1>1 DEF HolderSeen
    <2>2. \A u \in Threads : PhaseSeen(u)' = PhaseSeen(u)
      BY <1>1 DEF PhaseSeen
    <2> QED  BY <2>1, <2>2 DEF HolderView, PhaseView
  <1>3. PhaseSeen(t) = "out"
    BY <1>1, SeenOutside
  <1> QED  BY <1>1, <1>2, <1>3 DEF AbstractCv!ClearInterrupt, HolderView, PhaseView

LEMMA AbstractCvStep ==
  ASSUME NoLateTimeouts, CvIInv, [CvNext]_allVars
  PROVE  [AbstractCv!ACvNext]_(AbstractCv!acvVars)
PROOF
  <1> DEFINE Seen == AbstractCv!ACvNext \/ UNCHANGED AbstractCv!acvVars
  <1>1. ASSUME NEW t \in Threads, NEW l \in Locks,
               \/ AbstractCv!Take(t, l) \/ AbstractCv!Regain(t)
               \/ AbstractCv!Release(t, l)
               \/ \E u \in Threads : AbstractCv!HandOver(t, u, l)
        PROVE  Seen
    BY <1>1 DEF AbstractCv!ACvNext
  <1>2. ASSUME NEW t \in Local, Schedule(t) PROVE Seen
    BY <1>2, ScheduleOrCollectSeen DEF Schedule, Dispatch, Preempt, lockVars
  <1>3. ASSUME NEW t \in Local, CollectCv(t) PROVE Seen
    <2>1. CASE ResumeAllReturns(t)
      <3>1. /\ Release(ActiveLock) /\ state[t] = "RUNNING" /\ pc[t] = "idle"
            /\ t = suspendAllThread /\ t \in Threads
            /\ UNCHANGED <<waitCvar, waitingOn, interrupted, pc>>
        BY <1>3, <2>1 DEF CollectCv, ResumeAllReturns, Walking, cvVars, Threads
      <3>2. owner[ActiveLock] = t
        BY <3>1, ThreadsAssumption DEF CvIInv, PlaceInv, RunInv
      <3> QED  BY <1>1, <3>1, <3>2, LocksAssumption, ReleaseSeen
    <2>2. ASSUME NEW u \in GcAble, ResumeLockWait(t, u) PROVE Seen
      BY <1>1, <1>3, <2>2, ResumeLockWaitSeen DEF CollectCv
    <2>3. CASE UNCHANGED owner
      BY <1>3, <2>3, ScheduleOrCollectSeen DEF CollectCv
    <2> QED  BY <1>3, <2>1, <2>2, <2>3 DEF CollectCv, Collect, SuspendAllReturns, ResumeAll,
             SuspendRunnable, SuspendBlocked, ResumeSuspended, ResumeCondWait, ResumeRunnable,
             lockVars
  <1>4. ASSUME NEW t \in Local, SuspendAll(t), UNCHANGED cvVars PROVE Seen
    BY <1>4, ScheduleOrCollectSeen DEF SuspendAll, lockVars
  <1>5. ASSUME NEW t \in Threads, Wait(t) \/ PR_ClearInterrupt(t) PROVE Seen
    <2>1. \/ \E c \in CVars : AbstractCv!BeginWait(t, c)
          \/ AbstractCv!ClearInterrupt(t)
          \/ \E c \in CVars : AbstractCv!RefuseWait(t, c)
      BY <1>5, BeginWaitSeen, FlagSeen DEF Wait
    <2> QED  BY <2>1 DEF AbstractCv!ACvNext
  <1>6. ASSUME NEW t \in Threads, WaitGoesOn(t) PROVE Seen
    <2>1. CASE WaitUnlocks(t)
      <3>1. pc[t] = "unlock" /\ CvLock[waitingOn[t]] \in Locks
            /\ owner[CvLock[waitingOn[t]]] = t
        BY <2>1, CVarsAssumption DEF WaitUnlocks, CvIInv, CvTypeOK, PlaceInv, WaitInv
      <3> QED  BY <1>1, <2>1, <3>1, ReleaseSeen DEF WaitUnlocks
    <2>2. CASE WaitWakes(t)
      <3>1. /\ UNCHANGED <<owner, waitCvar, waitingOn, interrupted>>
            /\ pc[t] = "wait" /\ pc' = [pc EXCEPT ![t] = "relock"]
        BY <2>2 DEF WaitWakes, GoTo, vars, lockVars
      <3>2. \A u \in Threads : pc'[u] = IF u = t THEN "relock" ELSE pc[u]
        BY <3>1 DEF CvIInv, CvTypeOK
      <3> QED  BY <3>1, <3>2, UnseenStep
    <2>3. CASE WaitRelocks(t)
      <3>1. CvLock[waitingOn[t]] \in Locks
        BY <2>3, CVarsAssumption DEF WaitRelocks, CvIInv, CvTypeOK, PlaceInv, WaitInv
      <3> QED  BY <1>1, <2>3, <3>1, TakeSeen, WaitForSeen DEF WaitRelocks, PR_Lock, MayLock
    <2>4. CASE WaitReturns(t)
      BY <2>4, WaitReturnsSeen DEF AbstractCv!ACvNext
    <2> QED  BY <1>6, <2>1, <2>2, <2>3, <2>4 DEF WaitGoesOn
  <1>7. ASSUME NEW t \in Threads, Notify(t) PROVE Seen
    BY <1>7, NotifySeen DEF Notify, AbstractCv!ACvNext
  <1>8. ASSUME NEW t \in Threads, Timeout(t) PROVE Seen
    BY <1>8, TimeoutSeen DEF AbstractCv!ACvNext
  <1>9. ASSUME NEW t \in Threads, NEW u \in Threads,
               InterruptFlags(t, u) \/ InterruptClaims(t, u)
        PROVE  Seen
    BY <1>9, InterruptSeen DEF AbstractCv!ACvNext
  <1>10. ASSUME NEW t \in Threads, InterruptWakes(t) PROVE Seen
    <2>1. /\ UNCHANGED <<owner, waitCvar, waitingOn, interrupted>>
          /\ pc[t] = "interrupt" /\ pc' = [pc EXCEPT ![t] = "idle"]
      BY <1>10 DEF InterruptWakes, GoTo, lockVars
    <2>2. \A u \in Threads : pc'[u] = IF u = t THEN "idle" ELSE pc[u]
      BY <2>1 DEF CvIInv, CvTypeOK
    <2> QED  BY <2>1, <2>2, UnseenStep
  <1>11. ASSUME NEW t \in Threads, pc[t] = "idle", Lock(t), UNCHANGED cvVars PROVE Seen
    <2> PICK l \in Locks : PR_Lock(t, l) \/ PR_TestAndLock(t, l)
      BY <1>11 DEF Lock
    <2>1. /\ state[t] = "RUNNING"
          /\ TakeFree(t, l) \/ WaitFor(t, l)
          /\ UNCHANGED <<waitCvar, waitingOn, interrupted, pc>>
      BY <1>11 DEF PR_Lock, PR_TestAndLock, MayLock, cvVars
    <2>2. CASE TakeFree(t, l)
      <3>1. AbstractCv!Take(t, l) \/ AbstractCv!Regain(t)
        BY <1>11, <2>1, <2>2, TakeSeen
      <3> QED  BY <1>1, <3>1
    <2>3. CASE WaitFor(t, l)
      <3>1. UNCHANGED AbstractCv!acvVars
        BY <1>11, <2>1, <2>3, WaitForSeen
      <3> QED  BY <3>1
    <2> QED  BY <2>1, <2>2, <2>3
  <1>12. ASSUME NEW t \in Threads, UnlockCv(t) PROVE Seen
    <2> PICK l \in Locks : PR_Unlock(t, l)
      BY <1>12 DEF UnlockCv, Unlock
    <2>1. /\ state[t] = "RUNNING" /\ pc[t] = "idle" /\ owner[l] = t /\ Release(l)
          /\ UNCHANGED <<waitCvar, waitingOn, interrupted, pc>>
      BY <1>12 DEF UnlockCv, PR_Unlock, MayLock, cvVars
    <2> QED  BY <1>1, <2>1, ReleaseSeen
  <1>13. ASSUME NEW t \in Threads, Reprioritize(t), UNCHANGED cvVars PROVE Seen
    BY <1>13, ScheduleOrCollectSeen DEF Reprioritize, SetThreadPriority, lockVars
  <1>14. CASE UNCHANGED allVars
    BY <1>14, ScheduleOrCollectSeen DEF allVars, vars, lockVars
  <1>15. ASSUME CvNext PROVE Seen
    <2> HIDE DEF Seen
    <2>1. CASE \E t \in Local :
                 \/ Schedule(t)
                 \/ CollectCv(t)
                 \/ pc[t] = "idle" /\ SuspendAll(t) /\ UNCHANGED cvVars
      BY <1>2, <1>3, <1>4, <2>1
    <2>2. ASSUME NEW t \in Threads, Interrupt(t) PROVE Seen
      BY <1>5, <1>9, <1>10, <2>2 DEF Interrupt
    <2>3. CASE \E t \in Threads :
                 \/ Wait(t) \/ WaitGoesOn(t) \/ Notify(t) \/ Timeout(t)
                 \/ Interrupt(t)
                 \/ LockCv(t) \/ UnlockCv(t)
                 \/ pc[t] = "idle" /\ Reprioritize(t) /\ UNCHANGED cvVars
      BY <1>5, <1>6, <1>7, <1>8, <1>11, <1>12, <1>13, <2>2, <2>3
      DEF LockCv
    <2> QED  BY <1>15, <2>1, <2>3 DEF CvNext
  <1> QED  BY <1>14, <1>15

\* Queues, inner locks, timers, suspension and the two halves of PR_Interrupt
\* together are the condition variables that clients see.
THEOREM SpecImplementsCondVar == NoLateTimeouts /\ CvSpec => ImplementsCondVar
PROOF
  <1>1. CvInit => AbstractCv!ACvInit
    <2> SUFFICES ASSUME CvInit PROVE AbstractCv!ACvInit
      OBVIOUS
    <2>1. /\ \A l \in Locks : HolderSeen(l) = NoThread
          /\ \A t \in Threads : PhaseSeen(t) = "out"
      BY ThreadsAssumption DEF CvInit, Init, HolderSeen, PhaseSeen
    <2> QED  BY <2>1 DEF CvInit, AbstractCv!ACvInit
  <1>2. CASE NoLateTimeouts
    <2>1. CvIInv /\ [CvNext]_allVars => [AbstractCv!ACvNext]_(AbstractCv!acvVars)
      BY <1>2, AbstractCvStep
    <2> QED  BY <1>1, <1>2, <2>1, SpecCvIInv, PTL
             DEF CvSpec, ImplementsCondVar, AbstractCv!ACvSpec
  <1>3. CASE ~NoLateTimeouts
    BY <1>3
  <1> QED  BY <1>2, <1>3

\* In the _PR_LOCAL_THREADS_ONLY build there is nobody to be late: prucv.c keeps
\* all its promises.
THEOREM LocalThreadsOnlyIsSafe ==
  Native = {} /\ CvSpec => /\ [](CvInv /\ WaitersCanBeWoken /\ CvWorldIsStopped)
                           /\ [](CollectorStops /\ NobodyStaysSuspended /\ NoIdleWaiters)
                           /\ WaitReturnsWithLock
                           /\ ImplementsCondVar
PROOF
  <1>1. Native = {} => NoLateTimeouts /\ NoMarkedInterrupts
    BY DEF NoLateTimeouts, NoMarkedInterrupts, NativelyInterrupted
  <1> QED  BY <1>1, SpecCvCollectorStops, SpecCvInv, SpecWaitersCanBeWoken, SpecCvWorldIsStopped,
              SpecWaitReturnsWithLock, SpecImplementsCondVar, PTL
=============================================================================
