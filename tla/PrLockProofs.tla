---------------------------- MODULE PrLockProofs ----------------------------
(***************************************************************************)
(* Proofs about PrLock, for any threads, locks and priorities.             *)
(***************************************************************************)
EXTENDS PrLock, SequenceTheorems, TLAPS

-----------------------------------------------------------------------------
(* Wait queues as sequences without repetition.                            *)

\* Range, spelled out with indices.
LEMMA RangeByIndex ==
  ASSUME NEW S, NEW q \in Seq(S)
  PROVE  /\ \A x : x \in Range(q) <=> \E i \in 1 .. Len(q) : x = q[i]
         /\ Range(q) \subseteq S
         /\ (q = << >>) <=> (Range(q) = {})
         /\ q # << >> => Head(q) \in Range(q)
PROOF
  <1>1. /\ Len(q) \in Nat
        /\ DOMAIN q = 1 .. Len(q)
        /\ \A i \in 1 .. Len(q) : q[i] \in S
    BY LenProperties, ElementOfSeq
  <1>2. \A x : x \in Range(q) <=> \E i \in 1 .. Len(q) : x = q[i]
    BY <1>1 DEF Range
  <1>3. q # << >> => Len(q) > 0 /\ Head(q) = q[1]
    BY EmptySeq, <1>1
  <1>4. q = << >> => Range(q) = {}
    BY <1>1, <1>2, EmptySeq
  <1>5. q # << >> => Head(q) \in Range(q)
    <2> SUFFICES ASSUME q # << >>  PROVE q[1] \in Range(q)
      BY <1>3
    <2>1. 1 \in 1 .. Len(q)
      BY <1>1, <1>3
    <2> QED  BY <2>1, <1>2
  <1>6. Range(q) \subseteq S
    BY <1>1, <1>2
  <1>7. (q = << >>) <=> (Range(q) = {})
    BY <1>4, <1>5
  <1> QED  BY <1>2, <1>5, <1>6, <1>7

\* A thread that joins at the back.
LEMMA AppendWaiter ==
  ASSUME NEW S, NEW q \in Seq(S), NEW t \in S, t \notin Range(q), IsInjective(q)
  PROVE  /\ Append(q, t) \in Seq(S)
         /\ Range(Append(q, t)) = Range(q) \cup {t}
         /\ IsInjective(Append(q, t))
PROOF
  <1> DEFINE r == Append(q, t)
  <1>1. /\ r \in Seq(S)
        /\ Len(q) \in Nat
        /\ Len(r) = Len(q) + 1
        /\ \A i \in 1 .. Len(q) : r[i] = q[i]
        /\ r[Len(q) + 1] = t
    BY LenProperties
  <1> HIDE DEF r
  <1>2. /\ \A x : x \in Range(q) <=> \E i \in 1 .. Len(q) : x = q[i]
        /\ \A x : x \in Range(r) <=> \E i \in 1 .. Len(r) : x = r[i]
    BY <1>1, RangeByIndex
  <1>3. DOMAIN q = 1 .. Len(q) /\ DOMAIN r = 1 .. Len(r)
    BY <1>1, LenProperties
  <1>4. Range(r) = Range(q) \cup {t}
    <2>1. 1 .. Len(r) = (1 .. Len(q)) \cup {Len(q) + 1}
      BY <1>1
    <2> QED  BY <1>1, <1>2, <2>1
  <1>5. IsInjective(r)
    <2> SUFFICES ASSUME NEW i \in 1 .. Len(r), NEW j \in 1 .. Len(r), r[i] = r[j]
                 PROVE  i = j
      BY <1>3 DEF IsInjective
    <2>1. CASE i \in 1 .. Len(q) /\ j \in 1 .. Len(q)
      BY <2>1, <1>1, <1>3 DEF IsInjective
    <2>2. CASE i = Len(q) + 1 /\ j \in 1 .. Len(q)
      BY <2>2, <1>1, <1>2
    <2>3. CASE j = Len(q) + 1 /\ i \in 1 .. Len(q)
      BY <2>3, <1>1, <1>2
    <2> QED  BY <2>1, <2>2, <2>3, <1>1
  <1> QED  BY <1>1, <1>4, <1>5 DEF r

\* A thread that joins at the front.
LEMMA PrependWaiter ==
  ASSUME NEW S, NEW q \in Seq(S), NEW t \in S, t \notin Range(q), IsInjective(q)
  PROVE  /\ <<t>> \o q \in Seq(S)
         /\ Range(<<t>> \o q) = Range(q) \cup {t}
         /\ IsInjective(<<t>> \o q)
PROOF
  <1> DEFINE r == <<t>> \o q
  <1>0. <<t>> \in Seq(S) /\ Len(<<t>>) = 1 /\ <<t>>[1] = t
    OBVIOUS
  <1>1. /\ r \in Seq(S)
        /\ Len(q) \in Nat
        /\ Len(r) = Len(q) + 1
        /\ \A i \in 1 .. Len(q) + 1 : r[i] = IF i <= 1 THEN t ELSE q[i - 1]
    BY <1>0, ConcatProperties, LenProperties
  <1> HIDE DEF r
  <1>2. /\ \A x : x \in Range(q) <=> \E i \in 1 .. Len(q) : x = q[i]
        /\ \A x : x \in Range(r) <=> \E i \in 1 .. Len(r) : x = r[i]
    BY <1>1, RangeByIndex
  <1>3. DOMAIN q = 1 .. Len(q) /\ DOMAIN r = 1 .. Len(r)
    BY <1>1, LenProperties
  <1>4. Range(r) = Range(q) \cup {t}
    <2>1. ASSUME NEW x \in Range(r) PROVE x \in Range(q) \cup {t}
      BY <1>1, <1>2
    <2>2. ASSUME NEW i \in 1 .. Len(q) PROVE q[i] \in Range(r)
      <3>1. i + 1 \in 1 .. Len(r) /\ r[i + 1] = q[i]
        BY <1>1
      <3> QED  BY <3>1, <1>2
    <2>3. t \in Range(r)
      <3>1. 1 \in 1 .. Len(r) /\ r[1] = t
        BY <1>1
      <3> QED  BY <3>1, <1>2
    <2> QED  BY <2>1, <2>2, <2>3, <1>2
  <1>5. IsInjective(r)
    <2> SUFFICES ASSUME NEW i \in 1 .. Len(r), NEW j \in 1 .. Len(r), r[i] = r[j]
                 PROVE  i = j
      BY <1>3 DEF IsInjective
    <2>1. CASE i > 1 /\ j > 1
      <3>1. i - 1 \in 1 .. Len(q) /\ j - 1 \in 1 .. Len(q) /\ q[i - 1] = q[j - 1]
        BY <2>1, <1>1
      <3>2. i - 1 = j - 1
        BY <3>1, <1>3 DEF IsInjective
      <3> QED  BY <3>2
    <2>2. CASE i = 1 /\ j > 1
      <3>1. j - 1 \in 1 .. Len(q) /\ q[j - 1] = t
        BY <2>2, <1>1
      <3> QED  BY <3>1, <1>2
    <2>3. CASE j = 1 /\ i > 1
      <3>1. i - 1 \in 1 .. Len(q) /\ q[i - 1] = t
        BY <2>3, <1>1
      <3> QED  BY <3>1, <1>2
    <2> QED  BY <2>1, <2>2, <2>3, <1>1
  <1> QED  BY <1>1, <1>4, <1>5 DEF r

\* The first waiter leaves.
LEMMA TailWaiters ==
  ASSUME NEW S, NEW q \in Seq(S), q # << >>, IsInjective(q)
  PROVE  /\ Head(q) \in S
         /\ Tail(q) \in Seq(S)
         /\ Range(Tail(q)) = Range(q) \ {Head(q)}
         /\ IsInjective(Tail(q))
PROOF
  <1> DEFINE r == Tail(q)
  <1>1. /\ r \in Seq(S)
        /\ Len(q) \in Nat \ {0}
        /\ Len(r) = Len(q) - 1
        /\ \A i \in 1 .. Len(r) : r[i] = q[i + 1]
        /\ Head(q) = q[1] /\ Head(q) \in S
    BY HeadTailProperties, EmptySeq
  <1> HIDE DEF r
  <1>2. /\ \A x : x \in Range(q) <=> \E i \in 1 .. Len(q) : x = q[i]
        /\ \A x : x \in Range(r) <=> \E i \in 1 .. Len(r) : x = r[i]
    BY <1>1, RangeByIndex
  <1>3. DOMAIN q = 1 .. Len(q) /\ DOMAIN r = 1 .. Len(r)
    BY <1>1, LenProperties
  <1>4. Range(r) = Range(q) \ {Head(q)}
    <2>1. ASSUME NEW i \in 1 .. Len(r) PROVE r[i] \in Range(q) \ {q[1]}
      <3>1. i + 1 \in 1 .. Len(q) /\ r[i] = q[i + 1] /\ 1 \in 1 .. Len(q)
        BY <1>1
      <3>2. q[i + 1] # q[1]
        BY <3>1, <1>3 DEF IsInjective
      <3> QED  BY <3>1, <3>2, <1>2
    <2>2. ASSUME NEW i \in 1 .. Len(q), q[i] # q[1] PROVE q[i] \in Range(r)
      <3>1. i - 1 \in 1 .. Len(r) /\ r[i - 1] = q[i]
        BY <2>2, <1>1
      <3> QED  BY <3>1, <1>2
    <2>3. Range(r) \subseteq Range(q) \ {q[1]}
      BY <2>1, <1>2
    <2>4. Range(q) \ {q[1]} \subseteq Range(r)
      BY <2>2, <1>2
    <2> QED  BY <2>3, <2>4, <1>1
  <1>5. IsInjective(r)
    <2> SUFFICES ASSUME NEW i \in 1 .. Len(r), NEW j \in 1 .. Len(r), r[i] = r[j]
                 PROVE  i = j
      BY <1>3 DEF IsInjective
    <2>1. i + 1 \in 1 .. Len(q) /\ j + 1 \in 1 .. Len(q) /\ q[i + 1] = q[j + 1]
      BY <1>1
    <2>2. i + 1 = j + 1
      BY <2>1, <1>3 DEF IsInjective
    <2> QED  BY <2>2
  <1> QED  BY <1>1, <1>4, <1>5 DEF r

-----------------------------------------------------------------------------
(* The inductive invariant.  Apart from the invariants of PrLock it says    *)
(* that a mark is only ever on a thread that is blocked or suspended, which   *)
(* is what keeps a marked thread from running, and what makes the resume of   *)
(* the first waiter the moment to hand a free lock on.  All of it allows for   *)
(* threads that wait for conditions: PrCondVarProofs uses the lemmas below.   *)

MarkedThreadsAreBlocked ==
  \A t \in Threads : suspending[t] => state[t] \in {"LOCK_WAIT", "COND_WAIT", "SUSPENDED"}

IInv == /\ TypeOK
        /\ WaitersAreQueued
        /\ FreeLockAwaitsResume
        /\ OwnersDoNotWait
        /\ CollectorStops
        /\ MarkedThreadsAreBlocked

\* The first waiter of a queue, and what the others see of its leaving.
LEMMA FirstWaiter ==
  ASSUME TypeOK, WaitersAreQueued, NEW l \in Locks, waitQ[l] # << >>
  PROVE  /\ Head(waitQ[l]) \in Threads
         /\ Head(waitQ[l]) \in Range(waitQ[l])
         /\ state[Head(waitQ[l])] = "LOCK_WAIT"
         /\ waitLock[Head(waitQ[l])] = l
         /\ Tail(waitQ[l]) \in Seq(Threads)
         /\ Range(Tail(waitQ[l])) = Range(waitQ[l]) \ {Head(waitQ[l])}
         /\ IsInjective(Tail(waitQ[l]))
PROOF
  <1>1. waitQ[l] \in Seq(Threads) /\ IsInjective(waitQ[l])
    BY DEF TypeOK, WaitersAreQueued
  <1>2. /\ Head(waitQ[l]) \in Threads
        /\ Tail(waitQ[l]) \in Seq(Threads)
        /\ Range(Tail(waitQ[l])) = Range(waitQ[l]) \ {Head(waitQ[l])}
        /\ IsInjective(Tail(waitQ[l]))
    BY <1>1, TailWaiters
  <1>3. Head(waitQ[l]) \in Range(waitQ[l])
    BY <1>1, RangeByIndex
  <1> QED  BY <1>2, <1>3 DEF WaitersAreQueued

\* _PR_AssignLock keeps the queues and the waiters' records in agreement.
LEMMA AssignLockKeepsQueues ==
  ASSUME TypeOK, WaitersAreQueued, NEW l \in Locks, waitQ[l] # << >>,
         AssignLock(l)
  PROVE  /\ state' \in [Threads -> ThreadStates]
         /\ waitLock' \in [Threads -> Locks \cup {NoLock}]
         /\ owner' \in [Locks -> Threads \cup {NoThread}]
         /\ waitQ' \in [Locks -> Seq(Threads)]
         /\ WaitersAreQueued'
PROOF
  <1> DEFINE u == Head(waitQ[l])
  <1>1. /\ u \in Threads
        /\ u \in Range(waitQ[l])
        /\ state[u] = "LOCK_WAIT"
        /\ waitLock[u] = l
        /\ Tail(waitQ[l]) \in Seq(Threads)
        /\ Range(Tail(waitQ[l])) = Range(waitQ[l]) \ {u}
        /\ IsInjective(Tail(waitQ[l]))
    BY FirstWaiter
  <1>2. /\ owner' = [owner EXCEPT ![l] = u]
        /\ waitQ' = [waitQ EXCEPT ![l] = Tail(@)]
        /\ waitLock' = [waitLock EXCEPT ![u] = NoLock]
        /\ state' = [state EXCEPT ![u] = IF u \in Native THEN "RUNNING"
                                                         ELSE "RUNNABLE"]
    BY DEF AssignLock
  <1> HIDE DEF u
  <1>3. /\ state' \in [Threads -> ThreadStates]
        /\ waitLock' \in [Threads -> Locks \cup {NoLock}]
        /\ owner' \in [Locks -> Threads \cup {NoThread}]
        /\ waitQ' \in [Locks -> Seq(Threads)]
    BY <1>1, <1>2 DEF TypeOK, ThreadStates
  <1>4. /\ waitQ'[l] = Tail(waitQ[l])
        /\ \A k \in Locks \ {l} : waitQ'[k] = waitQ[k]
        /\ state'[u] # "LOCK_WAIT" /\ waitLock'[u] = NoLock
        /\ \A t \in Threads \ {u} : state'[t] = state[t] /\ waitLock'[t] = waitLock[t]
    BY <1>1, <1>2 DEF TypeOK
  <1>5. \A k \in Locks : IsInjective(waitQ'[k])
    BY <1>1, <1>4 DEF WaitersAreQueued
  <1>6. \A t \in Threads : waitLock'[t] # NoLock <=> state'[t] = "LOCK_WAIT"
    BY <1>4 DEF WaitersAreQueued
  <1>7. ASSUME NEW t \in Threads, NEW k \in Locks
        PROVE  t \in Range(waitQ'[k]) <=> state'[t] = "LOCK_WAIT" /\ waitLock'[t] = k
    <2>1. t \in Range(waitQ[k]) <=> state[t] = "LOCK_WAIT" /\ waitLock[t] = k
      BY DEF WaitersAreQueued
    <2>2. u \in Range(waitQ[k]) => k = l
      BY <1>1 DEF WaitersAreQueued
    <2> QED  BY <2>1, <2>2, <1>1, <1>4
  <1> QED  BY <1>3, <1>5, <1>6, <1>7 DEF WaitersAreQueued

\* A thread that blocks joins the queue of its lock.
LEMMA WaitForKeepsQueues ==
  ASSUME TypeOK, WaitersAreQueued, NEW t \in Threads, NEW l \in Locks,
         state[t] = "RUNNING", WaitFor(t, l)
  PROVE  /\ state' \in [Threads -> ThreadStates]
         /\ waitLock' \in [Threads -> Locks \cup {NoLock}]
         /\ waitQ' \in [Locks -> Seq(Threads)]
         /\ WaitersAreQueued'
PROOF
  <1> DEFINE q == Enqueue(t, waitQ[l])
  <1>1. waitQ[l] \in Seq(Threads) /\ IsInjective(waitQ[l]) /\ t \notin Range(waitQ[l])
    BY DEF TypeOK, WaitersAreQueued
  <1>2. q \in Seq(Threads) /\ Range(q) = Range(waitQ[l]) \cup {t} /\ IsInjective(q)
    <2>1. CASE q = Append(waitQ[l], t)
      BY <2>1, <1>1, AppendWaiter
    <2>2. CASE q = <<t>> \o waitQ[l]
      BY <2>2, <1>1, PrependWaiter
    <2> QED  BY <2>1, <2>2 DEF Enqueue
  <1>3. /\ waitQ' = [waitQ EXCEPT ![l] = q]
        /\ state' = [state EXCEPT ![t] = "LOCK_WAIT"]
        /\ waitLock' = [waitLock EXCEPT ![t] = l]
    BY DEF WaitFor
  <1> HIDE DEF q
  <1>4. /\ state' \in [Threads -> ThreadStates]
        /\ waitLock' \in [Threads -> Locks \cup {NoLock}]
        /\ waitQ' \in [Locks -> Seq(Threads)]
    BY <1>2, <1>3 DEF TypeOK, ThreadStates
  <1>5. /\ waitQ'[l] = q
        /\ \A k \in Locks \ {l} : waitQ'[k] = waitQ[k]
        /\ state'[t] = "LOCK_WAIT" /\ waitLock'[t] = l
        /\ \A u \in Threads \ {t} : state'[u] = state[u] /\ waitLock'[u] = waitLock[u]
    BY <1>3 DEF TypeOK
  <1>6. \A k \in Locks : IsInjective(waitQ'[k])
    BY <1>2, <1>5 DEF WaitersAreQueued
  <1>7. \A u \in Threads : waitLock'[u] # NoLock <=> state'[u] = "LOCK_WAIT"
    BY <1>5, LocksAssumption DEF WaitersAreQueued
  <1>8. ASSUME NEW u \in Threads, NEW k \in Locks
        PROVE  u \in Range(waitQ'[k]) <=> state'[u] = "LOCK_WAIT" /\ waitLock'[u] = k
    <2>1. u \in Range(waitQ[k]) <=> state[u] = "LOCK_WAIT" /\ waitLock[u] = k
      BY DEF WaitersAreQueued
    <2> QED  BY <2>1, <1>2, <1>5
  <1> QED  BY <1>4, <1>6, <1>7, <1>8 DEF WaitersAreQueued

\* A lock that is given up goes to an unmarked waiter or becomes free.
LEMMA ReleaseEffect ==
  ASSUME TypeOK, WaitersAreQueued, NEW l \in Locks, Release(l)
  PROVE  /\ state' \in [Threads -> ThreadStates]
         /\ waitLock' \in [Threads -> Locks \cup {NoLock}]
         /\ owner' \in [Locks -> Threads \cup {NoThread}]
         /\ waitQ' \in [Locks -> Seq(Threads)]
         /\ WaitersAreQueued'
         /\ \A k \in Locks \ {l} : owner'[k] = owner[k]
         /\ \/ \E u \in Threads :
                 /\ state[u] = "LOCK_WAIT" /\ waitLock[u] = l /\ ~suspending[u]
                 /\ owner'[l] = u
                 /\ state'[u] = IF u \in Native THEN "RUNNING" ELSE "RUNNABLE"
                 /\ \A t \in Threads \ {u} : /\ state'[t] = state[t]
                                             /\ waitLock'[t] = waitLock[t]
            \/ /\ owner'[l] = NoThread
               /\ UNCHANGED <<state, waitLock, waitQ>>
PROOF
  <1>1. CASE waitQ[l] # << >> /\ AssignLock(l) /\ ~suspending[Head(waitQ[l])]
    <2> DEFINE u == Head(waitQ[l])
    <2>1. u \in Threads /\ state[u] = "LOCK_WAIT" /\ waitLock[u] = l /\ ~suspending[u]
      BY <1>1, FirstWaiter
    <2> HIDE DEF u
    <2>2. /\ owner' = [owner EXCEPT ![l] = u]
          /\ waitLock' = [waitLock EXCEPT ![u] = NoLock]
          /\ state' = [state EXCEPT ![u] = IF u \in Native THEN "RUNNING"
                                                           ELSE "RUNNABLE"]
      BY <1>1 DEF AssignLock, u
    <2>3. /\ owner'[l] = u
          /\ state'[u] = IF u \in Native THEN "RUNNING" ELSE "RUNNABLE"
          /\ \A k \in Locks \ {l} : owner'[k] = owner[k]
          /\ \A t \in Threads \ {u} : state'[t] = state[t] /\ waitLock'[t] = waitLock[t]
      BY <2>1, <2>2 DEF TypeOK
    <2> QED  BY <1>1, <2>1, <2>3, AssignLockKeepsQueues
  <1>2. CASE /\ owner' = [owner EXCEPT ![l] = NoThread]
             /\ UNCHANGED <<waitQ, waitLock, state>>
    BY <1>2 DEF TypeOK, WaitersAreQueued
  <1> QED  BY <1>1, <1>2 DEF Release, Assignable

\* The same of the lock that a resumed thread waits for.
LEMMA ResumeEffect ==
  ASSUME TypeOK, WaitersAreQueued, NEW t \in Local, NEW u \in GcAble,
         ResumeLockWait(t, u)
  PROVE  /\ state' \in [Threads -> ThreadStates]
         /\ waitLock' \in [Threads -> Locks \cup {NoLock}]
         /\ owner' \in [Locks -> Threads \cup {NoThread}]
         /\ waitQ' \in [Locks -> Seq(Threads)]
         /\ WaitersAreQueued'
         /\ \/ \E v \in Threads, l \in Locks :
                 /\ state[v] = "LOCK_WAIT" /\ waitLock[v] = l
                 /\ owner[l] = NoThread /\ owner'[l] = v
                 /\ \A k \in Locks \ {l} : owner'[k] = owner[k]
                 /\ state'[v] = IF v \in Native THEN "RUNNING" ELSE "RUNNABLE"
                 /\ \A w \in Threads \ {v} : /\ state'[w] = state[w]
                                             /\ waitLock'[w] = waitLock[w]
            \/ UNCHANGED <<state, waitLock, owner, waitQ>>
PROOF
  <1> DEFINE l == waitLock[u]
  <1>1. l \in Locks
    BY ThreadsAssumption DEF TypeOK, WaitersAreQueued, ResumeLockWait, Threads
  <1>2. CASE UNCHANGED <<state, waitLock, lockVars>>
    BY <1>2 DEF TypeOK, WaitersAreQueued, lockVars
  <1>3. CASE owner[l] = NoThread /\ waitQ[l] # << >> /\ AssignLock(l)
    <2> DEFINE v == Head(waitQ[l])
    <2>1. v \in Threads /\ state[v] = "LOCK_WAIT" /\ waitLock[v] = l
      BY <1>1, <1>3, FirstWaiter
    <2>2. /\ owner' = [owner EXCEPT ![l] = v]
          /\ waitLock' = [waitLock EXCEPT ![v] = NoLock]
          /\ state' = [state EXCEPT ![v] = IF v \in Native THEN "RUNNING"
                                                           ELSE "RUNNABLE"]
      BY <1>3 DEF AssignLock
    <2> HIDE DEF v
    <2>3. /\ owner'[l] = v
          /\ state'[v] = IF v \in Native THEN "RUNNING" ELSE "RUNNABLE"
          /\ \A k \in Locks \ {l} : owner'[k] = owner[k]
          /\ \A w \in Threads \ {v} : state'[w] = state[w] /\ waitLock'[w] = waitLock[w]
      BY <1>1, <2>1, <2>2 DEF TypeOK
    <2> QED  BY <1>1, <1>3, <2>1, <2>3, AssignLockKeepsQueues
  <1> QED  BY <1>2, <1>3 DEF ResumeLockWait, Assignable

\* A queue does not notice what happens to threads that do not wait for a lock.
LEMMA QueuesAreKept ==
  ASSUME WaitersAreQueued, UNCHANGED <<waitLock, waitQ>>,
         \A t \in Threads : state'[t] = "LOCK_WAIT" <=> state[t] = "LOCK_WAIT"
  PROVE  WaitersAreQueued'
BY DEF WaitersAreQueued

\* Handing a lock to its first waiter, who is not marked.
LEMMA AssignLockStep ==
  ASSUME IInv, NEW l \in Locks, waitQ[l] # << >>, AssignLock(l),
         suspending' \in [Threads -> BOOLEAN],
         \A t \in Threads : suspending'[t] => suspending[t],
         \A k \in Locks \ {l} : waitQ[k] # << >> =>
                               suspending'[Head(waitQ[k])] = suspending[Head(waitQ[k])],
         ~suspending'[Head(waitQ[l])]
  PROVE  /\ FreeLockAwaitsResume'
         /\ \A k \in Locks : owner'[k] \in Threads => waitLock'[owner'[k]] # k
         /\ \A k \in Locks \ {l} : owner'[k] = owner[k]
         /\ owner'[l] # NoThread
         /\ \A t \in Threads : state'[t] = "SUSPENDED" <=> state[t] = "SUSPENDED"
         /\ MarkedThreadsAreBlocked'
PROOF
  <1> DEFINE u == Head(waitQ[l])
  <1>0. TypeOK /\ WaitersAreQueued
    BY DEF IInv
  <1>1. u \in Threads /\ state[u] = "LOCK_WAIT" /\ waitLock[u] = l
    BY <1>0, FirstWaiter
  <1>2. /\ owner' = [owner EXCEPT ![l] = u]
        /\ waitQ' = [waitQ EXCEPT ![l] = Tail(@)]
        /\ waitLock' = [waitLock EXCEPT ![u] = NoLock]
        /\ state' = [state EXCEPT ![u] = IF u \in Native THEN "RUNNING"
                                                         ELSE "RUNNABLE"]
        /\ ~suspending'[u]
    BY DEF AssignLock
  <1> HIDE DEF u
  <1>3. /\ owner'[l] = u
        /\ \A k \in Locks \ {l} : owner'[k] = owner[k] /\ waitQ'[k] = waitQ[k]
        /\ state'[u] \in {"RUNNING", "RUNNABLE"} /\ waitLock'[u] = NoLock
        /\ \A t \in Threads \ {u} : state'[t] = state[t] /\ waitLock'[t] = waitLock[t]
    BY <1>0, <1>1, <1>2 DEF TypeOK
  <1>4. u # NoThread
    BY <1>1, ThreadsAssumption
  <1>5. FreeLockAwaitsResume'
    BY <1>3, <1>4 DEF IInv, FreeLockAwaitsResume
  <1>6. \A k \in Locks : owner'[k] \in Threads => waitLock'[owner'[k]] # k
    BY <1>3, LocksAssumption DEF IInv, OwnersDoNotWait
  <1>7. MarkedThreadsAreBlocked'
    BY <1>2, <1>3 DEF IInv, MarkedThreadsAreBlocked
  <1>8. \A t \in Threads : state'[t] = "SUSPENDED" <=> state[t] = "SUSPENDED"
    BY <1>1, <1>3
  <1> QED  BY <1>3, <1>4, <1>5, <1>6, <1>7, <1>8

\* Giving up a lock.
LEMMA ReleaseStep ==
  ASSUME IInv, NEW l \in Locks, Release(l),
         UNCHANGED <<suspending, priority>>
  PROVE  /\ state' \in [Threads -> ThreadStates]
         /\ waitLock' \in [Threads -> Locks \cup {NoLock}]
         /\ owner' \in [Locks -> Threads \cup {NoThread}]
         /\ waitQ' \in [Locks -> Seq(Threads)]
         /\ WaitersAreQueued'
         /\ FreeLockAwaitsResume'
         /\ \A k \in Locks : owner'[k] \in Threads => waitLock'[owner'[k]] # k
         /\ \A k \in Locks \ {l} : owner'[k] = owner[k]
         /\ \A t \in Threads : Stopped(t)' <=> Stopped(t)
         /\ MarkedThreadsAreBlocked'
PROOF
  <1>0. TypeOK /\ WaitersAreQueued
    BY DEF IInv
  <1>1. CASE Assignable(l, suspending) /\ AssignLock(l)
    <2>1. waitQ[l] # << >> /\ ~suspending'[Head(waitQ[l])]
      BY <1>1 DEF Assignable
    <2>2. suspending' \in [Threads -> BOOLEAN]
      BY <1>0 DEF TypeOK
    <2> QED  BY <1>0, <1>1, <2>1, <2>2, AssignLockKeepsQueues, AssignLockStep DEF Stopped
  <1>2. CASE /\ ~Assignable(l, suspending)
             /\ owner' = [owner EXCEPT ![l] = NoThread]
             /\ UNCHANGED <<waitQ, waitLock, state>>
    <2>1. /\ owner' \in [Locks -> Threads \cup {NoThread}]
          /\ owner'[l] = NoThread
          /\ \A k \in Locks \ {l} : owner'[k] = owner[k]
      BY <1>0, <1>2 DEF TypeOK
    <2>2. FreeLockAwaitsResume'
      BY <1>2, <2>1 DEF IInv, FreeLockAwaitsResume, Assignable
    <2>3. \A k \in Locks : owner'[k] \in Threads => waitLock'[owner'[k]] # k
      BY <1>2, <2>1, ThreadsAssumption DEF IInv, OwnersDoNotWait
    <2>4. WaitersAreQueued' /\ MarkedThreadsAreBlocked'
      BY <1>2 DEF IInv, WaitersAreQueued, MarkedThreadsAreBlocked
    <2> QED  BY <1>0, <1>2, <2>1, <2>2, <2>3, <2>4 DEF TypeOK, Stopped
  <1> QED  BY <1>1, <1>2 DEF Release

-----------------------------------------------------------------------------
(* Every action preserves the invariant.                                   *)

LEMMA DispatchPreemptKeepIInv ==
  ASSUME IInv, NEW t \in Local, Dispatch(t) \/ Preempt(t)
  PROVE  IInv'
PROOF
  <1>1. /\ t \in Threads
        /\ state[t] \in {"RUNNING", "RUNNABLE"}
        /\ state'[t] \in {"RUNNING", "RUNNABLE"}
        /\ state' \in [Threads -> ThreadStates]
        /\ \A u \in Threads \ {t} : state'[u] = state[u]
        /\ UNCHANGED <<suspending, priority, waitLock, lockVars, gcVars>>
    BY DEF IInv, TypeOK, Dispatch, Preempt, Schedulable, Threads, ThreadStates
  <1>2. UNCHANGED <<suspending, priority, waitLock, owner, waitQ,
                    suspendAllThread, gcPhase, unvisited>>
    BY <1>1 DEF lockVars, gcVars
  <1>3. TypeOK'
    BY <1>1, <1>2 DEF IInv, TypeOK
  <1>4. WaitersAreQueued'
    BY <1>1, <1>2 DEF IInv, WaitersAreQueued
  <1>5. FreeLockAwaitsResume' /\ OwnersDoNotWait'
    BY <1>2 DEF IInv, FreeLockAwaitsResume, OwnersDoNotWait
  <1>6. CollectorStops'
    BY <1>1, <1>2 DEF IInv, CollectorStops, Stopped, StoppedThreads, Suspendable
  <1>7. MarkedThreadsAreBlocked'
    BY <1>1, <1>2 DEF IInv, MarkedThreadsAreBlocked
  <1> QED  BY <1>3, <1>4, <1>5, <1>6, <1>7 DEF IInv

LEMMA SetThreadPriorityKeepsIInv ==
  ASSUME IInv, NEW me \in Threads, NEW u \in Threads, NEW p \in Priorities,
         SetThreadPriority(me, u, p)
  PROVE  IInv'
PROOF
  <1>1. /\ UNCHANGED <<state, suspending, waitLock, owner, waitQ,
                       suspendAllThread, gcPhase, unvisited>>
        /\ priority' = [priority EXCEPT ![u] = p]
    BY DEF SetThreadPriority, lockVars, gcVars
  <1>2. TypeOK'
    BY <1>1, PriorityAssumption DEF IInv, TypeOK
  <1>3. WaitersAreQueued' /\ FreeLockAwaitsResume' /\ OwnersDoNotWait'
    BY <1>1 DEF IInv, WaitersAreQueued, FreeLockAwaitsResume, OwnersDoNotWait
  <1>4. CollectorStops' /\ MarkedThreadsAreBlocked'
    BY <1>1 DEF IInv, CollectorStops, Stopped, StoppedThreads, Suspendable,
                MarkedThreadsAreBlocked
  <1> QED  BY <1>2, <1>3, <1>4 DEF IInv

LEMMA TakeFreeKeepsIInv ==
  ASSUME IInv, NEW t \in Threads, NEW l \in Locks, state[t] = "RUNNING",
         TakeFree(t, l), UNCHANGED <<suspending, priority, gcVars>>
  PROVE  IInv'
PROOF
  <1>1. /\ owner[l] = NoThread
        /\ owner' \in [Locks -> Threads \cup {NoThread}]
        /\ owner'[l] = t
        /\ \A k \in Locks \ {l} : owner'[k] = owner[k]
        /\ UNCHANGED <<state, suspending, priority, waitLock, waitQ,
                       suspendAllThread, gcPhase, unvisited>>
    BY DEF TakeFree, IInv, TypeOK, gcVars
  <1>2. TypeOK'
    BY <1>1 DEF IInv, TypeOK
  <1>3. WaitersAreQueued'
    BY <1>1 DEF IInv, WaitersAreQueued
  <1>4. FreeLockAwaitsResume'
    BY <1>1, ThreadsAssumption DEF IInv, FreeLockAwaitsResume
  <1>5. OwnersDoNotWait'
    <2>1. waitLock[t] = NoLock
      BY DEF IInv, WaitersAreQueued
    <2>2. l = ActiveLock => suspendAllThread = NoThread
      BY <1>1 DEF IInv, OwnersDoNotWait
    <2> QED  BY <1>1, <2>1, <2>2, LocksAssumption DEF IInv, OwnersDoNotWait
  <1>6. CollectorStops' /\ MarkedThreadsAreBlocked'
    BY <1>1 DEF IInv, CollectorStops, Stopped, StoppedThreads, Suspendable,
                MarkedThreadsAreBlocked
  <1> QED  BY <1>2, <1>3, <1>4, <1>5, <1>6 DEF IInv

LEMMA WaitForKeepsIInv ==
  ASSUME IInv, NEW t \in Threads, NEW l \in Locks, state[t] = "RUNNING",
         WaitFor(t, l), UNCHANGED <<suspending, priority, gcVars>>
  PROVE  IInv'
PROOF
  <1>1. /\ owner[l] \notin {NoThread, t}
        /\ waitQ' = [waitQ EXCEPT ![l] = Enqueue(t, @)]
        /\ state' = [state EXCEPT ![t] = "LOCK_WAIT"]
        /\ waitLock' = [waitLock EXCEPT ![t] = l]
        /\ UNCHANGED <<owner, suspending, priority,
                       suspendAllThread, gcPhase, unvisited>>
    BY DEF WaitFor, gcVars
  <1>2. /\ \A k \in Locks \ {l} : waitQ'[k] = waitQ[k]
        /\ state'[t] = "LOCK_WAIT" /\ waitLock'[t] = l
        /\ \A u \in Threads \ {t} : state'[u] = state[u] /\ waitLock'[u] = waitLock[u]
    BY <1>1 DEF IInv, TypeOK
  <1>3. TypeOK' /\ WaitersAreQueued'
    BY <1>1, WaitForKeepsQueues DEF IInv, TypeOK
  <1>4. FreeLockAwaitsResume'
    BY <1>1, <1>2 DEF IInv, FreeLockAwaitsResume
  <1>5. OwnersDoNotWait'
    BY <1>1, <1>2 DEF IInv, OwnersDoNotWait
  <1>6. CollectorStops'
    BY <1>1, <1>2 DEF IInv, CollectorStops, Stopped, StoppedThreads, Suspendable
  <1>7. MarkedThreadsAreBlocked'
    BY <1>1, <1>2 DEF IInv, MarkedThreadsAreBlocked
  <1> QED  BY <1>3, <1>4, <1>5, <1>6, <1>7 DEF IInv

LEMMA LockKeepsIInv ==
  ASSUME IInv, NEW t \in Threads, NEW l \in Locks,
         PR_Lock(t, l) \/ PR_TestAndLock(t, l)
  PROVE  IInv'
BY TakeFreeKeepsIInv, WaitForKeepsIInv DEF PR_Lock, PR_TestAndLock, MayLock

\* The owner gives its lock up, if it is not the suspender.
LEMMA ReleaseKeepsIInv ==
  ASSUME IInv, NEW t \in Threads, NEW l \in Locks, owner[l] = t, t # suspendAllThread,
         Release(l), UNCHANGED <<suspending, priority, gcVars>>
  PROVE  IInv'
PROOF
  <1>1. UNCHANGED <<suspending, priority, suspendAllThread, gcPhase, unvisited>>
    BY DEF gcVars
  <1>2. TypeOK' /\ WaitersAreQueued' /\ FreeLockAwaitsResume' /\ MarkedThreadsAreBlocked'
    BY <1>1, ReleaseStep DEF IInv, TypeOK
  <1>3. OwnersDoNotWait'
    <2>1. \A k \in Locks \ {l} : owner'[k] = owner[k]
      BY <1>1, ReleaseStep
    <2>2. suspendAllThread # NoThread => l # ActiveLock
      BY <1>1 DEF IInv, OwnersDoNotWait
    <2>3. \A k \in Locks : owner'[k] \in Threads => waitLock'[owner'[k]] # k
      BY <1>1, ReleaseStep
    <2> QED  BY <1>1, <2>1, <2>2, <2>3, LocksAssumption DEF IInv, OwnersDoNotWait
  <1>4. CollectorStops'
    <2>1. \A u \in Threads : Stopped(u)' <=> Stopped(u)
      BY <1>1, ReleaseStep
    <2> QED  BY <1>1, <2>1 DEF IInv, CollectorStops, StoppedThreads, Suspendable
  <1> QED  BY <1>2, <1>3, <1>4 DEF IInv

LEMMA UnlockKeepsIInv ==
  ASSUME IInv, NEW t \in Threads, NEW l \in Locks, PR_Unlock(t, l)
  PROVE  IInv'
BY ReleaseKeepsIInv DEF PR_Unlock, MayLock

\* The steps of the two walks that touch no thread.
LEMMA PhaseKeepsIInv ==
  ASSUME IInv, NEW t \in Local,
         SuspendAll(t) \/ SuspendAllReturns(t) \/ ResumeAll(t)
  PROVE  IInv'
PROOF
  <1>0. t # NoThread /\ t \in Threads
    BY ThreadsAssumption DEF Threads
  <1>1. UNCHANGED <<state, suspending, priority, waitLock, owner, waitQ>>
    BY DEF SuspendAll, SuspendAllReturns, ResumeAll, threadVars, lockVars
  <1>2. /\ suspendAllThread' \in Local
        /\ gcPhase' \in GcPhases \ {"none"}
        /\ unvisited' \in SUBSET GcAble
        /\ owner[ActiveLock] = suspendAllThread'
    <2>1. CASE SuspendAll(t)
      BY <2>1 DEF SuspendAll, Suspendable, GcPhases
    <2>2. CASE SuspendAllReturns(t) \/ ResumeAll(t)
      BY <2>2, <1>0 DEF SuspendAllReturns, ResumeAll, Walking, Suspendable, GcPhases,
                        IInv, TypeOK, OwnersDoNotWait
    <2> QED  BY <2>1, <2>2
  <1>3. TypeOK'
    BY <1>1, <1>2 DEF IInv, TypeOK
  <1>4. WaitersAreQueued' /\ FreeLockAwaitsResume' /\ MarkedThreadsAreBlocked'
    BY <1>1 DEF IInv, WaitersAreQueued, FreeLockAwaitsResume, MarkedThreadsAreBlocked
  <1>5. OwnersDoNotWait'
    BY <1>1, <1>2 DEF IInv, OwnersDoNotWait
  <1>6. CollectorStops'
    <2>1. \A u \in Threads : Stopped(u)' <=> Stopped(u)
      BY <1>1 DEF Stopped
    <2>2. CASE SuspendAll(t)
      <3>1. gcPhase = "none"
        BY <2>2, <1>0 DEF SuspendAll, MayLock, IInv, OwnersDoNotWait, CollectorStops
      <3> QED  BY <2>1, <2>2, <3>1, <1>0
               DEF SuspendAll, IInv, CollectorStops, StoppedThreads, Suspendable
    <2>3. CASE SuspendAllReturns(t)
      BY <2>1, <2>3, <1>0
      DEF SuspendAllReturns, Walking, IInv, CollectorStops, StoppedThreads, Suspendable
    <2>4. CASE ResumeAll(t)
      BY <2>1, <2>4, <1>0
      DEF ResumeAll, Walking, IInv, CollectorStops, StoppedThreads, Suspendable
    <2> QED  BY <2>2, <2>3, <2>4
  <1> QED  BY <1>3, <1>4, <1>5, <1>6 DEF IInv

\* A step of a walk that reaches u and leaves the locks alone.
LEMMA VisitKeepsIInv ==
  ASSUME IInv, NEW t \in Local, NEW u \in GcAble,
         \/ SuspendRunnable(t, u)
         \/ SuspendBlocked(t, u)
         \/ ResumeSuspended(t, u)
  PROVE  IInv'
PROOF
  <1>0. t # NoThread /\ u \in Threads /\ t \in Threads
    BY ThreadsAssumption DEF Threads
  <1>1. /\ t = suspendAllThread
        /\ u \in unvisited /\ unvisited' = unvisited \ {u}
        /\ UNCHANGED <<suspendAllThread, gcPhase, priority, waitLock, owner, waitQ>>
    BY DEF SuspendRunnable, SuspendBlocked, ResumeSuspended, Walking, Visit, Unmark, lockVars
  <1>2. /\ state' \in [Threads -> ThreadStates]
        /\ suspending' \in [Threads -> BOOLEAN]
        /\ \A v \in Threads \ {u} : state'[v] = state[v] /\ suspending'[v] = suspending[v]
        /\ state'[u] = "LOCK_WAIT" <=> state[u] = "LOCK_WAIT"
        /\ suspending[u] /\ ~suspending'[u] => state[u] # "LOCK_WAIT"
        /\ suspending'[u] => state'[u] \in {"LOCK_WAIT", "COND_WAIT"}
        /\ gcPhase = "suspending" => Stopped(u)'
        /\ gcPhase = "resuming" => ~Stopped(u)'
        /\ gcPhase \in {"suspending", "resuming"}
    <2>1. CASE SuspendRunnable(t, u)
      BY <2>1, <1>0 DEF SuspendRunnable, Walking, IInv, TypeOK, ThreadStates, Stopped,
                        MarkedThreadsAreBlocked
    <2>2. CASE SuspendBlocked(t, u)
      BY <2>2, <1>0 DEF SuspendBlocked, Walking, IInv, TypeOK, ThreadStates, Stopped,
                        MarkedThreadsAreBlocked
    <2>3. CASE ResumeSuspended(t, u)
      BY <2>3, <1>0 DEF ResumeSuspended, Walking, Unmark, IInv, TypeOK, ThreadStates, Stopped,
                        MarkedThreadsAreBlocked
    <2> QED  BY <2>1, <2>2, <2>3
  <1>3. TypeOK'
    BY <1>1, <1>2 DEF IInv, TypeOK
  <1>4. WaitersAreQueued'
    BY <1>1, <1>2 DEF IInv, WaitersAreQueued
  <1>5. FreeLockAwaitsResume'
    <2> SUFFICES ASSUME NEW l \in Locks, owner[l] = NoThread, waitQ[l] # << >>
                 PROVE  suspending'[Head(waitQ[l])]
      BY <1>1 DEF FreeLockAwaitsResume
    <2>1. /\ Head(waitQ[l]) \in Threads
          /\ state[Head(waitQ[l])] = "LOCK_WAIT"
      BY FirstWaiter DEF IInv
    <2>2. suspending[Head(waitQ[l])]
      BY DEF IInv, FreeLockAwaitsResume
    <2> QED  BY <2>1, <2>2, <1>2 DEF IInv, TypeOK
  <1>6. OwnersDoNotWait'
    BY <1>1 DEF IInv, OwnersDoNotWait
  <1>7. CollectorStops'
    <2>1. \A v \in Threads \ {u} : Stopped(v)' <=> Stopped(v)
      BY <1>2 DEF Stopped
    <2>2. CASE gcPhase = "suspending"
      BY <1>0, <1>1, <1>2, <2>1, <2>2
      DEF IInv, CollectorStops, StoppedThreads, Suspendable
    <2>3. CASE gcPhase = "resuming"
      BY <1>0, <1>1, <1>2, <2>1, <2>3
      DEF IInv, CollectorStops, StoppedThreads, Suspendable
    <2> QED  BY <2>2, <2>3, <1>2
  <1>8. MarkedThreadsAreBlocked'
    BY <1>2 DEF IInv, MarkedThreadsAreBlocked
  <1> QED  BY <1>3, <1>4, <1>5, <1>6, <1>7, <1>8 DEF IInv

\* The resume of a thread in a lock's queue, which may hand the lock on.
LEMMA ResumeLockWaitKeepsIInv ==
  ASSUME IInv, NEW t \in Local, NEW u \in GcAble, ResumeLockWait(t, u)
  PROVE  IInv'
PROOF
  <1> DEFINE l == waitLock[u]
  <1>0. t # NoThread /\ u \in Threads /\ TypeOK /\ WaitersAreQueued
    BY ThreadsAssumption DEF Threads, IInv
  <1>1. /\ t = suspendAllThread /\ gcPhase = "resuming"
        /\ state[u] = "LOCK_WAIT"
        /\ u \in unvisited /\ unvisited' = unvisited \ {u}
        /\ UNCHANGED <<suspendAllThread, gcPhase, priority>>
        /\ suspending' = [suspending EXCEPT ![u] = FALSE]
    BY DEF ResumeLockWait, Walking, Visit, Unmark
  <1>2. /\ suspending' \in [Threads -> BOOLEAN]
        /\ ~suspending'[u]
        /\ \A v \in Threads \ {u} : suspending'[v] = suspending[v]
        /\ \A v \in Threads : suspending'[v] => suspending[v]
    BY <1>0, <1>1 DEF TypeOK
  <1>3. l \in Locks /\ u \in Range(waitQ[l])
    BY <1>0, <1>1 DEF TypeOK, WaitersAreQueued
  <1>4. \A k \in Locks \ {l} : waitQ[k] # << >> =>
                              suspending'[Head(waitQ[k])] = suspending[Head(waitQ[k])]
    <2> SUFFICES ASSUME NEW k \in Locks \ {l}, waitQ[k] # << >>
                 PROVE  Head(waitQ[k]) \in Threads \ {u}
      BY <1>2
    <2> QED  BY <1>0, FirstWaiter
  <1>5. CASE owner[l] = NoThread /\ Assignable(l, suspending') /\ AssignLock(l)
    <2>1. waitQ[l] # << >> /\ ~suspending'[Head(waitQ[l])]
      BY <1>5 DEF Assignable
    <2>2. /\ state' \in [Threads -> ThreadStates]
          /\ waitLock' \in [Threads -> Locks \cup {NoLock}]
          /\ owner' \in [Locks -> Threads \cup {NoThread}]
          /\ waitQ' \in [Locks -> Seq(Threads)]
          /\ WaitersAreQueued'
      BY <1>0, <1>3, <1>5, <2>1, AssignLockKeepsQueues
    <2>3. /\ FreeLockAwaitsResume'
          /\ \A k \in Locks : owner'[k] \in Threads => waitLock'[owner'[k]] # k
          /\ \A k \in Locks \ {l} : owner'[k] = owner[k]
          /\ \A v \in Threads : state'[v] = "SUSPENDED" <=> state[v] = "SUSPENDED"
          /\ MarkedThreadsAreBlocked'
      BY <1>2, <1>3, <1>4, <1>5, <2>1, AssignLockStep
    <2>4. TypeOK'
      BY <1>0, <1>1, <1>2, <2>2 DEF TypeOK
    <2>5. OwnersDoNotWait'
      <3>1. l # ActiveLock
        BY <1>0, <1>1, <1>5 DEF IInv, OwnersDoNotWait
      <3> QED  BY <1>1, <2>3, <3>1, LocksAssumption DEF IInv, OwnersDoNotWait
    <2>6. CollectorStops'
      BY <1>0, <1>1, <1>2, <2>3
      DEF IInv, CollectorStops, Stopped, StoppedThreads, Suspendable
    <2> QED  BY <2>2, <2>3, <2>4, <2>5, <2>6 DEF IInv
  <1>6. CASE /\ owner[l] = NoThread => ~Assignable(l, suspending')
             /\ UNCHANGED <<state, waitLock, lockVars>>
    <2>1. UNCHANGED <<state, waitLock, owner, waitQ>>
      BY <1>6 DEF lockVars
    <2>2. TypeOK' /\ WaitersAreQueued' /\ OwnersDoNotWait'
      BY <1>0, <1>1, <1>2, <2>1 DEF IInv, TypeOK, WaitersAreQueued, OwnersDoNotWait
    <2>3. FreeLockAwaitsResume'
      BY <1>4, <1>6, <2>1 DEF IInv, FreeLockAwaitsResume, Assignable
    <2>4. CollectorStops'
      BY <1>0, <1>1, <1>2, <2>1
      DEF IInv, CollectorStops, Stopped, StoppedThreads, Suspendable
    <2>5. MarkedThreadsAreBlocked'
      BY <1>2, <2>1 DEF IInv, MarkedThreadsAreBlocked
    <2> QED  BY <2>2, <2>3, <2>4, <2>5 DEF IInv
  <1> QED  BY <1>5, <1>6 DEF ResumeLockWait

\* The end of a collection: nobody is marked any more.
LEMMA ResumeAllReturnsKeepsIInv ==
  ASSUME IInv, NEW t \in Local, ResumeAllReturns(t)
  PROVE  IInv'
PROOF
  <1>0. t # NoThread /\ TypeOK
    BY ThreadsAssumption DEF IInv, Threads
  <1>1. /\ t = suspendAllThread /\ gcPhase = "resuming"
        /\ unvisited = {} /\ unvisited' = {}
        /\ suspendAllThread' = NoThread /\ gcPhase' = "none"
        /\ Release(ActiveLock)
        /\ UNCHANGED <<suspending, priority>>
    BY DEF ResumeAllReturns, Walking
  <1>2. /\ state' \in [Threads -> ThreadStates]
        /\ waitLock' \in [Threads -> Locks \cup {NoLock}]
        /\ owner' \in [Locks -> Threads \cup {NoThread}]
        /\ waitQ' \in [Locks -> Seq(Threads)]
        /\ WaitersAreQueued'
        /\ FreeLockAwaitsResume'
        /\ \A k \in Locks : owner'[k] \in Threads => waitLock'[owner'[k]] # k
        /\ \A u \in Threads : Stopped(u)' <=> Stopped(u)
        /\ MarkedThreadsAreBlocked'
    BY <1>1, LocksAssumption, ReleaseStep
  <1>3. TypeOK'
    BY <1>0, <1>1, <1>2 DEF TypeOK, GcPhases
  <1>4. OwnersDoNotWait'
    BY <1>1, <1>2 DEF OwnersDoNotWait
  <1>5. CollectorStops'
    <2>1. \A u \in Threads : ~Stopped(u)
      BY <1>1 DEF IInv, CollectorStops, StoppedThreads
    <2> QED  BY <1>1, <1>2, <2>1 DEF CollectorStops, StoppedThreads
  <1> QED  BY <1>2, <1>3, <1>4, <1>5 DEF IInv

-----------------------------------------------------------------------------
LEMMA InitIInv == Init => IInv
PROOF
  <1> SUFFICES ASSUME Init PROVE IInv
    OBVIOUS
  <1>1. \A l \in Locks : waitQ[l] = << >> /\ owner[l] = NoThread
    BY DEF Init
  <1>2. \A t \in Threads : /\ state[t] \in {"RUNNING", "RUNNABLE"}
                          /\ ~suspending[t]
                          /\ waitLock[t] = NoLock
    BY DEF Init
  <1>3. TypeOK
    BY PriorityAssumption DEF Init, TypeOK, ThreadStates, GcPhases
  <1>4. WaitersAreQueued
    <2>1. \A l \in Locks : IsInjective(waitQ[l]) /\ Range(waitQ[l]) = {}
      BY <1>1, EmptySeq DEF IsInjective, Range
    <2> QED  BY <1>2, <2>1 DEF WaitersAreQueued
  <1>5. FreeLockAwaitsResume /\ OwnersDoNotWait
    BY <1>1, ThreadsAssumption DEF Init, FreeLockAwaitsResume, OwnersDoNotWait
  <1>6. CollectorStops /\ MarkedThreadsAreBlocked
    BY <1>2 DEF Init, CollectorStops, MarkedThreadsAreBlocked, Stopped, StoppedThreads
  <1> QED  BY <1>3, <1>4, <1>5, <1>6 DEF IInv

LEMMA NextKeepsIInv == IInv /\ [Next]_vars => IInv'
PROOF
  <1> SUFFICES ASSUME IInv, [Next]_vars PROVE IInv'
    OBVIOUS
  <1> USE DEF Threads
  <1>1. ASSUME NEW t \in Local, Dispatch(t) \/ Preempt(t) PROVE IInv'
    BY <1>1, DispatchPreemptKeepIInv
  <1>2. ASSUME NEW t \in Local, SuspendAll(t) PROVE IInv'
    BY <1>2, PhaseKeepsIInv
  <1>3. ASSUME NEW t \in Local, Collect(t) PROVE IInv'
    BY <1>3, PhaseKeepsIInv, VisitKeepsIInv, ResumeLockWaitKeepsIInv,
       ResumeAllReturnsKeepsIInv DEF Collect
  <1>4. ASSUME NEW t \in Threads, Lock(t) PROVE IInv'
    BY <1>4, LockKeepsIInv DEF Lock
  <1>5. ASSUME NEW t \in Threads, Unlock(t) PROVE IInv'
    BY <1>5, UnlockKeepsIInv DEF Unlock
  <1>6. ASSUME NEW t \in Threads, Reprioritize(t) PROVE IInv'
    BY <1>6, SetThreadPriorityKeepsIInv DEF Reprioritize
  <1>7. CASE UNCHANGED vars
    BY <1>7 DEF vars, threadVars, lockVars, gcVars, IInv, TypeOK, WaitersAreQueued,
                FreeLockAwaitsResume, OwnersDoNotWait, CollectorStops, Stopped,
                StoppedThreads, Suspendable, MarkedThreadsAreBlocked
  <1> QED  BY <1>1, <1>2, <1>3, <1>4, <1>5, <1>6, <1>7 DEF Next

\* The inductive invariant holds throughout every behaviour.
THEOREM SpecIInv == Spec => []IInv
BY InitIInv, NextKeepsIInv, PTL DEF Spec

\* Every variable keeps its type.
THEOREM SpecTypeOK == Spec => []TypeOK
BY SpecIInv, PTL DEF IInv

\* The queues, wait.lock and the thread states always agree.
THEOREM SpecWaitersAreQueued == Spec => []WaitersAreQueued
BY SpecIInv, PTL DEF IInv

\* The walks of PR_SuspendAll and PR_ResumeAll stop exactly whom they should.
THEOREM SpecCollectorStops == Spec => []CollectorStops
BY SpecIInv, PTL DEF IInv

\* Outside a collection nobody is marked, so no free lock awaits a resume.
LEMMA IInvNoIdleWaiters == IInv => NoIdleWaiters
PROOF
  <1> SUFFICES ASSUME IInv, suspendAllThread = NoThread, NEW l \in Locks,
                      owner[l] = NoThread, waitQ[l] # << >>
               PROVE  FALSE
    BY DEF NoIdleWaiters
  <1>1. Head(waitQ[l]) \in Threads
    BY FirstWaiter DEF IInv
  <1>2. suspending[Head(waitQ[l])]
    BY DEF IInv, FreeLockAwaitsResume
  <1>3. ~Stopped(Head(waitQ[l]))
    BY <1>1 DEF IInv, CollectorStops, StoppedThreads
  <1> QED  BY <1>2, <1>3 DEF Stopped

\* Outside a collection no lock lies free while threads wait for it.
THEOREM SpecNoIdleWaiters == Spec => []NoIdleWaiters
BY SpecIInv, IInvNoIdleWaiters, PTL

\* The locks alone make nobody wait for a condition.
NobodyAwaitsCondition == \A t \in Threads : state[t] # "COND_WAIT"

LEMMA SpecNobodyAwaitsCondition == Spec => []NobodyAwaitsCondition
PROOF
  <1>1. Init => NobodyAwaitsCondition
    BY DEF Init, NobodyAwaitsCondition
  <1>2. IInv /\ NobodyAwaitsCondition /\ [Next]_vars => NobodyAwaitsCondition'
    <2> SUFFICES ASSUME IInv, NobodyAwaitsCondition, [Next]_vars
                 PROVE  NobodyAwaitsCondition'
      OBVIOUS
    <2>1. TypeOK /\ Threads = Local \cup Native
      BY DEF IInv, Threads
    <2>2. ASSUME NEW l \in Locks, AssignLock(l)  PROVE NobodyAwaitsCondition'
      BY <2>1, <2>2 DEF AssignLock, TypeOK, NobodyAwaitsCondition
    <2>3. ASSUME NEW l \in Locks, Release(l)  PROVE NobodyAwaitsCondition'
      BY <2>2, <2>3 DEF Release, NobodyAwaitsCondition
    <2>4. ASSUME NEW t \in Local, Dispatch(t) \/ Preempt(t) \/ SuspendAll(t)
          PROVE  NobodyAwaitsCondition'
      BY <2>1, <2>4 DEF Dispatch, Preempt, SuspendAll, threadVars, TypeOK, NobodyAwaitsCondition
    <2>5. ASSUME NEW t \in Local, Collect(t)  PROVE NobodyAwaitsCondition'
      <3>1. ASSUME NEW u \in GcAble, ResumeLockWait(t, u)  PROVE NobodyAwaitsCondition'
        <4>1. waitLock[u] \in Locks
          BY <2>1, <3>1, ThreadsAssumption DEF ResumeLockWait, TypeOK, IInv, WaitersAreQueued
        <4> QED  BY <2>2, <3>1, <4>1 DEF ResumeLockWait, NobodyAwaitsCondition
      <3>2. ASSUME NEW u \in GcAble,
                   SuspendRunnable(t, u) \/ SuspendBlocked(t, u) \/ ResumeSuspended(t, u)
            PROVE  NobodyAwaitsCondition'
        BY <2>1, <3>2 DEF SuspendRunnable, SuspendBlocked, ResumeSuspended, TypeOK,
                          NobodyAwaitsCondition
      <3>3. ASSUME SuspendAllReturns(t) \/ ResumeAll(t)  PROVE NobodyAwaitsCondition'
        BY <3>3 DEF SuspendAllReturns, ResumeAll, threadVars, NobodyAwaitsCondition
      <3>4. ASSUME ResumeAllReturns(t)  PROVE NobodyAwaitsCondition'
        BY <2>3, <3>4, LocksAssumption DEF ResumeAllReturns
      <3> QED  BY <2>5, <3>1, <3>2, <3>3, <3>4 DEF Collect
    <2>6. ASSUME NEW t \in Threads, NEW l \in Locks, PR_Lock(t, l) \/ PR_TestAndLock(t, l)
          PROVE  NobodyAwaitsCondition'
      BY <2>1, <2>6 DEF PR_Lock, PR_TestAndLock, TakeFree, WaitFor, TypeOK, NobodyAwaitsCondition
    <2>7. ASSUME NEW t \in Threads, Unlock(t)  PROVE NobodyAwaitsCondition'
      BY <2>3, <2>7 DEF Unlock, PR_Unlock
    <2>8. ASSUME NEW t \in Threads, Reprioritize(t)  PROVE NobodyAwaitsCondition'
      BY <2>8 DEF Reprioritize, SetThreadPriority, NobodyAwaitsCondition
    <2>9. CASE UNCHANGED vars
      BY <2>9 DEF vars, threadVars, NobodyAwaitsCondition
    <2> QED  BY <2>4, <2>5, <2>6, <2>7, <2>8, <2>9 DEF Next, Lock
  <1> QED  BY <1>1, <1>2, SpecIInv, PTL DEF Spec

\* When PR_SuspendAll has returned the collectable threads are stopped.
THEOREM SpecWorldIsStopped == Spec => []WorldIsStopped
PROOF
  <1>1. IInv /\ NobodyAwaitsCondition => WorldIsStopped
    <2> SUFFICES ASSUME IInv, NobodyAwaitsCondition, gcPhase = "stopped",
                        NEW u \in GcAble \ {suspendAllThread}
                 PROVE  state[u] = "SUSPENDED" \/ (state[u] = "LOCK_WAIT" /\ suspending[u])
      BY DEF WorldIsStopped
    <2>1. u \in Threads
      BY ThreadsAssumption DEF Threads
    <2>2. Stopped(u)
      BY <2>1 DEF IInv, CollectorStops, StoppedThreads, Suspendable
    <2> QED  BY <2>1, <2>2 DEF Stopped, IInv, MarkedThreadsAreBlocked, NobodyAwaitsCondition
  <1> QED  BY <1>1, SpecIInv, SpecNobodyAwaitsCondition, PTL

-----------------------------------------------------------------------------
(* What a step may never do.                                               *)

\* The steps that move locks, from the invariant: any other step leaves the
\* locks, their queues and the threads in LOCK_WAIT as they are.
LEMMA LockSteps ==
  ASSUME IInv, [Next]_vars
  PROVE  \/ \E t \in Threads, l \in Locks : state[t] = "RUNNING" /\ TakeFree(t, l)
         \/ \E t \in Threads, l \in Locks : state[t] = "RUNNING" /\ WaitFor(t, l)
         \/ \E l \in Locks : /\ owner[l] \in Threads
                           /\ state[owner[l]] = "RUNNING"
                           /\ Release(l)
                           /\ UNCHANGED suspending
         \/ \E l \in Locks : /\ owner[l] = NoThread /\ waitQ[l] # << >>
                           /\ AssignLock(l)
                           /\ gcPhase # "stopped"
         \/ /\ UNCHANGED lockVars
            /\ \A t \in Threads : state[t] = "LOCK_WAIT" => state'[t] = "LOCK_WAIT"
PROOF
  <1>0. TypeOK /\ NoThread \notin Threads /\ Threads = Local \cup Native
    BY ThreadsAssumption DEF IInv, Threads
  <1> DEFINE Quiet == /\ UNCHANGED lockVars
                      /\ \A t \in Threads : state[t] = "LOCK_WAIT" => state'[t] = "LOCK_WAIT"
  <1>1. ASSUME NEW t \in Local, Dispatch(t) \/ Preempt(t) \/ SuspendAll(t)
        PROVE  Quiet
    BY <1>0, <1>1 DEF Dispatch, Schedulable, Preempt, SuspendAll, threadVars, lockVars, TypeOK
  <1>2. ASSUME NEW t \in Threads, Reprioritize(t)
        PROVE  Quiet
    BY <1>2 DEF Reprioritize, SetThreadPriority, lockVars
  <1>3. ASSUME NEW t \in Local, NEW u \in GcAble,
               SuspendRunnable(t, u) \/ SuspendBlocked(t, u) \/ ResumeSuspended(t, u)
        PROVE  Quiet
    BY <1>0, <1>3 DEF SuspendRunnable, SuspendBlocked, ResumeSuspended, lockVars, TypeOK
  <1>4. ASSUME NEW t \in Local, SuspendAllReturns(t) \/ ResumeAll(t)
        PROVE  Quiet
    BY <1>4 DEF SuspendAllReturns, ResumeAll, threadVars, lockVars
  <1>5. ASSUME NEW t \in Local, NEW u \in GcAble, ResumeLockWait(t, u)
        PROVE  \/ Quiet
               \/ \E l \in Locks : /\ owner[l] = NoThread /\ waitQ[l] # << >>
                                 /\ AssignLock(l)
                                 /\ gcPhase # "stopped"
    <2>1. u \in Threads /\ waitLock[u] \in Locks
      BY <1>0, <1>5, ThreadsAssumption
      DEF ResumeLockWait, TypeOK, IInv, WaitersAreQueued
    <2> QED  BY <1>5, <2>1 DEF ResumeLockWait, Walking, Assignable, lockVars
  <1>6. ASSUME NEW t \in Local, ResumeAllReturns(t)
        PROVE  \E l \in Locks : /\ owner[l] \in Threads
                             /\ state[owner[l]] = "RUNNING"
                             /\ Release(l)
                             /\ UNCHANGED suspending
    BY <1>0, <1>6, LocksAssumption
    DEF ResumeAllReturns, Walking, IInv, OwnersDoNotWait
  <1>7. ASSUME NEW t \in Threads, NEW l \in Locks, PR_Unlock(t, l)
        PROVE  /\ owner[l] \in Threads
               /\ state[owner[l]] = "RUNNING"
               /\ Release(l)
               /\ UNCHANGED suspending
    BY <1>7 DEF PR_Unlock, MayLock
  <1> QED
    BY <1>1, <1>2, <1>3, <1>4, <1>5, <1>6, <1>7
    DEF Next, Lock, Unlock, Collect, PR_Lock, PR_TestAndLock, MayLock, vars, threadVars

\* A thread leaves LOCK_WAIT only at the head of its queue, with the lock.
THEOREM SpecWokenThreadOwnsLock == Spec => WokenThreadOwnsLock
PROOF
  <1> DEFINE Woken == \A t \in Threads :
                        state[t] = "LOCK_WAIT" /\ state'[t] # "LOCK_WAIT" =>
                          LET l == waitLock[t]
                          IN  owner'[l] = t /\ Head(waitQ[l]) = t
  <1>1. IInv /\ [Next]_vars => Woken
    <2> SUFFICES ASSUME IInv, [Next]_vars, NEW t \in Threads,
                        state[t] = "LOCK_WAIT", state'[t] # "LOCK_WAIT"
                 PROVE  owner'[waitLock[t]] = t /\ Head(waitQ[waitLock[t]]) = t
      OBVIOUS
    <2>1. TypeOK /\ WaitersAreQueued
      BY DEF IInv
    <2>2. ASSUME NEW l \in Locks, waitQ[l] # << >>, AssignLock(l)
          PROVE  owner'[waitLock[t]] = t /\ Head(waitQ[waitLock[t]]) = t
      <3>1. Head(waitQ[l]) \in Threads /\ waitLock[Head(waitQ[l])] = l
        BY <2>1, <2>2, FirstWaiter
      <3>2. t = Head(waitQ[l])
        BY <2>1, <2>2 DEF AssignLock, TypeOK
      <3> QED  BY <2>1, <2>2, <3>1, <3>2 DEF AssignLock, TypeOK
    <2>3. ASSUME NEW l \in Locks, Release(l)
          PROVE  owner'[waitLock[t]] = t /\ Head(waitQ[waitLock[t]]) = t
      BY <2>2, <2>3 DEF Release, Assignable
    <2>4. \A u \in Threads, l \in Locks : ~TakeFree(u, l)
      BY DEF TakeFree
    <2>5. \A u \in Threads, l \in Locks : ~WaitFor(u, l)
      BY <2>1 DEF WaitFor, TypeOK
    <2> QED  BY <2>2, <2>3, <2>4, <2>5, LockSteps
  <1>2. Spec => [][Woken]_vars
    BY <1>1, SpecIInv, PTL DEF Spec
  <1> QED  BY <1>2 DEF WokenThreadOwnsLock

\* Only its running owner can make a lock change hands.
THEOREM SpecOnlyOwnerGivesUp == Spec => OnlyOwnerGivesUp
PROOF
  <1> DEFINE Kept == \A l \in Locks :
                       owner[l] # NoThread /\ owner'[l] # owner[l] =>
                         state[owner[l]] = "RUNNING"
  <1>1. IInv /\ [Next]_vars => Kept
    <2> SUFFICES ASSUME IInv, [Next]_vars, NEW l \in Locks,
                        owner[l] # NoThread, owner'[l] # owner[l]
                 PROVE  state[owner[l]] = "RUNNING"
      OBVIOUS
    <2>1. TypeOK
      BY DEF IInv
    <2>2. \A k \in Locks : AssignLock(k) => k = l
      BY <2>1 DEF AssignLock, TypeOK
    <2>3. \A k \in Locks : Release(k) => k = l
      BY <2>1, <2>2 DEF Release, TypeOK
    <2>4. \A t \in Threads, k \in Locks : ~TakeFree(t, k) /\ ~WaitFor(t, k)
      BY <2>1 DEF TakeFree, WaitFor, TypeOK
    <2> QED  BY <2>2, <2>3, <2>4, LockSteps DEF lockVars
  <1>2. Spec => [][Kept]_vars
    BY <1>1, SpecIInv, PTL DEF Spec
  <1> QED  BY <1>2 DEF OnlyOwnerGivesUp

\* No stopped thread is given a lock while the world is stopped.
THEOREM SpecStoppedThreadsGetNoLock == Spec => StoppedThreadsGetNoLock
PROOF
  <1> DEFINE Withheld == gcPhase = "stopped" =>
                           \A l \in Locks : owner'[l] # owner[l] =>
                             owner'[l] \notin GcAble \ {suspendAllThread}
  <1>1. IInv /\ [Next]_vars => Withheld
    <2> SUFFICES ASSUME IInv, [Next]_vars, NEW l \in Locks, gcPhase = "stopped",
                        owner'[l] # owner[l],
                        owner'[l] \in GcAble \ {suspendAllThread}
                 PROVE  FALSE
      OBVIOUS
    <2>1. TypeOK /\ WaitersAreQueued
      BY DEF IInv
    <2>2. owner'[l] \in Threads /\ owner'[l] # NoThread
      BY ThreadsAssumption DEF Threads
    <2>3. Stopped(owner'[l])
      BY <2>2 DEF IInv, CollectorStops, StoppedThreads, Suspendable
    <2>4. \A t \in Threads, k \in Locks : ~WaitFor(t, k)
      BY DEF WaitFor
    <2>5. ASSUME NEW t \in Threads, NEW k \in Locks, state[t] = "RUNNING", TakeFree(t, k)
          PROVE  FALSE
      <3>1. owner'[l] = t
        BY <2>1, <2>5 DEF TakeFree, TypeOK
      <3> QED  BY <2>3, <2>5, <3>1 DEF Stopped, IInv, MarkedThreadsAreBlocked
    <2>6. ASSUME NEW k \in Locks, Release(k)
          PROVE  FALSE
      <3>1. CASE Assignable(k, suspending) /\ AssignLock(k)
        <4>1. owner'[l] = Head(waitQ[k]) /\ ~suspending[Head(waitQ[k])]
          BY <2>1, <3>1 DEF Assignable, AssignLock, TypeOK
        <4>2. state[Head(waitQ[k])] = "LOCK_WAIT"
          BY <2>1, <3>1, FirstWaiter DEF Assignable
        <4> QED  BY <2>3, <4>1, <4>2 DEF Stopped
      <3>2. CASE owner' = [owner EXCEPT ![k] = NoThread]
        BY <2>1, <2>2, <3>2 DEF TypeOK
      <3> QED  BY <2>6, <3>1, <3>2 DEF Release
    <2> QED  BY <2>4, <2>5, <2>6, LockSteps DEF lockVars
  <1>2. Spec => [][Withheld]_vars
    BY <1>1, SpecIInv, PTL DEF Spec
  <1> QED  BY <1>2 DEF StoppedThreadsGetNoLock

-----------------------------------------------------------------------------
(* PrLock implements AbstractLock.                                         *)

\* What a step of PrLock is to the abstract lock.
LEMMA AbstractStep ==
  ASSUME IInv, [Next]_vars
  PROVE  [Abstract!ANext]_(Abstract!avars)
PROOF
  <1> DEFINE Blocked == [l \in Locks |-> Range(waitQ[l])]
  <1>0. TypeOK /\ WaitersAreQueued
    BY DEF IInv
  <1>1. ASSUME NEW t \in Threads, state[t] # "LOCK_WAIT"
        PROVE  Abstract!NotBlocked(t)
    BY <1>0, <1>1 DEF Abstract!NotBlocked, WaitersAreQueued
  <1>2. ASSUME NEW t \in Threads, NEW l \in Locks, state[t] = "RUNNING", TakeFree(t, l)
        PROVE  Abstract!Take(t, l)
    BY <1>1, <1>2 DEF TakeFree, Abstract!Take
  <1>3. ASSUME NEW t \in Threads, NEW l \in Locks, state[t] = "RUNNING", WaitFor(t, l)
        PROVE  Abstract!Block(t, l)
    <2>1. waitQ[l] \in Seq(Threads) /\ IsInjective(waitQ[l]) /\ t \notin Range(waitQ[l])
      BY <1>0, <1>3 DEF TypeOK, WaitersAreQueued
    <2>2. Range(Enqueue(t, waitQ[l])) = Range(waitQ[l]) \cup {t}
      BY <2>1, AppendWaiter, PrependWaiter DEF Enqueue
    <2>3. Blocked' = [Blocked EXCEPT ![l] = @ \cup {t}]
      BY <1>0, <1>3, <2>2 DEF WaitFor, TypeOK
    <2> QED  BY <1>1, <1>3, <2>3 DEF WaitFor, Abstract!Block
  <1>4. ASSUME NEW l \in Locks, waitQ[l] # << >>, AssignLock(l)
        PROVE  \E u \in Threads : Abstract!Grant(owner[l], u, l)
    <2> DEFINE u == Head(waitQ[l])
    <2>1. /\ u \in Threads /\ u \in Range(waitQ[l])
          /\ Range(Tail(waitQ[l])) = Range(waitQ[l]) \ {u}
      BY <1>0, <1>4, FirstWaiter
    <2>2. /\ owner' = [owner EXCEPT ![l] = u]
          /\ waitQ' = [waitQ EXCEPT ![l] = Tail(@)]
      BY <1>4 DEF AssignLock
    <2> HIDE DEF u
    <2>3. Blocked' = [Blocked EXCEPT ![l] = @ \ {u}]
      BY <1>0, <2>1, <2>2 DEF TypeOK
    <2> QED  BY <2>1, <2>2, <2>3 DEF Abstract!Grant
  <1>5. ASSUME NEW l \in Locks, Release(l), owner[l] \in Threads,
               state[owner[l]] = "RUNNING"
        PROVE  \/ \E u \in Threads : Abstract!Grant(owner[l], u, l)
               \/ Abstract!Release(owner[l], l)
    <2>1. CASE Assignable(l, suspending) /\ AssignLock(l)
      BY <1>4, <2>1 DEF Assignable
    <2>2. CASE owner' = [owner EXCEPT ![l] = NoThread] /\ UNCHANGED waitQ
      BY <1>1, <1>5, <2>2 DEF Abstract!Release
    <2> QED  BY <1>5, <2>1, <2>2 DEF Release
  <1>6. UNCHANGED lockVars => UNCHANGED Abstract!avars
    BY DEF lockVars, Abstract!avars
  <1> QED
    <2>1. \A l \in Locks : owner[l] \in Threads \cup {NoThread}
      BY <1>0 DEF TypeOK
    <2> QED  BY <1>2, <1>3, <1>4, <1>5, <1>6, <2>1, LockSteps DEF Abstract!ANext

\* Every behaviour of PrLock is, seen through owners and sets of waiters, a
\* behaviour of the abstract lock.
THEOREM SpecImplementsAbstractLock == Spec => ImplementsAbstractLock
PROOF
  <1>1. Init => Abstract!AInit
    <2> SUFFICES ASSUME Init PROVE Abstract!AInit
      OBVIOUS
    <2>1. \A l \in Locks : Range(waitQ[l]) = {}
      BY EmptySeq DEF Init, Range
    <2> QED  BY <2>1 DEF Init, Abstract!AInit
  <1>2. IInv /\ [Next]_vars => [Abstract!ANext]_(Abstract!avars)
    BY AbstractStep
  <1> QED  BY <1>1, <1>2, SpecIInv, PTL DEF Spec, ImplementsAbstractLock, Abstract!ASpec
=============================================================================
