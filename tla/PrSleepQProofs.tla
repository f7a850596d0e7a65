---------------------------- MODULE PrSleepQProofs ----------------------------
(***************************************************************************)
(* Proofs about PrSleepQ, for any threads, timeouts and time between two      *)
(* clock interrupts: the list of differences keeps the time of every thread,  *)
(* and none is expired early or left behind.                               *)
(***************************************************************************)
EXTENDS PrSleepQ, SequenceTheorems, WellFoundedInduction, TLAPS

-----------------------------------------------------------------------------
(* The inductive invariant: what a thread still has to sleep, as the history  *)
(* has it, and differences of neighbours instead of sums.                  *)

Due(t) == remaining[t] + sinceClock + elapsed - skew[t]

DueAt(i) == IF i = 0 THEN 0 ELSE Due(sleepQ[i])

DueInv ==
  /\ \A i \in DOMAIN sleepQ : sleep[sleepQ[i]] = DueAt(i) - DueAt(i - 1)
  /\ \A i, j \in 0 .. Len(sleepQ) : i <= j => DueAt(i) <= DueAt(j)
  /\ sleepQmax = DueAt(Len(sleepQ))

\* A chosen thread stays the first one until it is expired or notified.
ClockInv ==
  /\ ~ticking => elapsed = 0 /\ expiring = NoThread
  /\ expiring # NoThread /\ OnSleepQ(expiring)
       => sleepQ[1] = expiring /\ sleep[expiring] <= elapsed

SqIInv == SqTypeOK /\ DueInv /\ ClockInv

-----------------------------------------------------------------------------
(* Numbers, lists and sums.                                                *)

LEMMA SmallestNumber ==
  ASSUME NEW T \in SUBSET Nat, T # {}
  PROVE  \E n \in T : \A m \in T : n <= m
PROOF
  <1> DEFINE R == OpToRel(<, Nat)
  <1>1. \A m, k \in Nat : m < k => <<m, k>> \in R
    BY DEF OpToRel
  <1>2. IsWellFoundedOn(R, Nat)
    BY NatLessThanWellFounded
  <1> HIDE DEF R
  <1>3. PICK k \in T : \A m \in T : ~ (<<m, k>> \in R)
    BY <1>2, WFMin
  <1>4. \A m \in T : ~ (m < k)
    BY <1>1, <1>3
  <1> QED  BY <1>3, <1>4

LEMMA InsertAtEffect ==
  ASSUME NEW S, NEW q \in Seq(S), NEW i \in 1 .. Len(q), NEW t \in S
  PROVE  /\ InsertAt(q, i, t) \in Seq(S) /\ Len(InsertAt(q, i, t)) = Len(q) + 1
         /\ \A j \in 1 .. Len(q) + 1 :
              InsertAt(q, i, t)[j] = IF j < i THEN q[j] ELSE IF j = i THEN t ELSE q[j - 1]
PROOF
  <1> DEFINE a == SubSeq(q, 1, i - 1)
             b == SubSeq(q, i, Len(q))
             s == <<t>>
  <1>1. Len(q) \in Nat /\ i \in Nat /\ 1 <= i /\ i <= Len(q)
    BY LenProperties
  <1>2. \A j \in 1 .. Len(q) : q[j] \in S
    BY ElementOfSeq
  <1>3. /\ a \in Seq(S) /\ Len(a) = i - 1 /\ \A j \in 1 .. i - 1 : a[j] = q[j]
    <2>1. /\ a \in Seq(S) /\ Len(a) = IF 1 <= i - 1 THEN i - 1 - 1 + 1 ELSE 0
          /\ \A j \in 1 .. i - 1 - 1 + 1 : a[j] = q[1 + j - 1]
      <3>1. 1 \in Int /\ i - 1 \in Int /\ \A j \in 1 .. i - 1 : q[j] \in S
        BY <1>1, <1>2
      <3> QED  BY <3>1, SubSeqProperties
    <2> QED  BY <1>1, <2>1
  <1>4. /\ b \in Seq(S) /\ Len(b) = Len(q) - i + 1
        /\ \A j \in 1 .. Len(q) - i + 1 : b[j] = q[i + j - 1]
    <2>1. i \in Int /\ Len(q) \in Int /\ \A j \in i .. Len(q) : q[j] \in S
      BY <1>1, <1>2
    <2>2. /\ b \in Seq(S) /\ Len(b) = IF i <= Len(q) THEN Len(q) - i + 1 ELSE 0
          /\ \A j \in 1 .. Len(q) - i + 1 : b[j] = q[i + j - 1]
      BY <2>1, SubSeqProperties
    <2> QED  BY <1>1, <2>2
  <1>5. s \in Seq(S) /\ Len(s) = 1 /\ s[1] = t
    OBVIOUS
  <1> HIDE DEF a, b, s
  <1>6. /\ a \o s \in Seq(S) /\ Len(a \o s) = i
        /\ \A j \in 1 .. i : (a \o s)[j] = IF j < i THEN q[j] ELSE t
    <2>1. /\ a \o s \in Seq(S) /\ Len(a \o s) = Len(a) + Len(s)
          /\ \A j \in 1 .. Len(a) + Len(s) :
               (a \o s)[j] = IF j <= Len(a) THEN a[j] ELSE s[j - Len(a)]
      BY <1>3, <1>5, ConcatProperties
    <2>2. ASSUME NEW j \in 1 .. i  PROVE (a \o s)[j] = IF j < i THEN q[j] ELSE t
      <3>1. CASE j < i
        BY <1>1, <1>3, <1>5, <2>1, <3>1
      <3>2. CASE j = i
        BY <1>1, <1>3, <1>5, <2>1, <3>2
      <3>3. j < i \/ j = i
        BY <1>1
      <3> QED  BY <3>1, <3>2, <3>3
    <2> QED  BY <1>1, <1>3, <1>5, <2>1, <2>2
  <1> DEFINE c == a \o s
  <1>7. /\ c \o b \in Seq(S) /\ Len(c \o b) = Len(q) + 1
        /\ \A j \in 1 .. Len(q) + 1 :
             (c \o b)[j] = IF j < i THEN q[j] ELSE IF j = i THEN t ELSE q[j - 1]
    <2>1. c \in Seq(S) /\ Len(c) = i /\ \A j \in 1 .. i : c[j] = IF j < i THEN q[j] ELSE t
      BY <1>6
    <2> HIDE DEF c
    <2>2. /\ c \o b \in Seq(S) /\ Len(c \o b) = Len(c) + Len(b)
          /\ \A j \in 1 .. Len(c) + Len(b) :
               (c \o b)[j] = IF j <= Len(c) THEN c[j] ELSE b[j - Len(c)]
      BY <1>4, <2>1, ConcatProperties
    <2>3. ASSUME NEW j \in 1 .. Len(q) + 1
          PROVE  (c \o b)[j] = IF j < i THEN q[j] ELSE IF j = i THEN t ELSE q[j - 1]
      <3>1. CASE j <= i
        BY <1>1, <1>4, <2>1, <2>2, <3>1
      <3>2. CASE j > i
        <4>1. j - i \in 1 .. Len(q) - i + 1 /\ i + (j - i) - 1 = j - 1
          BY <1>1, <3>2
        <4> QED  BY <1>1, <1>4, <2>1, <2>2, <3>2, <4>1
      <3>3. j <= i \/ j > i
        BY <1>1
      <3> QED  BY <3>1, <3>2, <3>3
    <2> QED  BY <1>1, <1>4, <2>1, <2>2, <2>3
  <1>8. InsertAt(q, i, t) = c \o b
    BY DEF InsertAt, a, b, c, s
  <1> HIDE DEF c
  <1> QED  BY <1>7, <1>8

LEMMA RemoveAtEffect ==
  ASSUME NEW S, NEW q \in Seq(S), NEW i \in 1 .. Len(q)
  PROVE  /\ RemoveAt(q, i) \in Seq(S) /\ Len(RemoveAt(q, i)) = Len(q) - 1
         /\ \A j \in 1 .. Len(q) - 1 :
              RemoveAt(q, i)[j] = IF j < i THEN q[j] ELSE q[j + 1]
PROOF
  <1> DEFINE a == SubSeq(q, 1, i - 1)
             b == SubSeq(q, i + 1, Len(q))
  <1>1. Len(q) \in Nat /\ i \in Nat /\ 1 <= i /\ i <= Len(q)
    BY LenProperties
  <1>2. \A j \in 1 .. Len(q) : q[j] \in S
    BY ElementOfSeq
  <1>3. /\ a \in Seq(S) /\ Len(a) = i - 1 /\ \A j \in 1 .. i - 1 : a[j] = q[j]
    <2>1. /\ a \in Seq(S) /\ Len(a) = IF 1 <= i - 1 THEN i - 1 - 1 + 1 ELSE 0
          /\ \A j \in 1 .. i - 1 - 1 + 1 : a[j] = q[1 + j - 1]
      <3>1. 1 \in Int /\ i - 1 \in Int /\ \A j \in 1 .. i - 1 : q[j] \in S
        BY <1>1, <1>2
      <3> QED  BY <3>1, SubSeqProperties
    <2> QED  BY <1>1, <2>1
  <1>4. /\ b \in Seq(S) /\ Len(b) = Len(q) - i
        /\ \A j \in 1 .. Len(q) - i : b[j] = q[i + j]
    <2>1. i + 1 \in Int /\ Len(q) \in Int /\ \A j \in i + 1 .. Len(q) : q[j] \in S
      BY <1>1, <1>2
    <2>2. /\ b \in Seq(S) /\ Len(b) = IF i + 1 <= Len(q) THEN Len(q) - (i + 1) + 1 ELSE 0
          /\ \A j \in 1 .. Len(q) - (i + 1) + 1 : b[j] = q[i + 1 + j - 1]
      BY <2>1, SubSeqProperties
    <2>3. ASSUME NEW j \in 1 .. Len(q) - i  PROVE b[j] = q[i + j]
      <3>1. j \in 1 .. Len(q) - (i + 1) + 1 /\ i + 1 + j - 1 = i + j
        BY <1>1
      <3> QED  BY <2>2, <3>1
    <2> HIDE DEF b
    <2>4. Len(b) = Len(q) - i
      <3>1. Len(b) = IF i + 1 <= Len(q) THEN Len(q) - (i + 1) + 1 ELSE 0
        BY <2>2
      <3>2. CASE i + 1 <= Len(q)
        BY <1>1, <3>1, <3>2
      <3>3. CASE i = Len(q)
        BY <1>1, <3>1, <3>3
      <3>4. i + 1 <= Len(q) \/ i = Len(q)
        BY <1>1
      <3> QED  BY <3>2, <3>3, <3>4
    <2> QED  BY <2>2, <2>3, <2>4
  <1> HIDE DEF a, b
  <1>5. /\ a \o b \in Seq(S) /\ Len(a \o b) = Len(a) + Len(b)
        /\ \A j \in 1 .. Len(a) + Len(b) :
             (a \o b)[j] = IF j <= Len(a) THEN a[j] ELSE b[j - Len(a)]
    BY <1>3, <1>4, ConcatProperties
  <1>6. ASSUME NEW j \in 1 .. Len(q) - 1
        PROVE  (a \o b)[j] = IF j < i THEN q[j] ELSE q[j + 1]
    <2>1. CASE j < i
      BY <1>1, <1>3, <1>4, <1>5, <2>1
    <2>2. CASE j >= i
      <3>1. j - (i - 1) \in 1 .. Len(q) - i /\ i + (j - (i - 1)) = j + 1
        BY <1>1, <2>2
      <3>2. /\ j \in 1 .. Len(a) + Len(b) /\ ~ (j <= Len(a)) /\ ~ (j < i)
            /\ j - Len(a) = j - (i - 1)
        BY <1>1, <1>3, <1>4, <2>2
      <3>3. (a \o b)[j] = b[j - (i - 1)]
        BY <1>5, <3>2
      <3>4. b[j - (i - 1)] = q[j + 1]
        BY <1>4, <3>1
      <3> QED  BY <3>2, <3>3, <3>4
    <2>3. j < i \/ j >= i
      BY <1>1
    <2> QED  BY <2>1, <2>2, <2>3
  <1>7. RemoveAt(q, i) = a \o b
    BY DEF RemoveAt, a, b
  <1>8. Len(a) + Len(b) = Len(q) - 1
    BY <1>1, <1>3, <1>4
  <1> QED  BY <1>5, <1>6, <1>7, <1>8

\* The sums of differences are what the history says.
LEMMA DelayIsDue ==
  ASSUME SqIInv
  PROVE  \A i \in 0 .. Len(sleepQ) : Delay(i) = DueAt(i)
PROOF
  <1> DEFINE N == 0 .. Len(sleepQ)
             rec(f) == [j \in N |-> IF j = 0 THEN 0 ELSE f[j - 1] + sleep[sleepQ[j]]]
             due == [j \in N |-> DueAt(j)]
             sum == CHOOSE f : f = rec(f)
  <1>1. /\ Len(sleepQ) \in Nat /\ DOMAIN sleepQ = 1 .. Len(sleepQ)
        /\ sleepQ \in Seq(Sleepers) /\ sleep \in [Sleepers -> Nat]
    BY LenProperties DEF SqIInv, SqTypeOK
  <1>2. \A j \in N : DueAt(j) \in Int
    <2>1. \A j \in 1 .. Len(sleepQ) : sleepQ[j] \in Sleepers
      BY <1>1, ElementOfSeq
    <2> QED  BY <1>1, <2>1 DEF SqIInv, SqTypeOK, DueAt, Due
  <1>3. ASSUME NEW j \in N, j # 0
        PROVE  j - 1 \in N /\ DueAt(j - 1) + sleep[sleepQ[j]] = DueAt(j)
    <2>1. j - 1 \in N /\ j \in DOMAIN sleepQ
      BY <1>1, <1>3
    <2>2. sleep[sleepQ[j]] = DueAt(j) - DueAt(j - 1)
      BY <2>1 DEF SqIInv, DueInv
    <2> QED  BY <1>2, <2>1, <2>2
  <1>4. due = rec(due)
    BY <1>3 DEF DueAt
  <1>5. sum = rec(sum)
    BY <1>4
  <1>6. \A j \in N : sum[j] = IF j = 0 THEN 0 ELSE sum[j - 1] + sleep[sleepQ[j]]
    BY <1>5
  <1> HIDE DEF sum
  <1>7. ASSUME NEW k \in N, sum[k] # DueAt(k)  PROVE FALSE
    <2> DEFINE T == {j \in N : sum[j] # DueAt(j)}
    <2>1. T \in SUBSET Nat /\ T # {}
      BY <1>1, <1>7
    <2>2. PICK n \in T : \A m \in T : n <= m
      BY <2>1, SmallestNumber
    <2>3. n # 0
      BY <1>6, <2>2 DEF DueAt
    <2>4. n - 1 \in N /\ n - 1 \notin T
      BY <1>1, <2>2, <2>3
    <2> QED  BY <1>3, <1>6, <2>2, <2>3, <2>4
  <1>8. \A i \in N : Delay(i) = sum[i]
    BY DEF Delay, sum
  <1> QED  BY <1>7, <1>8

-----------------------------------------------------------------------------
(* What the invariant says of the queue.                                   *)

LEMMA QueueFacts ==
  ASSUME SqIInv
  PROVE  /\ Len(sleepQ) \in Nat
         /\ \A i \in 1 .. Len(sleepQ) : sleepQ[i] \in Sleepers
         /\ \A i, j \in 1 .. Len(sleepQ) : sleepQ[i] = sleepQ[j] => i = j
         /\ \A t : OnSleepQ(t) <=> \E i \in 1 .. Len(sleepQ) : sleepQ[i] = t
PROOF
  <1>1. sleepQ \in Seq(Sleepers) /\ IsInjective(sleepQ)
    BY DEF SqIInv, SqTypeOK
  <1>2. Len(sleepQ) \in Nat /\ DOMAIN sleepQ = 1 .. Len(sleepQ)
    BY <1>1, LenProperties
  <1>3. \A i \in 1 .. Len(sleepQ) : sleepQ[i] \in Sleepers
    BY <1>1, ElementOfSeq
  <1>4. \A i, j \in 1 .. Len(sleepQ) : sleepQ[i] = sleepQ[j] => i = j
    BY <1>1, <1>2 DEF IsInjective
  <1>5. \A t : OnSleepQ(t) <=> \E i \in 1 .. Len(sleepQ) : sleepQ[i] = t
    BY <1>2 DEF OnSleepQ, ToSet
  <1> QED  BY <1>2, <1>3, <1>4, <1>5

LEMMA DueFacts ==
  ASSUME SqIInv
  PROVE  /\ DueAt(0) = 0
         /\ \A i \in 0 .. Len(sleepQ) : DueAt(i) \in Nat
         /\ \A i \in 1 .. Len(sleepQ) : /\ DueAt(i) = Due(sleepQ[i])
                                        /\ sleep[sleepQ[i]] = DueAt(i) - DueAt(i - 1)
         /\ \A i, j \in 0 .. Len(sleepQ) : i <= j => DueAt(i) <= DueAt(j)
         /\ sleepQmax = DueAt(Len(sleepQ))
PROOF
  <1>1. Len(sleepQ) \in Nat /\ \A i \in 1 .. Len(sleepQ) : sleepQ[i] \in Sleepers
    BY QueueFacts
  <1>2. DOMAIN sleepQ = 1 .. Len(sleepQ)
    BY LenProperties DEF SqIInv, SqTypeOK
  <1>3. DueAt(0) = 0 /\ \A i \in 1 .. Len(sleepQ) : DueAt(i) = Due(sleepQ[i])
    BY <1>1 DEF DueAt
  <1>4. \A t \in Sleepers : Due(t) \in Int
    BY SleepQAssumption DEF SqIInv, SqTypeOK, Due
  <1>5. \A i, j \in 0 .. Len(sleepQ) : i <= j => DueAt(i) <= DueAt(j)
    BY DEF SqIInv, DueInv
  <1>6. ASSUME NEW i \in 0 .. Len(sleepQ)  PROVE DueAt(i) \in Nat
    <2>1. DueAt(i) \in Int
      <3>1. i = 0 \/ i \in 1 .. Len(sleepQ)
        BY <1>1
      <3> QED  BY <1>1, <1>3, <1>4, <3>1
    <2>2. 0 <= DueAt(i)
      <3>1. 0 \in 0 .. Len(sleepQ) /\ 0 <= i
        BY <1>1
      <3>2. DueAt(0) <= DueAt(i)
        BY <1>5, <3>1
      <3> QED  BY <1>3, <3>2
    <2> QED  BY <2>1, <2>2
  <1>7. \A i \in 1 .. Len(sleepQ) : sleep[sleepQ[i]] = DueAt(i) - DueAt(i - 1)
    BY <1>2 DEF SqIInv, DueInv
  <1>8. sleepQmax = DueAt(Len(sleepQ))
    BY DEF SqIInv, DueInv
  <1> QED  BY <1>3, <1>5, <1>6, <1>7, <1>8

\* "There must be one": the longest timeout is that of the last thread.
LEMMA InsertBeforeEffect ==
  ASSUME SqIInv, NEW timeout \in Nat, timeout < sleepQmax
  PROVE  /\ InsertBefore(timeout) \in 1 .. Len(sleepQ)
         /\ timeout < DueAt(InsertBefore(timeout))
         /\ DueAt(InsertBefore(timeout) - 1) <= timeout
         /\ Delay(InsertBefore(timeout) - 1) = DueAt(InsertBefore(timeout) - 1)
PROOF
  <1> DEFINE T == {k \in 1 .. Len(sleepQ) : timeout < DueAt(k)}
             P(i) == /\ timeout < Delay(i)
                     /\ \A j \in 1 .. i - 1 : Delay(j) <= timeout
             b == InsertBefore(timeout)
  <1>1. Len(sleepQ) \in Nat
    BY QueueFacts
  <1>2. /\ DueAt(0) = 0 /\ sleepQmax = DueAt(Len(sleepQ))
        /\ \A i \in 0 .. Len(sleepQ) : DueAt(i) \in Nat
    BY DueFacts
  <1>3. \A i \in 0 .. Len(sleepQ) : Delay(i) = DueAt(i)
    BY DelayIsDue
  <1>4. DOMAIN sleepQ = 1 .. Len(sleepQ)
    BY LenProperties DEF SqIInv, SqTypeOK
  <1>5. Len(sleepQ) # 0
    BY <1>2
  <1>6. T \in SUBSET Nat /\ T # {}
    <2>1. Len(sleepQ) \in 1 .. Len(sleepQ)
      BY <1>1, <1>5
    <2>2. Len(sleepQ) \in T
      BY <1>2, <2>1
    <2> QED  BY <1>1, <2>2
  <1>7. PICK k \in T : \A m \in T : k <= m
    BY <1>6, SmallestNumber
  <1>8. k \in DOMAIN sleepQ /\ P(k)
    <2>1. k \in 1 .. Len(sleepQ) /\ timeout < Delay(k)
      BY <1>1, <1>3
    <2>2. ASSUME NEW j \in 1 .. k - 1  PROVE Delay(j) <= timeout
      <3>1. j \in 0 .. Len(sleepQ) /\ j \in 1 .. Len(sleepQ) /\ ~ (k <= j)
        BY <1>1, <2>1
      <3>2. ~ (timeout < DueAt(j))
        BY <1>7, <3>1
      <3> QED  BY <1>2, <1>3, <3>1, <3>2
    <2> QED  BY <1>4, <2>1, <2>2
  <1>9. b \in DOMAIN sleepQ /\ P(b)
    BY <1>8 DEF InsertBefore
  <1> HIDE DEF b
  <1>10. b \in 1 .. Len(sleepQ) /\ b \in 0 .. Len(sleepQ) /\ b - 1 \in 0 .. Len(sleepQ)
    BY <1>1, <1>4, <1>9
  <1>11. timeout < DueAt(b)
    BY <1>3, <1>9, <1>10
  <1>12. DueAt(b - 1) <= timeout
    <2>1. CASE b = 1
      BY <1>2, <2>1
    <2>2. CASE b # 1
      <3>1. b - 1 \in 1 .. b - 1
        BY <1>10, <2>2
      <3> QED  BY <1>3, <1>9, <1>10, <3>1
    <2> QED  BY <2>1, <2>2
  <1>13. Delay(b - 1) = DueAt(b - 1)
    BY <1>3, <1>10
  <1> QED  BY <1>10, <1>11, <1>12, <1>13 DEF b

\* What _PR_DelSleepQ leaves of the queue.
LEMMA RemovalEffect ==
  ASSUME SqIInv, NEW t \in Sleepers, NEW propagate \in BOOLEAN, DelSleepQ(t, propagate)
  PROVE  \E i \in 1 .. Len(sleepQ) :
           /\ sleepQ[i] = t
           /\ sleepQ' \in Seq(Sleepers) /\ IsInjective(sleepQ')
           /\ Len(sleepQ') = Len(sleepQ) - 1 /\ DOMAIN sleepQ' = 1 .. Len(sleepQ) - 1
           /\ \A j \in 1 .. i - 1 : sleepQ'[j] = sleepQ[j]
           /\ \A j \in i .. Len(sleepQ) - 1 : sleepQ'[j] = sleepQ[j + 1]
           /\ \A j \in 1 .. Len(sleepQ) - 1 : sleepQ'[j] \in Sleepers \ {t}
           /\ sleep' = SleepsWithout(i, propagate)
           /\ sleepQmax' = MaxWithout(i, propagate)
PROOF
  <1> DEFINE i == CHOOSE j \in DOMAIN sleepQ : sleepQ[j] = t
             n == Len(sleepQ)
             q == sleepQ'
  <1>1. /\ n \in Nat /\ \A j \in 1 .. n : sleepQ[j] \in Sleepers
        /\ \A j, k \in 1 .. n : sleepQ[j] = sleepQ[k] => j = k
        /\ OnSleepQ(t) <=> \E j \in 1 .. n : sleepQ[j] = t
    BY QueueFacts
  <1>2. DOMAIN sleepQ = 1 .. n /\ sleepQ \in Seq(Sleepers)
    BY LenProperties DEF SqIInv, SqTypeOK
  <1>3. /\ OnSleepQ(t) /\ q = RemoveAt(sleepQ, i)
        /\ sleep' = SleepsWithout(i, propagate)
        /\ sleepQmax' = MaxWithout(i, propagate)
    BY DEF DelSleepQ
  <1>4. i \in 1 .. n /\ sleepQ[i] = t
    BY <1>1, <1>2, <1>3
  <1> HIDE DEF i
  <1>5. /\ q \in Seq(Sleepers) /\ Len(q) = n - 1
        /\ \A j \in 1 .. n - 1 : q[j] = IF j < i THEN sleepQ[j] ELSE sleepQ[j + 1]
    BY <1>2, <1>3, <1>4, RemoveAtEffect
  <1> HIDE DEF n, q
  <1>6. DOMAIN q = 1 .. n - 1
    BY <1>5, LenProperties
  <1>7. \A j \in 1 .. i - 1 : q[j] = sleepQ[j]
    <2> TAKE j \in 1 .. i - 1
    <2>1. j \in 1 .. n - 1 /\ j < i
      BY <1>1, <1>4
    <2> QED  BY <1>5, <2>1
  <1>8. \A j \in i .. n - 1 : q[j] = sleepQ[j + 1]
    <2> TAKE j \in i .. n - 1
    <2>1. j \in 1 .. n - 1 /\ ~ (j < i)
      BY <1>1, <1>4
    <2> QED  BY <1>5, <2>1
  <1>9. \A j \in 1 .. n - 1 : \E k \in 1 .. n :
          /\ q[j] = sleepQ[k] /\ k # i
          /\ \/ j < i /\ k = j
             \/ j >= i /\ k = j + 1
    <2> TAKE j \in 1 .. n - 1
    <2>1. CASE j < i
      <3>1. j \in 1 .. n /\ j # i /\ j \in 1 .. i - 1
        BY <1>1, <1>4, <2>1
      <3> QED  BY <1>7, <2>1, <3>1
    <2>2. CASE j >= i
      <3>1. j + 1 \in 1 .. n /\ j + 1 # i /\ j \in i .. n - 1
        BY <1>1, <1>4, <2>2
      <3> QED  BY <1>8, <2>2, <3>1
    <2>3. j < i \/ j >= i
      BY <1>4
    <2> QED  BY <2>1, <2>2, <2>3
  <1>10. \A j \in 1 .. n - 1 : q[j] \in Sleepers \ {t}
    BY <1>1, <1>4, <1>9
  <1>11. ASSUME NEW j \in 1 .. n - 1, NEW l \in 1 .. n - 1, q[j] = q[l]  PROVE j = l
    <2>1. PICK k \in 1 .. n : /\ q[j] = sleepQ[k]
                              /\ \/ j < i /\ k = j
                                 \/ j >= i /\ k = j + 1
      BY <1>9
    <2>2. PICK m \in 1 .. n : /\ q[l] = sleepQ[m]
                              /\ \/ l < i /\ m = l
                                 \/ l >= i /\ m = l + 1
      BY <1>9
    <2>3. k = m
      BY <1>1, <1>11, <2>1, <2>2
    <2> HIDE DEF i
    <2> QED  BY <1>1, <1>4, <2>1, <2>2, <2>3
  <1>12. IsInjective(q)
    BY <1>6, <1>11 DEF IsInjective
  <1> USE <1>4 DEF n, q
  <1> WITNESS i \in 1 .. Len(sleepQ)
  <1> QED  BY <1>3, <1>4, <1>5, <1>6, <1>7, <1>8, <1>10, <1>12

-----------------------------------------------------------------------------
(* The steps of the threads.                                               *)

LEMMA InitSqIInv == SqInit => SqIInv
PROOF
  <1> SUFFICES ASSUME SqInit  PROVE SqIInv
    OBVIOUS
  <1> USE SleepQAssumption DEF SqInit, Zero
  <1>1. /\ Len(sleepQ) = 0 /\ DOMAIN sleepQ = {} /\ sleepQ \in Seq(Sleepers)
    OBVIOUS
  <1>2. SqTypeOK
    <2>1. IsInjective(sleepQ)
      BY <1>1 DEF IsInjective
    <2>2. Overdue < 0
      BY DEF Overdue
    <2>3. \A u \in Sleepers : remaining[u] > Overdue
      BY <2>2 DEF Overdue
    <2>4. /\ sleep \in [Sleepers -> Nat] /\ remaining \in [Sleepers -> Int]
          /\ skew \in [Sleepers -> 0 .. MaxLate]
      OBVIOUS
    <2>5. sleepQmax \in Nat /\ elapsed \in 0 .. MaxLate /\ sinceClock \in 0 .. MaxLate
      OBVIOUS
    <2>6. ticking \in BOOLEAN /\ expiring \in Sleepers \cup {NoThread}
      OBVIOUS
    <2> QED  BY <1>1, <2>1, <2>3, <2>4, <2>5, <2>6 DEF SqTypeOK
  <1>3. DueInv
    BY <1>1 DEF DueInv, DueAt
  <1>4. ClockInv
    BY <1>1 DEF ClockInv, OnSleepQ, ToSet
  <1> QED  BY <1>2, <1>3, <1>4 DEF SqIInv

LEMMA AddLastStep ==
  ASSUME SqIInv, NEW t \in Sleepers, NEW timeout \in Timeouts,
         AddSleepQ(t, timeout), AddLast(t, timeout)
  PROVE  SqIInv'
PROOF
  <1>n. PICK n : n = Len(sleepQ)
    OBVIOUS
  <1>1. /\ n \in Nat /\ \A j \in 1 .. n : sleepQ[j] \in Sleepers
        /\ \A j, k \in 1 .. n : sleepQ[j] = sleepQ[k] => j = k
        /\ \A u : OnSleepQ(u) <=> \E j \in 1 .. n : sleepQ[j] = u
    BY <1>n, QueueFacts
  <1>2. /\ DueAt(0) = 0
        /\ \A j \in 0 .. n : DueAt(j) \in Nat
        /\ \A j \in 1 .. n : /\ DueAt(j) = Due(sleepQ[j])
                             /\ sleep[sleepQ[j]] = DueAt(j) - DueAt(j - 1)
        /\ \A j, k \in 0 .. n : j <= k => DueAt(j) <= DueAt(k)
        /\ sleepQmax = DueAt(n)
    BY <1>n, DueFacts
  <1>3. /\ timeout \in Nat /\ timeout >= sleepQmax /\ ~OnSleepQ(t)
        /\ ~ticking /\ elapsed = 0 /\ expiring = NoThread
        /\ sleepQ' = Append(sleepQ, t)
        /\ sleep' = [sleep EXCEPT ![t] = timeout - sleepQmax]
        /\ sleepQmax' = timeout
        /\ remaining' = [remaining EXCEPT ![t] = timeout]
        /\ skew' = [skew EXCEPT ![t] = sinceClock]
        /\ UNCHANGED <<clockVars, sinceClock>>
    BY SleepQAssumption DEF AddSleepQ, AddLast, SqIInv, ClockInv
  <1>4. SqTypeOK
    BY DEF SqIInv
  <1>5. /\ sleepQ' \in Seq(Sleepers) /\ Len(sleepQ') = n + 1 /\ DOMAIN sleepQ' = 1 .. n + 1
        /\ sleepQ'[n + 1] = t /\ \A j \in 1 .. n : sleepQ'[j] = sleepQ[j]
    <2>1. sleepQ \in Seq(Sleepers)
      BY <1>4 DEF SqTypeOK
    <2>2. /\ Append(sleepQ, t) \in Seq(Sleepers) /\ Len(Append(sleepQ, t)) = n + 1
          /\ Append(sleepQ, t)[n + 1] = t
          /\ \A j \in 1 .. n : Append(sleepQ, t)[j] = sleepQ[j]
      BY <1>n, <2>1, AppendProperties
    <2>3. DOMAIN Append(sleepQ, t) = 1 .. n + 1
      BY <2>2, LenProperties
    <2> QED  BY <1>3, <2>2, <2>3
  <1>6. \A j \in 1 .. n : sleepQ[j] # t
    BY <1>1, <1>3
  <1>7. sleep'[t] = timeout - sleepQmax /\ \A u \in Sleepers \ {t} : sleep'[u] = sleep[u]
    BY <1>3, <1>4 DEF SqTypeOK
  <1>8. Due(t)' = timeout /\ \A u \in Sleepers \ {t} : Due(u)' = Due(u)
    BY <1>3, <1>4, SleepQAssumption DEF SqTypeOK, Due, clockVars
  <1>9. /\ DueAt(0)' = 0 /\ DueAt(n + 1)' = timeout
        /\ \A j \in 0 .. n : DueAt(j)' = DueAt(j)
    <2>1. DueAt(0)' = 0 /\ \A j \in 1 .. n + 1 : \A u : u = sleepQ'[j] => DueAt(j)' = Due(u)'
      BY DEF DueAt, Due
    <2>2. n + 1 \in 1 .. n + 1
      BY <1>1
    <2>3. ASSUME NEW j \in 0 .. n  PROVE DueAt(j)' = DueAt(j)
      <3>1. CASE j = 0
        BY <1>2, <2>1, <3>1
      <3>2. CASE j # 0
        <4>1. j \in 1 .. n /\ j \in 1 .. n + 1
          BY <1>1, <3>2
        <4> QED  BY <1>1, <1>2, <1>5, <1>6, <1>8, <2>1, <4>1
      <3> QED  BY <3>1, <3>2
    <2> QED  BY <1>5, <1>8, <2>1, <2>2, <2>3
  <1>10. SqTypeOK'
    <2>1. IsInjective(sleepQ')
      <3>1. \A j, k \in 1 .. n + 1 : sleepQ'[j] = sleepQ'[k] => j = k
        BY <1>1, <1>5, <1>6
      <3> QED  BY <1>5, <3>1 DEF IsInjective
    <2>2. sleep' \in [Sleepers -> Nat]
      <3>1. sleepQmax \in Nat /\ timeout - sleepQmax \in Nat
        BY <1>3, <1>4 DEF SqTypeOK
      <3> QED  BY <1>3, <1>4, <3>1 DEF SqTypeOK
    <2>3. Overdue' = Overdue /\ Overdue < 0
      BY SleepQAssumption DEF Overdue
    <2>4. /\ remaining' \in [Sleepers -> Int]
          /\ \A u \in Sleepers : remaining'[u] > Overdue'
      BY <1>3, <1>4, <2>3, SleepQAssumption DEF SqTypeOK, Overdue
    <2>5. skew' \in [Sleepers -> 0 .. MaxLate]
      BY <1>3, <1>4 DEF SqTypeOK
    <2> QED  BY <1>3, <1>4, <1>5, <2>1, <2>2, <2>4, <2>5 DEF SqTypeOK, clockVars
  <1>11. DueInv'
    <2>1. ASSUME NEW j \in 1 .. n + 1
          PROVE  sleep'[sleepQ'[j]] = DueAt(j)' - DueAt(j - 1)'
      <3>1. CASE j = n + 1
        <4>1. j - 1 = n /\ n \in 0 .. n
          BY <1>1, <3>1
        <4> QED  BY <1>2, <1>5, <1>7, <1>9, <3>1, <4>1
      <3>2. CASE j # n + 1
        <4>1. j \in 1 .. n /\ j \in 0 .. n /\ j - 1 \in 0 .. n
          BY <1>1, <3>2
        <4>2. DueAt(j)' = DueAt(j) /\ DueAt(j - 1)' = DueAt(j - 1)
          BY <1>9, <4>1
        <4>3. sleepQ[j] \in Sleepers \ {t} /\ sleepQ'[j] = sleepQ[j]
          BY <1>1, <1>5, <1>6, <4>1
        <4> QED  BY <1>2, <1>7, <4>1, <4>2, <4>3
      <3> QED  BY <3>1, <3>2
    <2>2. ASSUME NEW j \in 0 .. n + 1, NEW k \in 0 .. n + 1, j <= k
          PROVE  DueAt(j)' <= DueAt(k)'
      <3>1. CASE k \in 0 .. n
        <4>1. j \in 0 .. n
          BY <1>1, <2>2, <3>1
        <4> QED  BY <1>2, <1>9, <2>2, <3>1, <4>1
      <3>2. CASE k = n + 1 /\ j = n + 1
        BY <1>3, <1>9, <3>2
      <3>3. CASE k = n + 1 /\ j \in 0 .. n
        <4>1. n \in 0 .. n /\ j <= n
          BY <1>1, <3>3
        <4>2. DueAt(j) <= DueAt(n)
          BY <1>2, <3>3, <4>1
        <4> QED  BY <1>2, <1>3, <1>9, <3>3, <4>1, <4>2
      <3>4. k \in 0 .. n \/ k = n + 1
        BY <1>1
      <3>5. j \in 0 .. n \/ j = n + 1
        BY <1>1
      <3> QED  BY <3>1, <3>2, <3>3, <3>4, <3>5
    <2> QED  BY <1>3, <1>5, <1>9, <2>1, <2>2 DEF DueInv
  <1>12. ClockInv'
    BY <1>3 DEF ClockInv, clockVars
  <1> QED  BY <1>10, <1>11, <1>12 DEF SqIInv

LEMMA AddSortedStep ==
  ASSUME SqIInv, NEW t \in Sleepers, NEW timeout \in Timeouts,
         AddSleepQ(t, timeout), AddSorted(t, timeout)
  PROVE  SqIInv'
PROOF
  <1>n. PICK n : n = Len(sleepQ)
    OBVIOUS
  <1>i. PICK i : i = InsertBefore(timeout)
    OBVIOUS
  <1> DEFINE mine == timeout - DueAt(i - 1)
  <1>1. /\ n \in Nat /\ \A j \in 1 .. n : sleepQ[j] \in Sleepers
        /\ \A j, k \in 1 .. n : sleepQ[j] = sleepQ[k] => j = k
        /\ \A u : OnSleepQ(u) <=> \E j \in 1 .. n : sleepQ[j] = u
    BY <1>n, QueueFacts
  <1>2. /\ DueAt(0) = 0
        /\ \A j \in 0 .. n : DueAt(j) \in Nat
        /\ \A j \in 1 .. n : /\ DueAt(j) = Due(sleepQ[j])
                             /\ sleep[sleepQ[j]] = DueAt(j) - DueAt(j - 1)
        /\ \A j, k \in 0 .. n : j <= k => DueAt(j) <= DueAt(k)
        /\ sleepQmax = DueAt(n)
    BY <1>n, DueFacts
  <1>3. timeout \in Nat /\ timeout < sleepQmax
    BY SleepQAssumption DEF AddSorted
  <1>4. i \in 1 .. n /\ timeout < DueAt(i) /\ DueAt(i - 1) <= timeout /\ Delay(i - 1) = DueAt(i - 1)
    BY <1>3, <1>n, <1>i, InsertBeforeEffect
  <1>5. /\ ~OnSleepQ(t) /\ ~ticking /\ elapsed = 0 /\ expiring = NoThread
        /\ sleepQ' = InsertAt(sleepQ, i, t)
        /\ sleep' = [sleep EXCEPT ![t] = mine, ![sleepQ[i]] = @ - mine]
        /\ sleepQmax' = sleepQmax
        /\ remaining' = [remaining EXCEPT ![t] = timeout]
        /\ skew' = [skew EXCEPT ![t] = sinceClock]
        /\ UNCHANGED <<clockVars, sinceClock>>
    <2>1. SleepsWith(t, i, timeout) = [sleep EXCEPT ![t] = mine, ![sleepQ[i]] = @ - mine]
      BY <1>4 DEF SleepsWith
    <2> QED  BY <1>i, <2>1 DEF AddSleepQ, AddSorted, SqIInv, ClockInv
  <1>6. SqTypeOK
    BY DEF SqIInv
  <1>7. /\ sleepQ' \in Seq(Sleepers) /\ Len(sleepQ') = n + 1 /\ DOMAIN sleepQ' = 1 .. n + 1
        /\ \A j \in 1 .. n + 1 :
             sleepQ'[j] = IF j < i THEN sleepQ[j] ELSE IF j = i THEN t ELSE sleepQ[j - 1]
    <2>1. sleepQ \in Seq(Sleepers)
      BY <1>6 DEF SqTypeOK
    <2>2. /\ InsertAt(sleepQ, i, t) \in Seq(Sleepers) /\ Len(InsertAt(sleepQ, i, t)) = n + 1
          /\ \A j \in 1 .. n + 1 : InsertAt(sleepQ, i, t)[j] =
               IF j < i THEN sleepQ[j] ELSE IF j = i THEN t ELSE sleepQ[j - 1]
      <3>1. PICK q : q = sleepQ
        OBVIOUS
      <3>2. q \in Seq(Sleepers) /\ i \in 1 .. Len(q) /\ t \in Sleepers
        BY <1>n, <1>4, <2>1, <3>1
      <3>3. /\ InsertAt(q, i, t) \in Seq(Sleepers) /\ Len(InsertAt(q, i, t)) = Len(q) + 1
            /\ \A j \in 1 .. Len(q) + 1 : InsertAt(q, i, t)[j] =
                 IF j < i THEN q[j] ELSE IF j = i THEN t ELSE q[j - 1]
        BY <3>2, InsertAtEffect
      <3> QED  BY <1>n, <3>1, <3>3
    <2>3. DOMAIN InsertAt(sleepQ, i, t) = 1 .. n + 1
      BY <2>2, LenProperties
    <2> QED  BY <1>5, <2>2, <2>3
  <1>8. /\ i \in 1 .. n + 1 /\ i \in 0 .. n /\ i - 1 \in 0 .. n /\ sleepQ'[i] = t
        /\ \A j \in 1 .. i - 1 : j \in 1 .. n /\ sleepQ'[j] = sleepQ[j]
        /\ \A j \in i .. n : sleepQ'[j + 1] = sleepQ[j]
    <2>1. i \in 1 .. n + 1 /\ i \in 0 .. n /\ i - 1 \in 0 .. n /\ ~ (i < i)
      BY <1>1, <1>4
    <2>2. ASSUME NEW j \in 1 .. i - 1  PROVE j \in 1 .. n /\ sleepQ'[j] = sleepQ[j]
      <3>1. j \in 1 .. n /\ j \in 1 .. n + 1 /\ j < i
        BY <1>1, <1>4
      <3> QED  BY <1>7, <3>1
    <2>3. ASSUME NEW j \in i .. n  PROVE sleepQ'[j + 1] = sleepQ[j]
      <3>1. j + 1 \in 1 .. n + 1 /\ ~ (j + 1 < i) /\ j + 1 # i /\ (j + 1) - 1 = j
        BY <1>1, <1>4
      <3> QED  BY <1>7, <3>1
    <2> QED  BY <1>7, <2>1, <2>2, <2>3
  <1>9. \A j \in 1 .. n : sleepQ[j] # t
    BY <1>1, <1>5
  <1>10. mine \in Nat /\ DueAt(i - 1) \in Nat /\ DueAt(i) \in Nat
    BY <1>2, <1>3, <1>4, <1>8
  <1>11. /\ sleep'[t] = mine /\ sleep'[sleepQ[i]] = DueAt(i) - timeout
         /\ \A u \in Sleepers \ {t, sleepQ[i]} : sleep'[u] = sleep[u]
         /\ sleep' \in [Sleepers -> Nat]
    <2>1. sleep \in [Sleepers -> Nat] /\ sleepQ[i] \in Sleepers /\ sleepQ[i] # t
      BY <1>1, <1>4, <1>6, <1>9 DEF SqTypeOK
    <2>2. sleep[sleepQ[i]] = DueAt(i) - DueAt(i - 1)
      BY <1>2, <1>4
    <2>3. sleep[sleepQ[i]] - mine = DueAt(i) - timeout /\ DueAt(i) - timeout \in Nat
      BY <1>3, <1>4, <1>10, <2>2
    <2> HIDE DEF mine
    <2> QED  BY <1>5, <1>10, <2>1, <2>3
  <1>12. Due(t)' = timeout /\ \A u \in Sleepers \ {t} : Due(u)' = Due(u)
    BY <1>3, <1>5, <1>6, SleepQAssumption DEF SqTypeOK, Due, clockVars
  <1>13. /\ DueAt(0)' = 0 /\ DueAt(i)' = timeout
         /\ \A j \in 0 .. i - 1 : DueAt(j)' = DueAt(j)
         /\ \A j \in i .. n : DueAt(j + 1)' = DueAt(j)
    <2>1. DueAt(0)' = 0 /\ \A j \in 1 .. n + 1 : \A u : u = sleepQ'[j] => DueAt(j)' = Due(u)'
      BY DEF DueAt, Due
    <2>2. DueAt(i)' = timeout
      BY <1>8, <1>12, <2>1
    <2>3. ASSUME NEW j \in 0 .. i - 1  PROVE DueAt(j)' = DueAt(j)
      <3>1. CASE j = 0
        BY <1>2, <2>1, <3>1
      <3>2. CASE j # 0
        <4>1. j \in 1 .. i - 1 /\ j \in 1 .. n /\ j \in 1 .. n + 1
          BY <1>1, <1>4, <3>2
        <4> QED  BY <1>1, <1>2, <1>8, <1>9, <1>12, <2>1, <4>1
      <3> QED  BY <3>1, <3>2
    <2>4. ASSUME NEW j \in i .. n  PROVE DueAt(j + 1)' = DueAt(j)
      <3>1. j \in 1 .. n /\ j + 1 \in 1 .. n + 1
        BY <1>1, <1>4
      <3> QED  BY <1>1, <1>2, <1>8, <1>9, <1>12, <2>1, <3>1
    <2> QED  BY <2>1, <2>2, <2>3, <2>4
  <1>14. SqTypeOK'
    <2>1. IsInjective(sleepQ')
      <3>1. ASSUME NEW j \in 1 .. n + 1, NEW k \in 1 .. n + 1, sleepQ'[j] = sleepQ'[k], j < k
            PROVE  FALSE
        <4>1. CASE k < i
          <5>1. j \in 1 .. i - 1 /\ k \in 1 .. i - 1 /\ j # k
            BY <1>4, <3>1, <4>1
          <5>2. /\ j \in 1 .. n /\ k \in 1 .. n
                /\ sleepQ'[j] = sleepQ[j] /\ sleepQ'[k] = sleepQ[k]
            BY <1>8, <5>1
          <5> QED  BY <1>1, <3>1, <5>1, <5>2
        <4>2. CASE k = i
          <5>1. j \in 1 .. i - 1
            BY <1>4, <3>1, <4>2
          <5> QED  BY <1>8, <1>9, <3>1, <4>2, <5>1
        <4>3. CASE k > i /\ j = i
          <5>1. k - 1 \in i .. n /\ k - 1 \in 1 .. n /\ (k - 1) + 1 = k
            BY <1>1, <1>4, <4>3
          <5> QED  BY <1>8, <1>9, <3>1, <4>3, <5>1
        <4>4. CASE k > i /\ j < i
          <5>1. k - 1 \in i .. n /\ k - 1 \in 1 .. n /\ (k - 1) + 1 = k
            BY <1>1, <1>4, <4>4
          <5>2. j \in 1 .. i - 1 /\ j # k - 1
            BY <1>4, <4>4
          <5>3. j \in 1 .. n /\ sleepQ'[j] = sleepQ[j] /\ sleepQ'[k] = sleepQ[k - 1]
            BY <1>8, <5>1, <5>2
          <5> QED  BY <1>1, <3>1, <5>1, <5>2, <5>3
        <4>5. CASE k > i /\ j > i
          <5>1. k - 1 \in i .. n /\ k - 1 \in 1 .. n /\ (k - 1) + 1 = k
            BY <1>1, <1>4, <4>5
          <5>2. j - 1 \in i .. n /\ j - 1 \in 1 .. n /\ (j - 1) + 1 = j /\ j - 1 # k - 1
            BY <1>1, <1>4, <3>1, <4>5
          <5>3. sleepQ'[j] = sleepQ[j - 1] /\ sleepQ'[k] = sleepQ[k - 1]
            BY <1>8, <5>1, <5>2
          <5> QED  BY <1>1, <3>1, <5>1, <5>2, <5>3
        <4>6. (k < i \/ k = i \/ k > i) /\ (j < i \/ j = i \/ j > i)
          BY <1>4
        <4> QED  BY <4>1, <4>2, <4>3, <4>4, <4>5, <4>6
      <3>2. ASSUME NEW j \in 1 .. n + 1, NEW k \in 1 .. n + 1, sleepQ'[j] = sleepQ'[k]
            PROVE  j = k
        <4>1. j < k \/ k < j \/ j = k
          OBVIOUS
        <4> QED  BY <3>1, <3>2, <4>1
      <3> QED  BY <1>7, <3>2 DEF IsInjective
    <2>2. Overdue' = Overdue /\ Overdue < 0
      BY SleepQAssumption DEF Overdue
    <2>3. /\ remaining' \in [Sleepers -> Int]
          /\ \A u \in Sleepers : remaining'[u] > Overdue'
      BY <1>3, <1>5, <1>6, <2>2, SleepQAssumption DEF SqTypeOK, Overdue
    <2>4. skew' \in [Sleepers -> 0 .. MaxLate]
      BY <1>5, <1>6 DEF SqTypeOK
    <2> QED  BY <1>5, <1>6, <1>7, <1>11, <2>1, <2>3, <2>4 DEF SqTypeOK, clockVars
  <1>15. ASSUME NEW j \in 1 .. n + 1
         PROVE  sleep'[sleepQ'[j]] = DueAt(j)' - DueAt(j - 1)'
    <2>1. CASE j < i
      <3>1. j \in 1 .. i - 1 /\ j \in 0 .. i - 1 /\ j - 1 \in 0 .. i - 1 /\ j # i /\ j \in 1 .. n
        BY <1>1, <1>4, <2>1
      <3>2. sleepQ[j] \in Sleepers \ {t, sleepQ[i]}
        BY <1>1, <1>4, <1>9, <3>1
      <3> QED  BY <1>2, <1>8, <1>11, <1>13, <3>1, <3>2
    <2>2. CASE j = i
      <3>1. j - 1 \in 0 .. i - 1
        BY <1>4, <2>2
      <3> QED  BY <1>8, <1>11, <1>13, <2>2, <3>1
    <2>3. CASE j = i + 1
      <3>1. i \in i .. n /\ j - 1 = i
        BY <1>1, <1>4, <2>3
      <3> QED  BY <1>8, <1>11, <1>13, <2>3, <3>1
    <2>4. CASE j > i + 1
      <3> DEFINE k == j - 1
      <3>1. k \in i .. n /\ k - 1 \in i .. n /\ k \in 1 .. n /\ k # i /\ k + 1 = j /\ (k - 1) + 1 = k
        BY <1>1, <1>4, <2>4
      <3> HIDE DEF k
      <3>2. sleepQ[k] \in Sleepers \ {t, sleepQ[i]}
        BY <1>1, <1>4, <1>9, <3>1
      <3>3. sleepQ'[j] = sleepQ[k] /\ DueAt(j)' = DueAt(k) /\ DueAt(k)' = DueAt(k - 1)
        BY <1>8, <1>13, <3>1
      <3>4. j - 1 = k
        BY DEF k
      <3> QED  BY <1>2, <1>11, <3>1, <3>2, <3>3, <3>4
    <2>5. j < i \/ j = i \/ j = i + 1 \/ j > i + 1
      BY <1>4
    <2> QED  BY <2>1, <2>2, <2>3, <2>4, <2>5
  <1>16. ASSUME NEW j \in 0 .. n + 1, NEW k \in 0 .. n + 1, j <= k
         PROVE  DueAt(j)' <= DueAt(k)'
    <2>1. CASE k < i
      <3>1. j \in 0 .. i - 1 /\ k \in 0 .. i - 1 /\ j \in 0 .. n /\ k \in 0 .. n
        BY <1>1, <1>4, <1>16, <2>1
      <3> QED  BY <1>2, <1>13, <1>16, <3>1
    <2>2. CASE j = i /\ k = i
      BY <1>3, <1>13, <2>2
    <2>3. CASE j < i /\ k >= i
      <3>1. j \in 0 .. i - 1 /\ j \in 0 .. n /\ j <= i - 1
        BY <1>1, <1>4, <2>3
      <3>2. DueAt(j)' = DueAt(j) /\ DueAt(j) <= DueAt(i - 1) /\ DueAt(j) \in Nat
        BY <1>2, <1>8, <1>13, <3>1
      <3>3. CASE k = i
        BY <1>3, <1>4, <1>10, <1>13, <3>2, <3>3
      <3>4. CASE k > i
        <4>1. k - 1 \in i .. n /\ k - 1 \in 0 .. n /\ (k - 1) + 1 = k /\ j <= k - 1
          BY <1>1, <1>4, <2>3, <3>4
        <4>2. DueAt(k)' = DueAt(k - 1) /\ DueAt(j) <= DueAt(k - 1)
          BY <1>2, <1>13, <3>1, <4>1
        <4> QED  BY <3>2, <4>2
      <3> QED  BY <1>4, <2>3, <3>3, <3>4
    <2>4. CASE j >= i /\ k > i
      <3>1. k - 1 \in i .. n /\ k - 1 \in 0 .. n /\ (k - 1) + 1 = k /\ i <= k - 1
        BY <1>1, <1>4, <2>4
      <3>2. DueAt(k)' = DueAt(k - 1) /\ DueAt(i) <= DueAt(k - 1) /\ DueAt(k - 1) \in Nat
        BY <1>2, <1>8, <1>13, <3>1
      <3>3. CASE j = i
        BY <1>3, <1>4, <1>10, <1>13, <3>2, <3>3
      <3>4. CASE j > i
        <4>1. j - 1 \in i .. n /\ j - 1 \in 0 .. n /\ (j - 1) + 1 = j /\ j - 1 <= k - 1
          BY <1>1, <1>4, <1>16, <3>4
        <4>2. DueAt(j)' = DueAt(j - 1) /\ DueAt(j - 1) <= DueAt(k - 1)
          BY <1>2, <1>13, <3>1, <4>1
        <4> QED  BY <3>2, <4>2
      <3> QED  BY <1>4, <2>4, <3>3, <3>4
    <2>5. k < i \/ (j = i /\ k = i) \/ (j < i /\ k >= i) \/ (j >= i /\ k > i)
      BY <1>4, <1>16
    <2> QED  BY <2>1, <2>2, <2>3, <2>4, <2>5
  <1>17. sleepQmax' = DueAt(n + 1)'
    <2>1. n \in i .. n
      BY <1>1, <1>4
    <2> QED  BY <1>2, <1>5, <1>13, <2>1
  <1>18. DueInv'
    BY <1>7, <1>15, <1>16, <1>17 DEF DueInv
  <1>19. ClockInv'
    BY <1>5 DEF ClockInv, clockVars
  <1> QED  BY <1>14, <1>18, <1>19 DEF SqIInv

LEMMA NotifyStep ==
  ASSUME SqIInv, NEW t \in Sleepers, Notify(t)
  PROVE  SqIInv'
PROOF
  <1>n. PICK n : n = Len(sleepQ)
    OBVIOUS
  <1>1. /\ n \in Nat /\ \A j \in 1 .. n : sleepQ[j] \in Sleepers
        /\ \A j, k \in 1 .. n : sleepQ[j] = sleepQ[k] => j = k
        /\ \A u : OnSleepQ(u) <=> \E j \in 1 .. n : sleepQ[j] = u
    BY <1>n, QueueFacts
  <1>2. /\ DueAt(0) = 0
        /\ \A j \in 0 .. n : DueAt(j) \in Nat
        /\ \A j \in 1 .. n : /\ DueAt(j) = Due(sleepQ[j])
                             /\ sleep[sleepQ[j]] = DueAt(j) - DueAt(j - 1)
        /\ \A j, k \in 0 .. n : j <= k => DueAt(j) <= DueAt(k)
        /\ sleepQmax = DueAt(n)
    BY <1>n, DueFacts
  <1>3. /\ DelSleepQ(t, TRUE)
        /\ remaining' = [remaining EXCEPT ![t] = 0]
        /\ skew' = [skew EXCEPT ![t] = 0]
        /\ UNCHANGED <<clockVars, sinceClock>>
    BY DEF Notify, DelSleepQ
  <1>4. PICK i \in 1 .. n :
           /\ sleepQ[i] = t
           /\ sleepQ' \in Seq(Sleepers) /\ IsInjective(sleepQ')
           /\ Len(sleepQ') = n - 1 /\ DOMAIN sleepQ' = 1 .. n - 1
           /\ \A j \in 1 .. i - 1 : sleepQ'[j] = sleepQ[j]
           /\ \A j \in i .. n - 1 : sleepQ'[j] = sleepQ[j + 1]
           /\ \A j \in 1 .. n - 1 : sleepQ'[j] \in Sleepers \ {t}
           /\ sleep' = SleepsWithout(i, TRUE)
           /\ sleepQmax' = MaxWithout(i, TRUE)
    BY <1>n, <1>3, RemovalEffect
  <1>5. SqTypeOK
    BY DEF SqIInv
  <1>6. \A u \in Sleepers \ {t} : Due(u)' = Due(u)
    BY <1>3, <1>5, SleepQAssumption DEF SqTypeOK, Due, clockVars
  <1>7. /\ DueAt(0)' = 0
        /\ \A j \in 0 .. i - 1 : DueAt(j)' = DueAt(j)
        /\ \A j \in i .. n - 1 : DueAt(j)' = DueAt(j + 1)
    <2>1. DueAt(0)' = 0 /\ \A j \in 1 .. n - 1 : \A u : u = sleepQ'[j] => DueAt(j)' = Due(u)'
      BY DEF DueAt, Due
    <2>2. ASSUME NEW j \in 0 .. i - 1  PROVE DueAt(j)' = DueAt(j)
      <3>1. CASE j = 0
        BY <1>2, <2>1, <3>1
      <3>2. CASE j # 0
        <4>1. j \in 1 .. i - 1 /\ j \in 1 .. n /\ j \in 1 .. n - 1
          BY <1>1, <3>2
        <4>2. sleepQ'[j] = sleepQ[j] /\ sleepQ[j] \in Sleepers \ {t}
          BY <1>4, <4>1
        <4> QED  BY <1>2, <1>6, <2>1, <4>1, <4>2
      <3> QED  BY <3>1, <3>2
    <2>3. ASSUME NEW j \in i .. n - 1  PROVE DueAt(j)' = DueAt(j + 1)
      <3>1. j + 1 \in 1 .. n /\ j \in 1 .. n - 1
        BY <1>1
      <3>2. sleepQ'[j] = sleepQ[j + 1] /\ sleepQ[j + 1] \in Sleepers \ {t}
        BY <1>4, <3>1
      <3> QED  BY <1>2, <1>6, <2>1, <3>1, <3>2
    <2> QED  BY <2>1, <2>2, <2>3
  <1>8. /\ sleep' \in [Sleepers -> Nat]
        /\ \A u \in Sleepers : (i < n => u # sleepQ[i + 1]) => sleep'[u] = sleep[u]
        /\ i < n => sleep'[sleepQ[i + 1]] = DueAt(i + 1) - DueAt(i - 1)
    <2>1. sleep \in [Sleepers -> Nat] /\ sleep[t] = DueAt(i) - DueAt(i - 1)
      BY <1>2, <1>4, <1>5 DEF SqTypeOK
    <2>2. CASE i < n
      <3>1. i + 1 \in 1 .. n /\ i + 1 \in 0 .. n /\ i \in 0 .. n /\ i - 1 \in 0 .. n /\ (i + 1) - 1 = i
        BY <1>1, <2>2
      <3>2. /\ sleepQ[i + 1] \in Sleepers
            /\ sleep[sleepQ[i + 1]] = DueAt(i + 1) - DueAt(i)
            /\ DueAt(i + 1) \in Nat /\ DueAt(i) \in Nat /\ DueAt(i - 1) \in Nat
        BY <1>1, <1>2, <3>1
      <3>3. sleep' = [sleep EXCEPT ![sleepQ[i + 1]] = @ + sleep[t]]
        BY <1>n, <1>4, <2>2 DEF SleepsWithout
      <3>4. sleep[sleepQ[i + 1]] + sleep[t] \in Nat
        BY <1>4, <2>1, <3>2
      <3>5. sleep[sleepQ[i + 1]] + sleep[t] = DueAt(i + 1) - DueAt(i - 1)
        BY <2>1, <3>2
      <3> QED  BY <2>1, <2>2, <3>2, <3>3, <3>4, <3>5
    <2>3. CASE ~ (i < n)
      <3>1. sleep' = sleep
        BY <1>n, <1>4, <2>3 DEF SleepsWithout
      <3> QED  BY <2>1, <2>3, <3>1
    <2> QED  BY <2>2, <2>3
  <1>9. ASSUME NEW j \in 1 .. n - 1
        PROVE  sleep'[sleepQ'[j]] = DueAt(j)' - DueAt(j - 1)'
    <2>1. CASE j < i
      <3>1. j \in 1 .. i - 1 /\ j \in 0 .. i - 1 /\ j - 1 \in 0 .. i - 1 /\ j \in 1 .. n /\ j # i + 1
        BY <1>1, <2>1
      <3>2. i < n => i + 1 \in 1 .. n
        BY <1>1
      <3>3. sleepQ[j] \in Sleepers /\ (i < n => sleepQ[j] # sleepQ[i + 1])
        BY <1>1, <3>1, <3>2
      <3>4. DueAt(j)' = DueAt(j) /\ DueAt(j - 1)' = DueAt(j - 1) /\ sleepQ'[j] = sleepQ[j]
        BY <1>4, <1>7, <3>1
      <3> QED  BY <1>2, <1>8, <3>1, <3>3, <3>4
    <2>2. CASE j = i
      <3>1. i < n /\ i \in i .. n - 1 /\ i - 1 \in 0 .. i - 1
        BY <1>1, <2>2
      <3>2. DueAt(j)' = DueAt(i + 1) /\ DueAt(j - 1)' = DueAt(i - 1) /\ sleepQ'[j] = sleepQ[i + 1]
        BY <1>4, <1>7, <2>2, <3>1
      <3> QED  BY <1>8, <3>1, <3>2
    <2>3. CASE j > i
      <3>1. /\ j \in i .. n - 1 /\ j - 1 \in i .. n - 1 /\ (j - 1) + 1 = j /\ (j + 1) - 1 = j
            /\ j + 1 \in 1 .. n /\ i + 1 \in 1 .. n /\ j + 1 # i + 1
        BY <1>1, <2>3
      <3>2. sleepQ[j + 1] \in Sleepers /\ sleepQ[j + 1] # sleepQ[i + 1]
        BY <1>1, <3>1
      <3>3. DueAt(j)' = DueAt(j + 1) /\ DueAt(j - 1)' = DueAt(j) /\ sleepQ'[j] = sleepQ[j + 1]
        BY <1>4, <1>7, <3>1
      <3>4. sleep[sleepQ[j + 1]] = DueAt(j + 1) - DueAt(j)
        BY <1>2, <3>1
      <3> QED  BY <1>8, <3>2, <3>3, <3>4
    <2>4. j < i \/ j = i \/ j > i
      BY <1>1
    <2> QED  BY <2>1, <2>2, <2>3, <2>4
  <1>10. ASSUME NEW j \in 0 .. n - 1
         PROVE  \E k \in 0 .. n : /\ DueAt(j)' = DueAt(k)
                                  /\ \/ j < i /\ k = j
                                     \/ j >= i /\ k = j + 1
    <2>1. CASE j < i
      <3>1. j \in 0 .. i - 1 /\ j \in 0 .. n
        BY <1>1, <2>1
      <3> QED  BY <1>7, <2>1, <3>1
    <2>2. CASE j >= i
      <3>1. j \in i .. n - 1 /\ j + 1 \in 0 .. n
        BY <1>1, <2>2
      <3> QED  BY <1>7, <2>2, <3>1
    <2>3. j < i \/ j >= i
      BY <1>1
    <2> QED  BY <2>1, <2>2, <2>3
  <1>11. ASSUME NEW j \in 0 .. n - 1, NEW k \in 0 .. n - 1, j <= k
         PROVE  DueAt(j)' <= DueAt(k)'
    <2>1. PICK l \in 0 .. n : /\ DueAt(j)' = DueAt(l)
                              /\ \/ j < i /\ l = j
                                 \/ j >= i /\ l = j + 1
      BY <1>10
    <2>2. PICK m \in 0 .. n : /\ DueAt(k)' = DueAt(m)
                              /\ \/ k < i /\ m = k
                                 \/ k >= i /\ m = k + 1
      BY <1>10
    <2>3. l <= m
      BY <1>1, <1>11, <2>1, <2>2
    <2> QED  BY <1>2, <2>1, <2>2, <2>3
  <1>12. sleepQmax' = DueAt(n - 1)' /\ sleepQmax' \in Nat
    <2>1. CASE i < n
      <3>1. n - 1 \in i .. n - 1 /\ (n - 1) + 1 = n /\ n > 1 /\ n # 1 /\ n \in 0 .. n
        BY <1>1, <2>1
      <3>2. sleepQmax' = DueAt(n)
        BY <1>n, <1>2, <1>4, <2>1, <3>1 DEF MaxWithout
      <3>3. DueAt(n - 1)' = DueAt(n)
        BY <1>7, <3>1
      <3> QED  BY <1>2, <3>1, <3>2, <3>3
    <2>2. CASE i = n /\ n = 1
      <3>1. sleepQmax' = 0
        BY <1>n, <1>4, <2>2 DEF MaxWithout
      <3>2. n - 1 = 0
        BY <2>2
      <3>3. DueAt(n - 1)' = 0
        BY <1>7, <3>2
      <3> QED  BY <3>1, <3>3
    <2>3. CASE i = n /\ n # 1
      <3>1. n > 1 /\ n - 1 \in 0 .. i - 1 /\ n - 1 \in 0 .. n /\ ~ (i < n) /\ n \in 0 .. n
        BY <1>1, <2>3
      <3>2. sleepQmax' = sleepQmax - sleep[t]
        BY <1>n, <1>4, <2>3, <3>1 DEF MaxWithout
      <3>3. sleep[t] = DueAt(n) - DueAt(n - 1) /\ DueAt(n) \in Nat /\ DueAt(n - 1) \in Nat
        BY <1>2, <1>4, <2>3, <3>1
      <3>4. DueAt(n - 1)' = DueAt(n - 1)
        BY <1>7, <3>1
      <3> QED  BY <1>2, <3>2, <3>3, <3>4
    <2>4. i < n \/ i = n
      BY <1>1
    <2> QED  BY <2>1, <2>2, <2>3, <2>4
  <1>13. SqTypeOK'
    <2>1. Overdue' = Overdue /\ Overdue < 0
      BY SleepQAssumption DEF Overdue
    <2>2. /\ remaining' \in [Sleepers -> Int]
          /\ \A u \in Sleepers : remaining'[u] > Overdue'
      BY <1>3, <1>5, <2>1, SleepQAssumption DEF SqTypeOK, Overdue
    <2>3. skew' \in [Sleepers -> 0 .. MaxLate]
      <3>1. 0 \in 0 .. MaxLate
        BY SleepQAssumption
      <3> QED  BY <1>3, <1>5, <3>1 DEF SqTypeOK
    <2> QED  BY <1>3, <1>4, <1>5, <1>8, <1>12, <2>2, <2>3 DEF SqTypeOK, clockVars
  <1>14. DueInv'
    BY <1>4, <1>9, <1>11, <1>12 DEF DueInv
  <1>15. ClockInv'
    <2>1. ticking' = ticking /\ elapsed' = elapsed /\ expiring' = expiring
      BY <1>3 DEF clockVars
    <2>2. ASSUME expiring # NoThread, OnSleepQ(expiring)'
          PROVE  sleepQ'[1] = expiring /\ sleep'[expiring] <= elapsed
      <3>1. PICK j \in 1 .. n - 1 : sleepQ'[j] = expiring
        BY <1>4, <2>1, <2>2 DEF OnSleepQ, ToSet
      <3>2. expiring \in Sleepers \ {t}
        BY <1>4, <3>1
      <3>3. \E k \in 1 .. n : sleepQ[k] = expiring
        <4>1. CASE j < i
          <5>1. j \in 1 .. i - 1 /\ j \in 1 .. n
            BY <1>1, <4>1
          <5> QED  BY <1>4, <3>1, <5>1
        <4>2. CASE j >= i
          <5>1. j \in i .. n - 1 /\ j + 1 \in 1 .. n
            BY <1>1, <4>2
          <5> QED  BY <1>4, <3>1, <5>1
        <4>3. j < i \/ j >= i
          BY <1>1
        <4> QED  BY <4>1, <4>2, <4>3
      <3>4. sleepQ[1] = expiring /\ sleep[expiring] <= elapsed
        BY <1>1, <2>2, <3>3 DEF SqIInv, ClockInv
      <3>5. i # 1
        BY <1>4, <3>2, <3>4
      <3>6. 1 \in 1 .. i - 1 /\ 1 \in 1 .. n /\ (i < n => i + 1 \in 1 .. n) /\ 1 # i + 1
        BY <1>1, <3>5
      <3>7. i < n => expiring # sleepQ[i + 1]
        BY <1>1, <3>4, <3>6
      <3> QED  BY <1>4, <1>8, <3>2, <3>4, <3>6, <3>7
    <2> QED  BY <2>1, <2>2 DEF SqIInv, ClockInv
  <1> QED  BY <1>13, <1>14, <1>15 DEF SqIInv

-----------------------------------------------------------------------------
(* The steps of the clock interrupt.                                       *)

LEMMA ExpireStep ==
  ASSUME SqIInv, Expire
  PROVE  SqIInv'
PROOF
  <1>n. PICK n : n = Len(sleepQ)
    OBVIOUS
  <1>t. PICK t : t = expiring
    OBVIOUS
  <1>1. /\ n \in Nat /\ \A j \in 1 .. n : sleepQ[j] \in Sleepers
        /\ \A j, k \in 1 .. n : sleepQ[j] = sleepQ[k] => j = k
        /\ \A u : OnSleepQ(u) <=> \E j \in 1 .. n : sleepQ[j] = u
    BY <1>n, QueueFacts
  <1>2. /\ DueAt(0) = 0
        /\ \A j \in 0 .. n : DueAt(j) \in Nat
        /\ \A j \in 1 .. n : /\ DueAt(j) = Due(sleepQ[j])
                             /\ sleep[sleepQ[j]] = DueAt(j) - DueAt(j - 1)
        /\ \A j, k \in 0 .. n : j <= k => DueAt(j) <= DueAt(k)
        /\ sleepQmax = DueAt(n)
    BY <1>n, DueFacts
  <1>3. /\ DelSleepQ(t, FALSE) /\ OnSleepQ(t) /\ t # NoThread /\ t \in Sleepers
        /\ remaining' = [remaining EXCEPT ![t] = 0]
        /\ skew' = [skew EXCEPT ![t] = 0]
        /\ elapsed' = elapsed - sleep[t] /\ expiring' = NoThread
        /\ UNCHANGED <<ticking, sinceClock>>
    BY <1>t DEF Expire, DelSleepQ, Consumed, SqIInv, SqTypeOK
  <1>4. PICK i \in 1 .. n :
           /\ sleepQ[i] = t
           /\ sleepQ' \in Seq(Sleepers) /\ IsInjective(sleepQ')
           /\ Len(sleepQ') = n - 1 /\ DOMAIN sleepQ' = 1 .. n - 1
           /\ \A j \in i .. n - 1 : sleepQ'[j] = sleepQ[j + 1]
           /\ \A j \in 1 .. n - 1 : sleepQ'[j] \in Sleepers \ {t}
           /\ sleep' = SleepsWithout(i, FALSE)
           /\ sleepQmax' = MaxWithout(i, FALSE)
    BY <1>n, <1>3, RemovalEffect
  <1>5. SqTypeOK /\ ClockInv
    BY DEF SqIInv
  <1>6. i = 1 /\ 1 \in 1 .. n /\ 1 \in 0 .. n /\ 0 \in 0 .. n
    <2>1. sleepQ[1] = t /\ 1 \in 1 .. n /\ 1 \in 0 .. n /\ 0 \in 0 .. n
      BY <1>1, <1>3, <1>4, <1>5, <1>t DEF ClockInv
    <2> QED  BY <1>1, <1>4, <2>1
  <1>7. sleep[t] = DueAt(1) /\ DueAt(1) \in Nat /\ DueAt(1) <= elapsed
    <2>1. sleep[t] = DueAt(1) - DueAt(1 - 1)
      BY <1>2, <1>4, <1>6
    <2>2. sleep[t] <= elapsed
      BY <1>3, <1>5, <1>t DEF ClockInv
    <2> QED  BY <1>2, <1>6, <2>1, <2>2
  <1>8. \A u \in Sleepers \ {t} : Due(u)' = Due(u) - DueAt(1)
    <2>1. elapsed \in Int /\ sleep[t] \in Int /\ elapsed' = elapsed - DueAt(1)
      BY <1>3, <1>5, <1>7 DEF SqTypeOK
    <2>2. \A u \in Sleepers \ {t} : remaining'[u] = remaining[u] /\ skew'[u] = skew[u]
      BY <1>3, <1>5 DEF SqTypeOK
    <2>3. sinceClock' = sinceClock /\ sinceClock \in Int
      BY <1>3, <1>5 DEF SqTypeOK
    <2>4. \A u \in Sleepers : remaining[u] \in Int /\ skew[u] \in Int
      BY <1>5 DEF SqTypeOK
    <2> QED  BY <1>7, <2>1, <2>2, <2>3, <2>4 DEF Due
  <1>9. \A j \in 0 .. n - 1 : DueAt(j)' = DueAt(j + 1) - DueAt(1)
    <2>1. DueAt(0)' = 0 /\ \A j \in 1 .. n - 1 : \A u : u = sleepQ'[j] => DueAt(j)' = Due(u)'
      BY DEF DueAt, Due
    <2>2. ASSUME NEW j \in 0 .. n - 1  PROVE DueAt(j)' = DueAt(j + 1) - DueAt(1)
      <3>1. CASE j = 0
        <4>1. j + 1 = 1
          BY <3>1
        <4> QED  BY <1>7, <2>1, <3>1, <4>1
      <3>2. CASE j # 0
        <4>1. j \in i .. n - 1 /\ j \in 1 .. n - 1 /\ j + 1 \in 1 .. n
          BY <1>1, <1>6, <3>2
        <4>2. sleepQ'[j] = sleepQ[j + 1] /\ sleepQ[j + 1] \in Sleepers \ {t}
          BY <1>4, <4>1
        <4>3. DueAt(j)' = Due(sleepQ[j + 1]) - DueAt(1)
          BY <1>8, <2>1, <4>1, <4>2
        <4> QED  BY <1>2, <4>1, <4>3
      <3> QED  BY <3>1, <3>2
    <2> QED  BY <2>2
  <1>10. sleep' = sleep
    BY <1>4 DEF SleepsWithout
  <1>11. ASSUME NEW j \in 1 .. n - 1
         PROVE  sleep'[sleepQ'[j]] = DueAt(j)' - DueAt(j - 1)'
    <2>1. /\ j \in i .. n - 1 /\ j \in 0 .. n - 1 /\ j - 1 \in 0 .. n - 1
          /\ (j - 1) + 1 = j /\ (j + 1) - 1 = j
          /\ j + 1 \in 1 .. n /\ j + 1 \in 0 .. n /\ j \in 0 .. n
      BY <1>1, <1>6
    <2>2. DueAt(j)' = DueAt(j + 1) - DueAt(1) /\ DueAt(j - 1)' = DueAt(j) - DueAt(1)
      BY <1>9, <2>1
    <2>3. sleep'[sleepQ'[j]] = DueAt(j + 1) - DueAt(j)
      BY <1>2, <1>4, <1>10, <2>1
    <2> QED  BY <1>2, <1>7, <2>1, <2>2, <2>3
  <1>12. ASSUME NEW j \in 0 .. n - 1, NEW k \in 0 .. n - 1, j <= k
         PROVE  DueAt(j)' <= DueAt(k)'
    <2>1. j + 1 \in 0 .. n /\ k + 1 \in 0 .. n /\ j + 1 <= k + 1
      BY <1>1, <1>12
    <2>2. DueAt(j + 1) <= DueAt(k + 1) /\ DueAt(j + 1) \in Nat /\ DueAt(k + 1) \in Nat
      BY <1>2, <2>1
    <2> QED  BY <1>7, <1>9, <2>2
  <1>13. sleepQmax' = DueAt(n - 1)' /\ sleepQmax' \in Nat
    <2>1. n - 1 \in 0 .. n - 1 /\ (n - 1) + 1 = n /\ n \in 0 .. n /\ 1 <= n
      BY <1>1, <1>6
    <2>2. DueAt(n - 1)' = DueAt(n) - DueAt(1) /\ DueAt(1) <= DueAt(n) /\ DueAt(n) \in Nat
      BY <1>2, <1>6, <1>9, <2>1
    <2>3. sleepQmax' = DueAt(n) - DueAt(1)
      <3>1. CASE n = 1
        <4>1. sleepQmax' = 0
          BY <1>n, <1>4, <3>1 DEF MaxWithout
        <4> QED  BY <1>7, <3>1, <4>1
      <3>2. CASE n # 1
        <4>1. n > 1
          BY <1>1, <2>1, <3>2
        <4>2. sleepQmax' = sleepQmax - sleep[t]
          BY <1>n, <1>4, <3>2, <4>1 DEF MaxWithout
        <4> QED  BY <1>2, <1>7, <4>2
      <3> QED  BY <3>1, <3>2
    <2> QED  BY <1>7, <2>2, <2>3
  <1>14. SqTypeOK'
    <2>1. Overdue' = Overdue /\ Overdue < 0
      BY SleepQAssumption DEF Overdue
    <2>2. /\ remaining' \in [Sleepers -> Int]
          /\ \A u \in Sleepers : remaining'[u] > Overdue'
      BY <1>3, <1>5, <2>1, SleepQAssumption DEF SqTypeOK, Overdue
    <2>3. skew' \in [Sleepers -> 0 .. MaxLate]
      <3>1. 0 \in 0 .. MaxLate
        BY SleepQAssumption
      <3> QED  BY <1>3, <1>5, <3>1 DEF SqTypeOK
    <2>4. elapsed' \in 0 .. MaxLate
      BY <1>3, <1>5, <1>7, SleepQAssumption DEF SqTypeOK
    <2> QED  BY <1>3, <1>4, <1>5, <1>10, <1>13, <2>2, <2>3, <2>4 DEF SqTypeOK
  <1>15. DueInv'
    BY <1>4, <1>11, <1>12, <1>13 DEF DueInv
  <1>16. ClockInv'
    <2>1. ticking
      BY <1>3, <1>5, <1>t DEF ClockInv
    <2> QED  BY <1>3, <2>1 DEF ClockInv
  <1> QED  BY <1>14, <1>15, <1>16 DEF SqIInv

LEMMA ChooseStep ==
  ASSUME SqIInv, Choose
  PROVE  SqIInv'
PROOF
  <1>1. /\ ticking /\ sleepQ # << >> /\ sleep[Head(sleepQ)] <= elapsed
        /\ expiring' = Head(sleepQ)
        /\ UNCHANGED <<queueVars, ticking, elapsed, timeVars>>
    BY DEF Choose, Choosing
  <1>2. sleepQ \in Seq(Sleepers)
    BY DEF SqIInv, SqTypeOK
  <1>3. Head(sleepQ) = sleepQ[1] /\ Head(sleepQ) \in Sleepers
    BY <1>1, <1>2, HeadTailProperties
  <1>4. SqTypeOK'
    BY <1>1, <1>3, SleepQAssumption DEF SqIInv, SqTypeOK, queueVars, timeVars, Overdue
  <1>5. DueInv'
    BY <1>1 DEF SqIInv, DueInv, DueAt, Due, queueVars, timeVars
  <1>6. ClockInv'
    BY <1>1, <1>3 DEF SqIInv, ClockInv, OnSleepQ, queueVars
  <1> QED  BY <1>4, <1>5, <1>6 DEF SqIInv

LEMMA ExpireNoneStep ==
  ASSUME SqIInv, ExpireNone
  PROVE  SqIInv'
PROOF
  <1>1. expiring # NoThread /\ expiring' = NoThread
        /\ UNCHANGED <<queueVars, ticking, elapsed, timeVars>>
    BY DEF ExpireNone
  <1>2. SqTypeOK'
    BY <1>1, SleepQAssumption DEF SqIInv, SqTypeOK, queueVars, timeVars, Overdue
  <1>3. DueInv'
    BY <1>1 DEF SqIInv, DueInv, DueAt, Due, queueVars, timeVars
  <1>4. ClockInv'
    BY <1>1 DEF SqIInv, ClockInv
  <1> QED  BY <1>2, <1>3, <1>4 DEF SqIInv

\* The time since the last clock interrupt becomes the one to distribute.
LEMMA ClockBeginsStep ==
  ASSUME SqIInv, ClockBegins
  PROVE  SqIInv'
PROOF
  <1>1. /\ ~ticking /\ ticking' = TRUE /\ elapsed' = sinceClock /\ sinceClock' = 0
        /\ UNCHANGED <<queueVars, expiring, remaining, skew>>
    BY DEF ClockBegins
  <1>2. elapsed = 0 /\ expiring = NoThread /\ SqTypeOK
    BY <1>1 DEF SqIInv, ClockInv
  <1>3. SqTypeOK'
    BY <1>1, <1>2, SleepQAssumption DEF SqTypeOK, queueVars, Overdue
  <1>4. \A t \in Sleepers : Due(t)' = Due(t)
    BY <1>1, <1>2 DEF Due, SqTypeOK
  <1>5. DueInv'
    <2>1. \A i \in 0 .. Len(sleepQ) : DueAt(i)' = DueAt(i)
      <3> TAKE i \in 0 .. Len(sleepQ)
      <3>1. i # 0 => i \in 1 .. Len(sleepQ)
        BY QueueFacts
      <3>2. i # 0 => sleepQ[i] \in Sleepers
        BY <3>1, QueueFacts
      <3> QED  BY <1>1, <1>4, <3>2 DEF DueAt, queueVars
    <2>2. \A i \in DOMAIN sleepQ : i \in 0 .. Len(sleepQ) /\ i - 1 \in 0 .. Len(sleepQ)
      <3>1. DOMAIN sleepQ = 1 .. Len(sleepQ) /\ Len(sleepQ) \in Nat
        BY <1>2, LenProperties DEF SqTypeOK
      <3> QED  BY <3>1
    <2>3. Len(sleepQ) \in 0 .. Len(sleepQ)
      BY QueueFacts
    <2> QED  BY <1>1, <2>1, <2>2, <2>3 DEF SqIInv, DueInv, queueVars
  <1>6. ClockInv'
    BY <1>1, <1>2 DEF ClockInv
  <1> QED  BY <1>3, <1>5, <1>6 DEF SqIInv

\* Nobody is due: what is left of the time is deducted from the first thread's.
LEMMA ClockEndsStep ==
  ASSUME SqIInv, ClockEnds
  PROVE  SqIInv'
PROOF
  <1>n. PICK n : n = Len(sleepQ)
    OBVIOUS
  <1>e. PICK e : e = elapsed
    OBVIOUS
  <1>1. /\ n \in Nat /\ \A j \in 1 .. n : sleepQ[j] \in Sleepers
        /\ \A j, k \in 1 .. n : sleepQ[j] = sleepQ[k] => j = k
        /\ \A u : OnSleepQ(u) <=> \E j \in 1 .. n : sleepQ[j] = u
    BY <1>n, QueueFacts
  <1>2. /\ DueAt(0) = 0
        /\ \A j \in 0 .. n : DueAt(j) \in Nat
        /\ \A j \in 1 .. n : /\ DueAt(j) = Due(sleepQ[j])
                             /\ sleep[sleepQ[j]] = DueAt(j) - DueAt(j - 1)
        /\ \A j, k \in 0 .. n : j <= k => DueAt(j) <= DueAt(k)
        /\ sleepQmax = DueAt(n)
    BY <1>n, DueFacts
  <1>3. /\ ticking /\ expiring = NoThread /\ ticking' = FALSE /\ elapsed' = 0
        /\ expiring' = NoThread /\ sinceClock' = sinceClock
        /\ remaining' = remaining /\ skew' = skew /\ sleepQ' = sleepQ
    BY DEF ClockEnds, Choosing, queueVars, timeVars
  <1>4. SqTypeOK
    BY DEF SqIInv
  <1>5. DOMAIN sleepQ = 1 .. n
    BY <1>n, <1>4, LenProperties DEF SqTypeOK
  <1>6. ClockInv'
    BY <1>3 DEF ClockInv
  <1>typed. ASSUME sleep' \in [Sleepers -> Nat], sleepQmax' \in Nat  PROVE SqTypeOK'
    <2>1. elapsed' \in 0 .. MaxLate
      BY <1>3, SleepQAssumption
    <2>4. ticking' \in BOOLEAN
      BY <1>3
    <2>2. \A u \in Sleepers : remaining'[u] > Overdue'
      BY <1>3, <1>4 DEF SqTypeOK, Overdue
    <2>3. IsInjective(sleepQ')
      BY <1>3, <1>4 DEF SqTypeOK
    <2> QED  BY <1>3, <1>4, <1>typed, <2>1, <2>2, <2>3, <2>4 DEF SqTypeOK
  <1>7. \A u \in Sleepers : Due(u)' = Due(u) - e
    BY <1>e, <1>3, <1>4 DEF SqTypeOK, Due
  <1>8. /\ DueAt(0)' = 0
        /\ \A j \in 1 .. n : DueAt(j)' = DueAt(j) - e
    <2>1. DueAt(0)' = 0
      BY DEF DueAt
    <2>2. ASSUME NEW j \in 1 .. n  PROVE DueAt(j)' = DueAt(j) - e
      <3>1. j # 0 /\ sleepQ[j] \in Sleepers
        BY <1>1
      <3>2. PICK u : u = sleepQ[j]
        OBVIOUS
      <3>3. DueAt(j)' = Due(u)'
        BY <1>3, <3>1, <3>2 DEF DueAt, Due
      <3>4. DueAt(j) = Due(u)
        BY <1>2, <3>2
      <3> QED  BY <1>7, <3>1, <3>2, <3>3, <3>4
    <2> QED  BY <2>1, <2>2
  <1>9. CASE n = 0
    <2>1. sleepQ = << >>
      BY <1>n, <1>4, <1>9, EmptySeq DEF SqTypeOK
    <2>2. sleep' = sleep /\ sleepQmax' = sleepQmax
      BY <2>1 DEF ClockEnds, queueVars
    <2>3. SqTypeOK'
      BY <1>4, <1>typed, <2>2 DEF SqTypeOK
    <2>4. DueInv'
      <3>1. \A j \in DOMAIN sleepQ' : FALSE
        BY <1>3, <1>5, <1>9
      <3>2. \A j \in 0 .. 0 : j = 0
        OBVIOUS
      <3>3. Len(sleepQ') = 0
        BY <1>n, <1>3, <1>9
      <3>4. sleepQmax' = DueAt(0)' /\ DueAt(0)' <= DueAt(0)'
        BY <1>2, <1>8, <1>9, <2>2
      <3> QED  BY <3>1, <3>2, <3>3, <3>4 DEF DueInv
    <2> QED  BY <1>6, <2>3, <2>4 DEF SqIInv
  <1>10. CASE n # 0
    <2>1. sleepQ # << >> /\ 1 \in 1 .. n /\ 1 \in 0 .. n /\ n \in 1 .. n
      BY <1>n, <1>1, <1>10
    <2>2. PICK h : h = sleepQ[1]
      OBVIOUS
    <2>3. Head(sleepQ) = h /\ h \in Sleepers
      BY <1>1, <1>4, <2>1, <2>2, HeadTailProperties DEF SqTypeOK
    <2>4. /\ e < sleep[h] /\ sleep' = [sleep EXCEPT ![h] = @ - e]
          /\ sleepQmax' = sleepQmax - e
      BY <1>e, <2>1, <2>3 DEF ClockEnds, Shortened
    <2>5. sleep[h] = DueAt(1) /\ DueAt(1) \in Nat /\ e \in Nat /\ e < DueAt(1)
      <3>1. sleep[h] = DueAt(1) - DueAt(1 - 1)
        BY <1>2, <2>1, <2>2
      <3>2. sleep[h] = DueAt(1)
        BY <1>2, <2>1, <3>1
      <3> QED  BY <1>e, <1>2, <1>4, <2>1, <2>4, <3>2, SleepQAssumption DEF SqTypeOK
    <2>6. \A j \in 1 .. n : DueAt(j) \in Nat /\ DueAt(1) <= DueAt(j)
      <3> TAKE j \in 1 .. n
      <3>1. j \in 0 .. n /\ 1 <= j
        BY <1>1
      <3> QED  BY <1>2, <2>1, <3>1
    <2>7. /\ sleep' \in [Sleepers -> Nat] /\ sleep'[h] = DueAt(1) - e
          /\ \A u \in Sleepers \ {h} : sleep'[u] = sleep[u]
      <3>1. sleep \in [Sleepers -> Nat]
        BY <1>4 DEF SqTypeOK
      <3>2. sleep[h] - e \in Nat /\ sleep[h] - e = DueAt(1) - e
        BY <2>5
      <3> QED  BY <2>3, <2>4, <3>1, <3>2
    <2>8. sleepQmax' = DueAt(n)' /\ sleepQmax' \in Nat
      BY <1>2, <1>8, <2>1, <2>4, <2>5, <2>6
    <2>9. SqTypeOK'
      BY <1>typed, <2>7, <2>8
    <2>10. ASSUME NEW j \in 1 .. n
           PROVE  sleep'[sleepQ'[j]] = DueAt(j)' - DueAt(j - 1)'
      <3>1. CASE j = 1
        <4>1. DueAt(j)' = DueAt(1) - e /\ DueAt(j - 1)' = 0
          BY <1>8, <2>1, <3>1
        <4> QED  BY <1>3, <2>2, <2>5, <2>7, <3>1, <4>1
      <3>2. CASE j # 1
        <4>1. j - 1 \in 1 .. n
          BY <1>1, <3>2
        <4>2. DueAt(j)' = DueAt(j) - e /\ DueAt(j - 1)' = DueAt(j - 1) - e
          BY <1>8, <4>1
        <4>3. sleepQ[j] \in Sleepers \ {h}
          BY <1>1, <2>1, <2>2, <3>2
        <4>4. sleep'[sleepQ'[j]] = DueAt(j) - DueAt(j - 1)
          BY <1>2, <1>3, <2>7, <4>3
        <4> QED  BY <2>5, <2>6, <4>1, <4>2, <4>4
      <3> QED  BY <3>1, <3>2
    <2>11. ASSUME NEW j \in 0 .. n, NEW k \in 0 .. n, j <= k
           PROVE  DueAt(j)' <= DueAt(k)'
      <3>1. CASE j = 0 /\ k = 0
        BY <1>8, <3>1
      <3>2. CASE j = 0 /\ k # 0
        <4>1. k \in 1 .. n
          BY <1>1, <3>2
        <4> QED  BY <1>8, <2>5, <2>6, <3>2, <4>1
      <3>3. CASE j # 0
        <4>1. j \in 1 .. n /\ k \in 1 .. n
          BY <1>1, <2>11, <3>3
        <4>2. DueAt(j) <= DueAt(k)
          BY <1>2, <2>11
        <4> QED  BY <1>8, <2>5, <2>6, <4>1, <4>2
      <3> QED  BY <3>1, <3>2, <3>3
    <2>12. DueInv'
      BY <1>n, <1>3, <1>5, <2>8, <2>10, <2>11 DEF DueInv
    <2> QED  BY <1>6, <2>9, <2>12 DEF SqIInv
  <1> QED  BY <1>9, <1>10

\* Nobody in the queue is later than the history counts: it is due after the
\* time that is still to be distributed.
LEMMA ElapseStep ==
  ASSUME SqIInv, Elapse
  PROVE  SqIInv'
PROOF
  <1>1. /\ sinceClock < MaxLate /\ sinceClock' = sinceClock + 1
        /\ remaining' = [t \in Sleepers |->
                           IF OnSleepQ(t) /\ remaining[t] > Overdue
                           THEN remaining[t] - 1 ELSE remaining[t]]
        /\ UNCHANGED <<queueVars, clockVars, skew>>
    BY DEF Elapse
  <1>2. SqTypeOK /\ ClockInv
    BY DEF SqIInv
  <1>3. /\ \A t \in Sleepers : remaining[t] \in Int /\ remaining[t] > Overdue /\ skew[t] \in 0 .. MaxLate
        /\ sinceClock \in 0 .. MaxLate /\ elapsed \in 0 .. MaxLate
        /\ MaxLate \in Nat /\ Overdue \in Int /\ Overdue = -2 * MaxLate - 1
    BY <1>2, SleepQAssumption DEF SqTypeOK, Overdue
  <1>4. \A t \in Sleepers : OnSleepQ(t) => Due(t) >= 0
    <2> TAKE t \in Sleepers
    <2> HAVE OnSleepQ(t)
    <2>1. PICK j \in 1 .. Len(sleepQ) : sleepQ[j] = t
      BY QueueFacts
    <2>2. j \in 0 .. Len(sleepQ)
      BY QueueFacts
    <2> QED  BY <2>1, <2>2, DueFacts
  <1>5. ASSUME NEW t \in Sleepers, OnSleepQ(t)
        PROVE  remaining[t] - 1 > Overdue /\ remaining'[t] = remaining[t] - 1 /\ Due(t)' = Due(t)
    <2>1. remaining[t] + sinceClock + elapsed - skew[t] >= 0
      BY <1>4, <1>5 DEF Due
    <2>2. remaining[t] - 1 > Overdue
      BY <1>1, <1>3, <2>1
    <2>3. remaining'[t] = remaining[t] - 1
      BY <1>1, <1>3, <1>5
    <2>4. elapsed' = elapsed /\ skew' = skew
      BY <1>1 DEF clockVars
    <2> QED  BY <1>1, <1>3, <2>2, <2>3, <2>4 DEF Due
  <1>6. ASSUME NEW t \in Sleepers, ~OnSleepQ(t)
        PROVE  remaining'[t] = remaining[t]
    BY <1>1, <1>6
  <1>7. SqTypeOK'
    <2>1. \A t \in Sleepers : remaining'[t] \in Int /\ remaining'[t] > Overdue
      BY <1>3, <1>5, <1>6
    <2>2. remaining' \in [Sleepers -> Int]
      BY <1>1, <2>1
    <2>3. sinceClock' \in 0 .. MaxLate
      BY <1>1, <1>3
    <2>4. Overdue' = Overdue
      BY DEF Overdue
    <2> QED  BY <1>1, <1>2, <2>1, <2>2, <2>3, <2>4 DEF SqTypeOK, queueVars, clockVars
  <1>8. \A i \in 0 .. Len(sleepQ) : DueAt(i)' = DueAt(i)
    <2> TAKE i \in 0 .. Len(sleepQ)
    <2>1. sleepQ' = sleepQ
      BY <1>1 DEF queueVars
    <2>2. CASE i = 0
      BY <2>2 DEF DueAt
    <2>3. CASE i # 0
      <3>1. i \in 1 .. Len(sleepQ)
        BY <2>3, QueueFacts
      <3>2. PICK t : t = sleepQ[i]
        OBVIOUS
      <3>3. t \in Sleepers /\ OnSleepQ(t)
        BY <3>1, <3>2, QueueFacts
      <3>4. Due(t)' = Due(t)
        BY <1>5, <3>3
      <3>5. DueAt(i) = Due(t)
        BY <2>3, <3>2 DEF DueAt
      <3>6. DueAt(i)' = Due(t)'
        BY <2>1, <2>3, <3>2 DEF DueAt, Due
      <3> QED  BY <3>4, <3>5, <3>6
    <2> QED  BY <2>2, <2>3
  <1>9. DueInv'
    <2>1. \A i \in DOMAIN sleepQ : i \in 0 .. Len(sleepQ) /\ i - 1 \in 0 .. Len(sleepQ)
      <3>1. DOMAIN sleepQ = 1 .. Len(sleepQ) /\ Len(sleepQ) \in Nat
        BY <1>2, LenProperties DEF SqTypeOK
      <3> QED  BY <3>1
    <2>2. Len(sleepQ) \in 0 .. Len(sleepQ)
      BY QueueFacts
    <2> QED  BY <1>1, <1>8, <2>1, <2>2 DEF SqIInv, DueInv, queueVars
  <1>10. ClockInv'
    BY <1>1 DEF SqIInv, ClockInv, OnSleepQ, queueVars, clockVars
  <1> QED  BY <1>7, <1>9, <1>10 DEF SqIInv

-----------------------------------------------------------------------------
(* The theorems.                                                           *)

LEMMA NextSqIInv == SqIInv /\ [SqNext]_sqVars => SqIInv'
PROOF
  <1> SUFFICES ASSUME SqIInv, [SqNext]_sqVars  PROVE SqIInv'
    OBVIOUS
  <1>1. ASSUME NEW t \in Sleepers, NEW timeout \in Timeouts, AddSleepQ(t, timeout)
        PROVE  SqIInv'
    BY <1>1, AddLastStep, AddSortedStep DEF AddSleepQ
  <1>2. CASE UNCHANGED sqVars
    BY <1>2 DEF SqIInv, SqTypeOK, DueInv, DueAt, Due, ClockInv, OnSleepQ, Overdue,
                sqVars, queueVars, clockVars, timeVars
  <1> QED  BY <1>1, <1>2, NotifyStep, ExpireStep, ChooseStep, ExpireNoneStep,
              ClockBeginsStep, ClockEndsStep, ElapseStep
           DEF SqNext, ClockProceeds

\* The inductive invariant of the sleep queue.
THEOREM SpecSqIInv == SqSpec => []SqIInv
PROOF
  <1> QED  BY InitSqIInv, NextSqIInv, PTL DEF SqSpec

LEMMA IInvImpliesSqInv == SqIInv => SqInv
PROOF
  <1> SUFFICES ASSUME SqIInv  PROVE SqInv
    OBVIOUS
  <1>1. Len(sleepQ) \in Nat /\ DOMAIN sleepQ = 1 .. Len(sleepQ)
    BY QueueFacts, LenProperties DEF SqIInv, SqTypeOK
  <1>2. \A i \in 0 .. Len(sleepQ) : Delay(i) = DueAt(i)
    BY DelayIsDue
  <1>3. ASSUME NEW i \in DOMAIN sleepQ
        PROVE  Delay(i) = remaining[sleepQ[i]] + sinceClock + elapsed - skew[sleepQ[i]]
    <2>1. i \in 1 .. Len(sleepQ) /\ i \in 0 .. Len(sleepQ)
      BY <1>1
    <2>2. Delay(i) = Due(sleepQ[i])
      BY <1>2, <2>1, DueFacts
    <2> QED  BY <2>2 DEF Due
  <1>4. sleepQmax = Delay(Len(sleepQ))
    <2>1. Len(sleepQ) \in 0 .. Len(sleepQ)
      BY <1>1
    <2> QED  BY <1>2, <2>1, DueFacts
  <1>5. TimersKeepTime
    BY <1>3, <1>4 DEF TimersKeepTime
  <1> QED  BY <1>5 DEF SqInv, SqIInv

\* The sums of differences keep the time of every thread of the sleep queue, and
\* _PR_AddSleepQ always finds the thread it inserts in front of.
THEOREM SpecSqInv == SqSpec => []SqInv
PROOF
  <1> QED  BY SpecSqIInv, IInvImpliesSqInv, PTL

LEMMA StepExpiresOnTime ==
  ASSUME SqIInv, [SqNext]_sqVars
  PROVE  /\ expiring # NoThread /\ OnSleepQ(expiring) /\ ~OnSleepQ(expiring)' =>
              remaining[expiring] <= skew[expiring]
         /\ ticking /\ ~ticking' =>
              \A t \in ToSet(sleepQ) : remaining[t] + sinceClock > 0
PROOF
  <1>1. /\ \A t \in Sleepers : remaining[t] \in Int /\ skew[t] \in 0 .. MaxLate
        /\ sinceClock \in Nat /\ elapsed \in Nat /\ MaxLate \in Nat
    BY SleepQAssumption DEF SqIInv, SqTypeOK
  <1>2. ASSUME expiring # NoThread, OnSleepQ(expiring)
        PROVE  remaining[expiring] <= skew[expiring]
    <2>1. sleepQ[1] = expiring /\ sleep[expiring] <= elapsed
      BY <1>2 DEF SqIInv, ClockInv
    <2>2. expiring \in Sleepers /\ 1 \in 1 .. Len(sleepQ) /\ 1 \in 0 .. Len(sleepQ)
      BY <1>2, QueueFacts DEF SqIInv, SqTypeOK
    <2>3. sleep[expiring] = Due(expiring)
      <3>1. sleep[expiring] = DueAt(1) - DueAt(1 - 1) /\ DueAt(1) = Due(expiring)
        BY <2>1, <2>2, DueFacts
      <3>2. DueAt(1) \in Nat /\ DueAt(0) = 0
        BY <2>2, DueFacts
      <3> QED  BY <3>1, <3>2
    <2>4. remaining[expiring] + sinceClock + elapsed - skew[expiring] <= elapsed
      BY <2>1, <2>3 DEF Due
    <2> QED  BY <1>1, <2>2, <2>4
  <1>3. ASSUME ticking, ~ticking', NEW t \in ToSet(sleepQ)
        PROVE  remaining[t] + sinceClock > 0
    <2>1. ClockEnds
      BY <1>3 DEF SqNext, ClockProceeds, AddSleepQ, Notify, DelSleepQ, ClockBegins, Choose,
                  Expire, ExpireNone, Elapse, sqVars, clockVars
    <2>2. PICK j \in 1 .. Len(sleepQ) : sleepQ[j] = t
      BY <1>3, QueueFacts DEF OnSleepQ
    <2>3. t \in Sleepers /\ j \in 0 .. Len(sleepQ) /\ 1 \in 1 .. Len(sleepQ) /\ 1 \in 0 .. Len(sleepQ)
          /\ 1 <= j
      BY <2>2, QueueFacts
    <2>4. sleepQ # << >> /\ Head(sleepQ) = sleepQ[1]
      BY <2>3, HeadTailProperties DEF SqIInv, SqTypeOK
    <2>5. elapsed < sleep[sleepQ[1]]
      BY <2>1, <2>4 DEF ClockEnds
    <2>6. sleep[sleepQ[1]] = DueAt(1)
      <3>1. sleep[sleepQ[1]] = DueAt(1) - DueAt(1 - 1)
        BY <2>3, DueFacts
      <3>2. DueAt(1) \in Nat /\ DueAt(0) = 0
        BY <2>3, DueFacts
      <3> QED  BY <3>1, <3>2
    <2>7. DueAt(1) <= DueAt(j) /\ DueAt(j) = Due(t) /\ DueAt(1) \in Nat /\ DueAt(j) \in Nat
      BY <2>2, <2>3, DueFacts
    <2>8. elapsed < remaining[t] + sinceClock + elapsed - skew[t]
      BY <1>1, <2>5, <2>6, <2>7 DEF Due
    <2> QED  BY <1>1, <2>3, <2>8
  <1> QED  BY <1>2, <1>3

\* _PR_ClockInterrupt expires nobody early by a clock interrupt or more, and
\* leaves nobody in the queue whose timeout was over when it began.
THEOREM SpecExpiresOnTime == SqSpec => ExpiresOnTime
PROOF
  <1>1. SqIInv /\ [SqNext]_sqVars =>
          [/\ expiring # NoThread /\ OnSleepQ(expiring) /\ ~OnSleepQ(expiring)' =>
                remaining[expiring] <= skew[expiring]
           /\ ticking /\ ~ticking' =>
                \A t \in ToSet(sleepQ) : remaining[t] + sinceClock > 0]_sqVars
    BY StepExpiresOnTime
  <1> QED  BY <1>1, SpecSqIInv, PTL DEF SqSpec, ExpiresOnTime
=============================================================================
