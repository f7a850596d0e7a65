------------------------------- MODULE PrSleepQ -------------------------------
(***************************************************************************)
(* The sleep queue of a virtual processor: _PR_AddSleepQ and _PR_DelSleepQ  *)
(* of pruthr.c, and the clock interrupt that expires its threads,           *)
(* _PR_ClockInterrupt of prucv.c.                                           *)
(*                                                                         *)
(* The queue is a list of differences: thread.sleep is how much longer a    *)
(* thread sleeps than the one in front of it.  Threads of the processor     *)
(* join the queue themselves, with interrupts off; a notify, which native   *)
(* threads make at any time, takes them out.                                *)
(***************************************************************************)
EXTENDS Integers, SequencesExt

CONSTANTS Sleepers,       \* the threads of the processor
          Timeouts,       \* what they wait for
          MaxLate,        \* bound: time between two clock interrupts
          NoThread        \* no thread is being expired

ASSUME SleepQAssumption == /\ Timeouts \subseteq Nat
                           /\ MaxLate \in Nat \ {0}
                           /\ NoThread \notin Sleepers

VARIABLES sleepQ,         \* _PR_SLEEPQ
          sleep,          \* PRThread.sleep
          sleepQmax,      \* _PR_SLEEPQMAX
          ticking,        \* _PR_ClockInterrupt is under way
          elapsed,        \* its variable elapsed
          expiring,       \* its variable thread, once it has chosen one
          sinceClock,     \* the time since cpu->last_clock
          remaining,      \* history: how far off the end of the timeout is
          skew            \* history: sinceClock when the thread was added

queueVars == <<sleepQ, sleep, sleepQmax>>
clockVars == <<ticking, elapsed, expiring>>
timeVars  == <<sinceClock, remaining, skew>>
sqVars    == <<queueVars, clockVars, timeVars>>

Zero == [t \in Sleepers |-> 0]

SqInit == /\ sleepQ = << >>
          /\ sleep = Zero
          /\ sleepQmax = 0
          /\ ticking = FALSE
          /\ elapsed = 0
          /\ expiring = NoThread
          /\ sinceClock = 0
          /\ remaining = Zero
          /\ skew = Zero

OnSleepQ(t) == t \in ToSet(sleepQ)

\* How long the i-th thread of the queue still sleeps.
Delay(i) ==
  LET sum[j \in 0 .. Len(sleepQ)] == IF j = 0 THEN 0 ELSE sum[j - 1] + sleep[sleepQ[j]]
  IN  sum[i]

-----------------------------------------------------------------------------
(* Slips: versions of definitions below that forget something.             *)

\* _PR_DelSleepQ does not hand the time of a deleted thread on.
SlipNoPropagation(i, propagate) == sleep

\* _PR_ClockInterrupt does not consume the time of a thread it expires.
SlipKeepElapsed(t) == elapsed

\* ... nor deducts what is left of elapsed from the first sleep and the sum.
SlipKeepSleep(delay) == delay

-----------------------------------------------------------------------------
(* _PR_AddSleepQ.                                                          *)

\* The first thread of the queue that sleeps longer than timeout.
InsertBefore(timeout) == CHOOSE i \in DOMAIN sleepQ :
                           /\ timeout < Delay(i)
                           /\ \A j \in 1 .. i - 1 : Delay(j) <= timeout

\* The sleeps when t is put in front of the i-th thread.
SleepsWith(t, i, timeout) ==
  LET mine == timeout - Delay(i - 1)
  IN  [sleep EXCEPT ![t] = mine, ![sleepQ[i]] = @ - mine]

\* The longest timeout joins the queue at its end.
AddLast(t, timeout) == /\ timeout >= sleepQmax
                       /\ sleepQ' = Append(sleepQ, t)
                       /\ sleep' = [sleep EXCEPT ![t] = timeout - sleepQmax]
                       /\ sleepQmax' = timeout

AddSorted(t, timeout) == /\ timeout < sleepQmax
                         /\ LET i == InsertBefore(timeout)
                            IN  /\ sleepQ' = InsertAt(sleepQ, i, t)
                                /\ sleep' = SleepsWith(t, i, timeout)
                         /\ UNCHANGED sleepQmax

AddSleepQ(t, timeout) == /\ ~ticking
                         /\ ~OnSleepQ(t)
                         /\ AddLast(t, timeout) \/ AddSorted(t, timeout)
                         /\ remaining' = [remaining EXCEPT ![t] = timeout]
                         /\ skew' = [skew EXCEPT ![t] = sinceClock]
                         /\ UNCHANGED <<clockVars, sinceClock>>

-----------------------------------------------------------------------------
(* _PR_DelSleepQ.  A thread that has not timed out propagates its time.     *)

SleepsWithout(i, propagate) ==
  IF propagate /\ i < Len(sleepQ)
  THEN [sleep EXCEPT ![sleepQ[i + 1]] = @ + sleep[sleepQ[i]]]
  ELSE sleep

MaxWithout(i, propagate) ==
  CASE Len(sleepQ) = 1 -> 0
    [] Len(sleepQ) > 1 /\ propagate /\ i < Len(sleepQ) -> sleepQmax
    [] Len(sleepQ) > 1 /\ ~(propagate /\ i < Len(sleepQ)) ->
         sleepQmax - sleep[sleepQ[i]]

DelSleepQ(t, propagate) ==
  LET i == CHOOSE j \in DOMAIN sleepQ : sleepQ[j] = t
  IN  /\ OnSleepQ(t)
      /\ sleepQ' = RemoveAt(sleepQ, i)
      /\ sleep' = SleepsWithout(i, propagate)
      /\ sleepQmax' = MaxWithout(i, propagate)
      /\ remaining' = [remaining EXCEPT ![t] = 0]
      /\ skew' = [skew EXCEPT ![t] = 0]

\* A notify or an interrupt ends the wait.
Notify(t) == /\ DelSleepQ(t, TRUE)
             /\ UNCHANGED <<clockVars, sinceClock>>

-----------------------------------------------------------------------------
(* _PR_ClockInterrupt, which lets go of the sleep queue between choosing a  *)
(* thread and taking it out.                                               *)

ClockBegins == /\ ~ticking
               /\ ticking' = TRUE
               /\ elapsed' = sinceClock
               /\ sinceClock' = 0
               /\ UNCHANGED <<queueVars, expiring, remaining, skew>>

Choosing == ticking /\ expiring = NoThread

Choose == /\ Choosing
          /\ sleepQ # << >>
          /\ sleep[Head(sleepQ)] <= elapsed
          /\ expiring' = Head(sleepQ)
          /\ UNCHANGED <<queueVars, ticking, elapsed, timeVars>>

\* What is left of elapsed for the thread behind t.
Consumed(t) == elapsed - sleep[t]

Expire == /\ expiring # NoThread
          /\ DelSleepQ(expiring, FALSE)
          /\ elapsed' = Consumed(expiring)
          /\ expiring' = NoThread
          /\ UNCHANGED <<ticking, sinceClock>>

\* "Thread was already handled".
ExpireNone == /\ expiring # NoThread
              /\ ~OnSleepQ(expiring)
              /\ expiring' = NoThread
              /\ UNCHANGED <<queueVars, ticking, elapsed, timeVars>>

Shortened(delay) == delay - elapsed

ClockEnds == /\ Choosing
             /\ \/ /\ sleepQ = << >>
                   /\ UNCHANGED queueVars
                \/ /\ sleepQ # << >>
                   /\ elapsed < sleep[Head(sleepQ)]
                   /\ sleep' = [sleep EXCEPT ![Head(sleepQ)] = Shortened(@)]
                   /\ sleepQmax' = Shortened(sleepQmax)
                   /\ UNCHANGED sleepQ
             /\ ticking' = FALSE
             /\ elapsed' = 0
             /\ UNCHANGED <<expiring, timeVars>>

\* Bound: the history does not count beyond this; nobody is so late.
Overdue == -2 * MaxLate - 1

\* PR_IntervalNow advances.
Elapse == /\ sinceClock < MaxLate
          /\ sinceClock' = sinceClock + 1
          /\ remaining' = [t \in Sleepers |->
                            IF OnSleepQ(t) /\ remaining[t] > Overdue
                            THEN remaining[t] - 1 ELSE remaining[t]]
          /\ UNCHANGED <<queueVars, clockVars, skew>>

-----------------------------------------------------------------------------
ClockProceeds == ClockBegins \/ Choose \/ Expire \/ ExpireNone \/ ClockEnds

SqNext == \/ \E t \in Sleepers : \/ \E timeout \in Timeouts : AddSleepQ(t, timeout)
                                 \/ Notify(t)
          \/ ClockProceeds
          \/ Elapse

SqSpec == SqInit /\ [][SqNext]_sqVars

\* Time goes on, and the clock interrupt does not stay blocked.
SqFairSpec == SqSpec /\ WF_sqVars(Elapse) /\ WF_sqVars(ClockProceeds)

-----------------------------------------------------------------------------
(* Correctness.                                                            *)

\* No sleep is negative (a PR_ASSERT of _PR_ClockInterrupt), nobody is in the
\* queue twice.
SqTypeOK == /\ sleepQ \in Seq(Sleepers) /\ IsInjective(sleepQ)
            /\ sleep \in [Sleepers -> Nat]
            /\ sleepQmax \in Nat
            /\ ticking \in BOOLEAN
            /\ elapsed \in 0 .. MaxLate
            /\ expiring \in Sleepers \cup {NoThread}
            /\ sinceClock \in 0 .. MaxLate
            /\ remaining \in [Sleepers -> Int]
            /\ \A t \in Sleepers : remaining[t] > Overdue
            /\ skew \in [Sleepers -> 0 .. MaxLate]

\* The sums of differences keep the time of every thread, also when threads in
\* front of it come and go and in the middle of a clock interrupt: a thread's
\* delay is what remains of its timeout, less the time that had passed when it
\* was added.  _PR_SLEEPQMAX is the delay of the last thread: _PR_AddSleepQ
\* relies on it to find a thread to insert in front of ("there must be one").
TimersKeepTime ==
  /\ \A i \in DOMAIN sleepQ :
       LET t == sleepQ[i]
       IN  Delay(i) = remaining[t] + sinceClock + elapsed - skew[t]
  /\ sleepQmax = Delay(Len(sleepQ))

\* The sleep queue of pruthr.c is consistent, in the middle of _PR_ClockInterrupt, too.
SqInv == SqTypeOK /\ TimersKeepTime

\* A thread is expired less than one clock interrupt early, and no clock
\* interrupt ends with a thread in the queue whose timeout was over when it
\* began.
ExpiresOnTime ==
  [][/\ expiring # NoThread /\ OnSleepQ(expiring) /\ ~OnSleepQ(expiring)' =>
          remaining[expiring] <= skew[expiring]
     /\ ticking /\ ~ticking' =>
          \A t \in ToSet(sleepQ) : remaining[t] + sinceClock > 0]_sqVars

\* Whatever is added in front of it, a thread does not sleep forever.
SleepersWake == \A t \in Sleepers : OnSleepQ(t) ~> ~OnSleepQ(t)
=============================================================================
