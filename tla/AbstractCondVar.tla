--------------------------- MODULE AbstractCondVar ---------------------------
(***************************************************************************)
(* What locks and condition variables promise the code built on them: a     *)
(* wait gives the lock up and joins the waiting threads in one step, a       *)
(* notify wakes one of them if there is one, and a woken thread is back      *)
(* when it has the lock again.  How waiters are queued, scheduled, stopped    *)
(* or claimed does not show.                                               *)
(*                                                                         *)
(* Implemented by PrCondVar (NSPR, prucv.c and prcthr.c); the modules of     *)
(* code that uses condition variables extend it.                           *)
(***************************************************************************)
EXTENDS FiniteSets

CONSTANTS Threads,   \* the threads of the program
          Locks,     \* the locks
          CVars,     \* the condition variables
          CvLock,    \* the lock each of them is used with
          NoThread,  \* "nobody holds the lock"
          NoCvar     \* "waits for nothing"

ASSUME ACvAssumption == /\ CvLock \in [CVars -> Locks]
                        /\ NoThread \notin Threads
                        /\ NoCvar \notin CVars

VARIABLES holder,       \* who holds a lock
          on,           \* the condition a thread is in a wait for
          phase,        \* how far it is in that wait
          interrupted   \* whether an interrupt of the thread is pending

acvVars == <<holder, on, phase, interrupted>>

\* waiting: nobody has woken the thread.  woken: it wants the lock.  back: it
\* has it, and will report a pending interrupt.
Phases == {"out", "waiting", "woken", "back"}

ACvTypeOK == /\ holder \in [Locks -> Threads \cup {NoThread}]
             /\ on \in [Threads -> CVars \cup {NoCvar}]
             /\ phase \in [Threads -> Phases]
             /\ interrupted \in [Threads -> BOOLEAN]

ACvInit == /\ holder = [l \in Locks |-> NoThread]
           /\ on = [t \in Threads |-> NoCvar]
           /\ phase = [t \in Threads |-> "out"]
           /\ interrupted = [t \in Threads |-> FALSE]

Waiting(c) == {t \in Threads : on[t] = c /\ phase[t] = "waiting"}

Holds(t, l) == holder[l] = t /\ phase[t] = "out"

\* The threads that may be given l: those that ask for it, and those that need
\* it to come back from a wait.
MayHave(t, l) == \/ phase[t] = "out"
                 \/ phase[t] = "woken" /\ CvLock[on[t]] = l

\* l goes from one holder, or from nobody, to t.
Give(from, t, l) ==
  /\ holder[l] = from
  /\ from # t
  /\ MayHave(t, l)
  /\ holder' = [holder EXCEPT ![l] = t]
  /\ phase' = [phase EXCEPT ![t] = IF @ = "woken" THEN "back" ELSE @]
  /\ UNCHANGED <<on, interrupted>>

Take(t, l) == phase[t] = "out" /\ Give(NoThread, t, l)

Regain(t) == phase[t] = "woken" /\ Give(NoThread, t, CvLock[on[t]])

Release(t, l) == /\ Holds(t, l)
                 /\ holder' = [holder EXCEPT ![l] = NoThread]
                 /\ UNCHANGED <<on, phase, interrupted>>

HandOver(t, u, l) == Holds(t, l) /\ Give(t, u, l)

-----------------------------------------------------------------------------
BeginWait(t, c) == /\ Holds(t, CvLock[c])
                   /\ ~interrupted[t]
                   /\ holder' = [holder EXCEPT ![CvLock[c]] = NoThread]
                   /\ on' = [on EXCEPT ![t] = c]
                   /\ phase' = [phase EXCEPT ![t] = "waiting"]
                   /\ UNCHANGED interrupted

\* A pending interrupt makes the wait fail without a wait.
RefuseWait(t, c) == /\ Holds(t, CvLock[c])
                    /\ interrupted[t]
                    /\ interrupted' = [interrupted EXCEPT ![t] = FALSE]
                    /\ UNCHANGED <<holder, on, phase>>

\* The end of a wait, which fails if the thread is interrupted.
EndWait(t) == /\ phase[t] = "back"
              /\ phase' = [phase EXCEPT ![t] = "out"]
              /\ on' = [on EXCEPT ![t] = NoCvar]
              /\ interrupted' = [interrupted EXCEPT ![t] = FALSE]
              /\ UNCHANGED holder

Wake(us) ==
  phase' = [u \in Threads |-> IF u \in us THEN "woken" ELSE phase[u]]

\* Somebody who holds the lock wakes one waiting thread, or all.
Notify(t, c) == /\ Holds(t, CvLock[c])
                /\ IF Waiting(c) = {} THEN UNCHANGED phase
                                      ELSE \E u \in Waiting(c) : Wake({u})
                /\ UNCHANGED <<holder, on, interrupted>>

NotifyAll(t, c) == /\ Holds(t, CvLock[c])
                   /\ Wake(Waiting(c))
                   /\ UNCHANGED <<holder, on, interrupted>>

TimeOut(u) == /\ phase[u] = "waiting"
              /\ Wake({u})
              /\ UNCHANGED <<holder, on, interrupted>>

\* An interrupt wakes a waiting thread and is remembered by any other.
Interrupt(u) == /\ interrupted' = [interrupted EXCEPT ![u] = TRUE]
                /\ Wake({u} \cap {t \in Threads : phase[t] = "waiting"})
                /\ UNCHANGED <<holder, on>>

ClearInterrupt(t) == /\ phase[t] = "out"
                     /\ interrupted' = [interrupted EXCEPT ![t] = FALSE]
                     /\ UNCHANGED <<holder, on, phase>>

ACvNext == \E t \in Threads :
  \/ \E l \in Locks : \/ Take(t, l)
                      \/ Release(t, l)
                      \/ \E u \in Threads : HandOver(t, u, l)
  \/ \E c \in CVars : \/ BeginWait(t, c)
                      \/ RefuseWait(t, c)
                      \/ Notify(t, c)
                      \/ NotifyAll(t, c)
  \/ Regain(t) \/ EndWait(t) \/ TimeOut(t)
  \/ Interrupt(t) \/ ClearInterrupt(t)

ACvSpec == ACvInit /\ [][ACvNext]_acvVars
=============================================================================
