------------------------------ MODULE CvClient ------------------------------
(***************************************************************************)
(* The frame of the modules of code that locks, waits and notifies: each    *)
(* thread has a pc, "run" while it is in code of its own, and moves it       *)
(* together with the step of AbstractCondVar it takes.                     *)
(***************************************************************************)
EXTENDS AbstractCondVar

VARIABLE pc   \* where a thread is in the call it makes

clientVars == <<acvVars, pc>>

At(t, label) == pc[t] = label /\ phase[t] = "out"

GoTo(t, label) == pc' = [pc EXCEPT ![t] = label]

\* The call goes on without a lock or a wait.
Continue(t, from, to) == At(t, from) /\ GoTo(t, to) /\ UNCHANGED acvVars

Lock(t, l, from, to) == At(t, from) /\ Take(t, l) /\ GoTo(t, to)

Unlock(t, l, from, to) == At(t, from) /\ Release(t, l) /\ GoTo(t, to)

\* PR_WaitCondVar without a timeout: it begins, or fails at once, ...
Wait(t, c, from, to) == At(t, from) /\ BeginWait(t, c) /\ GoTo(t, to)

WaitFails(t, c, from, to) == At(t, from) /\ RefuseWait(t, c) /\ GoTo(t, to)

\* ... and when it ends the thread has the lock again.
WaitEnds(t, from, to) == pc[t] = from /\ EndWait(t) /\ GoTo(t, to)

\* A woken thread gets its lock.
Relock(t) == Regain(t) /\ UNCHANGED pc

\* PR_Interrupt of u.
InterruptThread(u) == ~interrupted[u] /\ Interrupt(u) /\ UNCHANGED pc

\* No interrupt is pending.
NoInterrupts == \A t \in Threads : ~interrupted[t]
=============================================================================
