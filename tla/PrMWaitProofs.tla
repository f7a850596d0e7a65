---------------------------- MODULE PrMWaitProofs ----------------------------
(***************************************************************************)
(* Proofs about PrMWait, for any threads and descriptors: one thread polls,   *)
(* a stopped group is quiet, a descriptor has one owner, and no completion is *)
(* left to threads that sleep.                                             *)
(***************************************************************************)
EXTENDS PrMWait, FiniteSetTheorems, SequenceTheorems, TLAPS

-----------------------------------------------------------------------------
(* Who has the group's lock.                                               *)

\* Where a thread has the lock, ...
InsidePcs == {"add", "wrRefused", "cancel", "mwUnlock", "wrTest", "wrBusiness",
              "wrComplete", "wrLeave", "pollScan", "pollCollect", "cgWait", "cgTake"}

\* ... where it does not, ...
OutsidePcs == {"run", "pollTop", "polling", "pollBack", "pollFailed"}

\* ... and where it is in a wait.
BlockedPcs == {"wrBusinessWait", "wrIoWait", "cgWaiting"}

AllPcs == InsidePcs \cup OutsidePcs \cup BlockedPcs

\* A thread has the lock where the code says so, and when a wait is over.
LockInv(t) == holder[Ml] = t <=> pc[t] \in InsidePcs \/ phase[t] = "back"

\* A wait is for the condition of the place.
WaitInv(t) ==
  /\ phase[t] # "out" <=> pc[t] \in BlockedPcs
  /\ phase[t] = "out" <=> on[t] = NoCvar
  /\ pc[t] = "wrBusinessWait" => on[t] = NewBusiness
  /\ pc[t] = "wrIoWait" => on[t] = IoComplete
  /\ pc[t] = "cgWaiting" => on[t] = MwManage

ClientInv == /\ ACvTypeOK
             /\ pc \in [Threads -> AllPcs]
             /\ \A t \in Threads : LockInv(t) /\ WaitInv(t)

\* A thread with the lock is the only one.
LEMMA OneInside ==
  ASSUME ClientInv, NEW t \in Threads, pc[t] \in InsidePcs
  PROVE  /\ holder[Ml] = t /\ phase[t] = "out"
         /\ \A u \in Threads \ {t} : pc[u] \notin InsidePcs /\ phase[u] # "back"
PROOF
  BY DEF ClientInv, LockInv, WaitInv, InsidePcs, BlockedPcs

\* A thread that waits is woken, or none.
Wakes == phase' \in [Threads -> Phases]
           /\ \A u \in Threads : \/ phase'[u] = phase[u]
                                 \/ phase[u] = "waiting" /\ phase'[u] = "woken"

\* Going on, inside or outside, and perhaps waking others.
LEMMA ContinueKeepsClientInv ==
  ASSUME ClientInv, NEW t \in Threads, NEW to, phase[t] = "out", GoTo(t, to), Wakes,
         UNCHANGED <<holder, on>>, interrupted' \in [Threads -> BOOLEAN],
         \/ pc[t] \in InsidePcs /\ to \in InsidePcs
         \/ pc[t] \in OutsidePcs /\ to \in OutsidePcs
  PROVE  ClientInv'
PROOF
  <1>1. /\ pc' = [pc EXCEPT ![t] = to] /\ pc' \in [Threads -> AllPcs]
        /\ holder' = holder /\ on' = on
    BY DEF GoTo, ClientInv, AllPcs
  <1>2. ACvTypeOK'
    BY <1>1 DEF ClientInv, ACvTypeOK, Wakes
  <1>3. ASSUME NEW u \in Threads  PROVE LockInv(u)' /\ WaitInv(u)'
    <2>1. /\ phase'[u] = "back" <=> phase[u] = "back"
          /\ phase'[u] = "out" <=> phase[u] = "out"
      BY DEF Wakes
    <2> QED  BY <1>1, <2>1
             DEF ClientInv, LockInv, WaitInv, InsidePcs, OutsidePcs, BlockedPcs
  <1> QED  BY <1>1, <1>2, <1>3 DEF ClientInv

\* Taking the lock.
LEMMA LockKeepsClientInv ==
  ASSUME ClientInv, NEW t \in Threads, NEW from \in OutsidePcs, NEW to \in InsidePcs,
         Lock(t, Ml, from, to)
  PROVE  ClientInv' /\ pc' = [pc EXCEPT ![t] = to] /\ pc[t] = from
PROOF
  <1>1. /\ pc' = [pc EXCEPT ![t] = to] /\ pc[t] = from /\ phase[t] = "out"
        /\ holder[Ml] = NoThread /\ holder' = [holder EXCEPT ![Ml] = t]
        /\ phase' = [phase EXCEPT ![t] = IF @ = "woken" THEN "back" ELSE @]
        /\ on' = on /\ interrupted' = interrupted
    BY DEF Lock, At, Take, Give, GoTo
  <1>2. Ml \in Locks /\ NoThread \notin Threads
    BY ACvAssumption, MWaitAssumption
  <1>3. phase' = phase
    BY <1>1 DEF ClientInv, ACvTypeOK
  <1>4. ACvTypeOK'
    BY <1>1, <1>3 DEF ClientInv, ACvTypeOK
  <1>5. pc' \in [Threads -> AllPcs]
    BY <1>1 DEF ClientInv, AllPcs
  <1>6. holder'[Ml] = t
    BY <1>1, <1>2 DEF ClientInv, ACvTypeOK
  <1>7. ASSUME NEW u \in Threads  PROVE LockInv(u)' /\ WaitInv(u)'
    BY <1>1, <1>2, <1>3, <1>6
       DEF ClientInv, LockInv, WaitInv, InsidePcs, OutsidePcs, BlockedPcs
  <1> QED  BY <1>1, <1>4, <1>5, <1>7 DEF ClientInv

\* Giving it up.
LEMMA UnlockKeepsClientInv ==
  ASSUME ClientInv, NEW t \in Threads, NEW from \in InsidePcs, NEW to \in OutsidePcs,
         Unlock(t, Ml, from, to)
  PROVE  ClientInv' /\ pc' = [pc EXCEPT ![t] = to] /\ pc[t] = from
PROOF
  <1>1. /\ pc' = [pc EXCEPT ![t] = to] /\ pc[t] = from /\ phase[t] = "out"
        /\ holder[Ml] = t /\ holder' = [holder EXCEPT ![Ml] = NoThread]
        /\ on' = on /\ interrupted' = interrupted /\ phase' = phase
    BY DEF Unlock, At, Release, Holds, GoTo
  <1>2. Ml \in Locks /\ NoThread \notin Threads
    BY ACvAssumption, MWaitAssumption
  <1>4. ACvTypeOK'
    BY <1>1 DEF ClientInv, ACvTypeOK
  <1>5. pc' \in [Threads -> AllPcs]
    BY <1>1 DEF ClientInv, AllPcs
  <1>6. holder'[Ml] = NoThread
    BY <1>1, <1>2 DEF ClientInv, ACvTypeOK
  <1>7. ASSUME NEW u \in Threads  PROVE LockInv(u)' /\ WaitInv(u)'
    BY <1>1, <1>2, <1>6
       DEF ClientInv, LockInv, WaitInv, InsidePcs, OutsidePcs, BlockedPcs
  <1> QED  BY <1>1, <1>4, <1>5, <1>7 DEF ClientInv

\* The conditions of the group.
Cvs == {IoComplete, NewBusiness, MwManage}

\* Giving it up in a wait.
LEMMA WaitKeepsClientInv ==
  ASSUME ClientInv, NEW t \in Threads, NEW c \in Cvs, NEW from \in InsidePcs,
         NEW to \in BlockedPcs, Wait(t, c, from, to),
         to = "wrBusinessWait" => c = NewBusiness,
         to = "wrIoWait" => c = IoComplete,
         to = "cgWaiting" => c = MwManage
  PROVE  /\ ClientInv' /\ pc' = [pc EXCEPT ![t] = to] /\ pc[t] = from
         /\ phase' = [phase EXCEPT ![t] = "waiting"]
         /\ on' = [on EXCEPT ![t] = c]
PROOF
  <1>0. CvLock[c] = Ml /\ c \in CVars /\ Ml \in Locks /\ NoThread \notin Threads
        /\ NoCvar \notin CVars
    BY ACvAssumption, MWaitAssumption DEF Cvs
  <1>1. /\ pc' = [pc EXCEPT ![t] = to] /\ pc[t] = from /\ phase[t] = "out"
        /\ holder[Ml] = t /\ holder' = [holder EXCEPT ![Ml] = NoThread]
        /\ on' = [on EXCEPT ![t] = c] /\ interrupted' = interrupted
        /\ phase' = [phase EXCEPT ![t] = "waiting"]
    BY <1>0 DEF Wait, At, BeginWait, Holds, GoTo
  <1>4. ACvTypeOK'
    BY <1>0, <1>1 DEF ClientInv, ACvTypeOK, Phases
  <1>5. pc' \in [Threads -> AllPcs]
    BY <1>1 DEF ClientInv, AllPcs
  <1>6. holder'[Ml] = NoThread
    BY <1>0, <1>1 DEF ClientInv, ACvTypeOK
  <1>7. LockInv(t)' /\ WaitInv(t)'
    BY <1>0, <1>1, <1>6
       DEF ClientInv, ACvTypeOK, LockInv, WaitInv, InsidePcs, OutsidePcs, BlockedPcs
  <1>8. ASSUME NEW u \in Threads \ {t}  PROVE LockInv(u)' /\ WaitInv(u)'
    <2>1. pc'[u] = pc[u] /\ phase'[u] = phase[u] /\ on'[u] = on[u]
      BY <1>1 DEF ClientInv, ACvTypeOK
    <2> QED  BY <2>1, <1>0, <1>1, <1>6 DEF ClientInv, LockInv, WaitInv
  <1> QED  BY <1>1, <1>4, <1>5, <1>7, <1>8 DEF ClientInv

\* The end of a wait.
LEMMA WaitEndKeepsClientInv ==
  ASSUME ClientInv, NEW t \in Threads, NEW from \in BlockedPcs, NEW to \in InsidePcs,
         WaitEnds(t, from, to)
  PROVE  /\ ClientInv' /\ pc' = [pc EXCEPT ![t] = to] /\ pc[t] = from
         /\ holder[Ml] = t /\ phase[t] = "back"
         /\ phase' = [phase EXCEPT ![t] = "out"] /\ on' = [on EXCEPT ![t] = NoCvar]
PROOF
  <1>1. /\ pc' = [pc EXCEPT ![t] = to] /\ pc[t] = from /\ phase[t] = "back"
        /\ holder' = holder /\ on' = [on EXCEPT ![t] = NoCvar]
        /\ interrupted' = [interrupted EXCEPT ![t] = FALSE]
        /\ phase' = [phase EXCEPT ![t] = "out"]
    BY DEF WaitEnds, EndWait, GoTo
  <1>2. holder[Ml] = t
    BY <1>1 DEF ClientInv, LockInv
  <1>4. ACvTypeOK'
    BY <1>1 DEF ClientInv, ACvTypeOK, Phases
  <1>5. pc' \in [Threads -> AllPcs]
    BY <1>1 DEF ClientInv, AllPcs
  <1>7. LockInv(t)' /\ WaitInv(t)'
    BY <1>1, <1>2
       DEF ClientInv, ACvTypeOK, LockInv, WaitInv, InsidePcs, OutsidePcs, BlockedPcs
  <1>8. ASSUME NEW u \in Threads \ {t}  PROVE LockInv(u)' /\ WaitInv(u)'
    <2>1. pc'[u] = pc[u] /\ phase'[u] = phase[u] /\ on'[u] = on[u]
      BY <1>1 DEF ClientInv, ACvTypeOK
    <2> QED  BY <2>1, <1>1 DEF ClientInv, LockInv, WaitInv
  <1> QED  BY <1>1, <1>2, <1>4, <1>5, <1>7, <1>8 DEF ClientInv

\* Waking others.
LEMMA WakeKeepsClientInv ==
  ASSUME ClientInv, Wakes, UNCHANGED <<holder, on>>,
         interrupted' \in [Threads -> BOOLEAN], UNCHANGED pc
  PROVE  ClientInv'
PROOF
  <1>1. holder' = holder /\ on' = on /\ pc' = pc
    OBVIOUS
  <1>2. ACvTypeOK'
    BY <1>1 DEF ClientInv, ACvTypeOK, Wakes
  <1>3. ASSUME NEW u \in Threads  PROVE LockInv(u)' /\ WaitInv(u)'
    <2>1. /\ phase'[u] = "back" <=> phase[u] = "back"
          /\ phase'[u] = "out" <=> phase[u] = "out"
      BY DEF Wakes
    <2> QED  BY <1>1, <2>1 DEF ClientInv, LockInv, WaitInv
  <1> QED  BY <1>1, <1>2, <1>3 DEF ClientInv

\* A notify wakes one thread, or none.
LEMMA NotifyWakes ==
  ASSUME ClientInv, NEW t \in Threads, NEW c \in CVars, Notify(t, c)
  PROVE  Wakes /\ UNCHANGED <<holder, on, interrupted>>
PROOF
  <1>1. CASE Waiting(c) = {}
    BY <1>1 DEF Notify, Wakes, ClientInv, ACvTypeOK
  <1>2. CASE Waiting(c) # {}
    <2>1. PICK u \in Waiting(c) : Wake({u})
      BY <1>2 DEF Notify
    <2>2. u \in Threads /\ phase[u] = "waiting"
      BY DEF Waiting
    <2>3. phase' = [v \in Threads |-> IF v \in {u} THEN "woken" ELSE phase[v]]
      BY <2>1 DEF Wake
    <2>4. Wakes
      BY <2>2, <2>3 DEF Wakes, ClientInv, ACvTypeOK, Phases
    <2> QED  BY <2>4 DEF Notify
  <1> QED  BY <1>1, <1>2

LEMMA NotifyAllWakes ==
  ASSUME ClientInv, NEW t \in Threads, NEW c \in CVars, NotifyAll(t, c)
  PROVE  Wakes /\ UNCHANGED <<holder, on, interrupted>>
PROOF
  <1>1. phase' = [v \in Threads |-> IF v \in Waiting(c) THEN "woken" ELSE phase[v]]
    BY DEF NotifyAll, Wake
  <1>2. \A v \in Waiting(c) : phase[v] = "waiting"
    BY DEF Waiting
  <1>3. Wakes
    BY <1>1, <1>2 DEF Wakes, ClientInv, ACvTypeOK, Phases
  <1> QED  BY <1>3 DEF NotifyAll

LEMMA InterruptWakes ==
  ASSUME ClientInv, NEW t \in Threads, InterruptThread(t)
  PROVE  /\ Wakes /\ UNCHANGED <<holder, on, pc>>
         /\ interrupted' \in [Threads -> BOOLEAN]
PROOF
  <1> DEFINE us == {t} \cap {u \in Threads : phase[u] = "waiting"}
  <1>1. /\ phase' = [v \in Threads |-> IF v \in us THEN "woken" ELSE phase[v]]
        /\ interrupted' = [interrupted EXCEPT ![t] = TRUE]
        /\ UNCHANGED <<holder, on, pc>>
    BY DEF InterruptThread, Interrupt, Wake
  <1>2. Wakes
    BY <1>1 DEF Wakes, ClientInv, ACvTypeOK, Phases
  <1> QED  BY <1>1, <1>2 DEF ClientInv, ACvTypeOK

\* A woken thread gets the lock.
LEMMA RelockKeepsClientInv ==
  ASSUME ClientInv, NEW t \in Threads, Relock(t)
  PROVE  /\ ClientInv' /\ pc' = pc /\ on' = on
         /\ phase[t] = "woken" /\ phase' = [phase EXCEPT ![t] = "back"]
PROOF
  <1>1. phase[t] = "woken" /\ pc[t] \in BlockedPcs /\ on[t] \in Cvs
    BY DEF Relock, Regain, ClientInv, WaitInv, BlockedPcs, Cvs
  <1>2. CvLock[on[t]] = Ml
    BY <1>1, MWaitAssumption DEF Cvs
  <1>3. /\ pc' = pc /\ on' = on /\ interrupted' = interrupted
        /\ holder[Ml] = NoThread /\ holder' = [holder EXCEPT ![Ml] = t]
        /\ phase' = [phase EXCEPT ![t] = IF @ = "woken" THEN "back" ELSE @]
    BY <1>2 DEF Relock, Regain, Give
  <1>4. phase' = [phase EXCEPT ![t] = "back"]
    BY <1>1, <1>3 DEF ClientInv, ACvTypeOK
  <1>5. Ml \in Locks /\ NoThread \notin Threads /\ holder'[Ml] = t
    BY <1>3, ACvAssumption, MWaitAssumption DEF ClientInv, ACvTypeOK
  <1>6. ACvTypeOK'
    BY <1>3, <1>4, <1>5 DEF ClientInv, ACvTypeOK, Phases
  <1>7. LockInv(t)' /\ WaitInv(t)'
    BY <1>1, <1>3, <1>4, <1>5 DEF ClientInv, ACvTypeOK, LockInv, WaitInv
  <1>8. ASSUME NEW u \in Threads \ {t}  PROVE LockInv(u)' /\ WaitInv(u)'
    <2>1. pc'[u] = pc[u] /\ phase'[u] = phase[u] /\ on'[u] = on[u]
      BY <1>3, <1>4 DEF ClientInv, ACvTypeOK
    <2> QED  BY <2>1, <1>3, <1>5 DEF ClientInv, LockInv, WaitInv
  <1> QED  BY <1>1, <1>3, <1>4, <1>6, <1>7, <1>8 DEF ClientInv

\* Each completion wakes one thread, or none, ...
LEMMA DoneWakes ==
  ASSUME ClientInv, NEW t \in Threads, NEW d, NEW o, Done(t, d, o)
  PROVE  Wakes /\ UNCHANGED <<holder, on, interrupted>> /\ Notify(t, IoComplete)
PROOF
  <1>1. Notify(t, IoComplete) /\ IoComplete \in CVars
    BY MWaitAssumption DEF Done, NotifiesDone
  <1> QED  BY <1>1, NotifyWakes

\* ... and so does the end of a group.
LEMMA TestForShutdownWakes ==
  ASSUME ClientInv, NEW t \in Threads, NEW n, TestForShutdown(t, n)
  PROVE  Wakes /\ UNCHANGED <<holder, on, interrupted>>
PROOF
  <1>1. CASE state = "stopping" /\ n = 0 /\ ready = << >> /\ table = {}
    <2>1. Notify(t, MwManage) /\ MwManage \in CVars
      BY <1>1, MWaitAssumption DEF TestForShutdown
    <2> QED  BY <2>1, NotifyWakes
  <1>2. CASE ~(state = "stopping" /\ n = 0 /\ ready = << >> /\ table = {})
    BY <1>2 DEF TestForShutdown, acvVars, Wakes, ClientInv, ACvTypeOK
  <1> QED  BY <1>1, <1>2

\* A step between two calls, by a thread that has the lock before and after it, or
\* neither before nor after.
LEMMA ContinueStep ==
  ASSUME ClientInv, NEW t \in Threads, NEW from, NEW to, Continue(t, from, to),
         \/ from \in InsidePcs /\ to \in InsidePcs
         \/ from \in OutsidePcs /\ to \in OutsidePcs
  PROVE  ClientInv'
PROOF
  <1>1. /\ phase[t] = "out" /\ GoTo(t, to) /\ pc[t] = from
        /\ UNCHANGED <<holder, on, phase, interrupted>>
    BY DEF Continue, At, acvVars
  <1>2. Wakes /\ interrupted' \in [Threads -> BOOLEAN]
    BY <1>1 DEF Wakes, ClientInv, ACvTypeOK
  <1> QED  BY <1>1, <1>2, ContinueKeepsClientInv

\* A wait that fails at once.
LEMMA WaitFailsStep ==
  ASSUME ClientInv, NEW t \in Threads, NEW c, NEW from \in InsidePcs,
         NEW to \in InsidePcs, WaitFails(t, c, from, to)
  PROVE  ClientInv'
PROOF
  <1>1. /\ phase[t] = "out" /\ GoTo(t, to) /\ pc[t] = from
        /\ UNCHANGED <<holder, on, phase>>
        /\ interrupted' = [interrupted EXCEPT ![t] = FALSE]
    BY DEF WaitFails, At, RefuseWait
  <1>2. Wakes /\ interrupted' \in [Threads -> BOOLEAN]
    BY <1>1 DEF Wakes, ClientInv, ACvTypeOK
  <1> QED  BY <1>1, <1>2, ContinueKeepsClientInv

LEMMA MwBeginsKeepsClientInv ==
  ASSUME ClientInv, NEW t \in Threads, MwBegins(t)
  PROVE  ClientInv'
PROOF
  <1>1. /\ "run" \in OutsidePcs
        /\ {"add", "mwUnlock", "wrTest", "wrRefused", "cancel", "cgTake", "cgWait"}
             \subseteq InsidePcs
    BY DEF OutsidePcs, InsidePcs
  <1>2. ASSUME NEW d \in Descs, AddWaitFileDesc(t, d)  PROVE ClientInv'
    <2>1. PICK to \in {"add", "mwUnlock"} : Lock(t, Ml, "run", to)
      BY <1>2 DEF AddWaitFileDesc
    <2> QED  BY <1>1, <2>1, LockKeepsClientInv
  <1>3. ASSUME NEW d \in Descs, CancelWaitFileDesc(t, d)  PROVE ClientInv'
    <2>1. PICK to \in {"cancel", "mwUnlock"} : Lock(t, Ml, "run", to)
      BY <1>3 DEF CancelWaitFileDesc
    <2> QED  BY <1>1, <2>1, LockKeepsClientInv
  <1>4. ASSUME WaitRecvReady(t)  PROVE ClientInv'
    <2>1. PICK to \in {"wrTest", "wrRefused"} : Lock(t, Ml, "run", to)
      BY <1>4 DEF WaitRecvReady
    <2> QED  BY <1>1, <2>1, LockKeepsClientInv
  <1>5. ASSUME CancelWaitGroup(t)  PROVE ClientInv'
    <2>1. PICK to \in {"cgTake", "cgWait"} : Lock(t, Ml, "run", to)
      BY <1>5 DEF CancelWaitGroup
    <2> QED  BY <1>1, <2>1, LockKeepsClientInv
  <1> QED  BY <1>2, <1>3, <1>4, <1>5 DEF MwBegins

\* The steps of PR_WaitRecvReady that do not poll.
LEMMA WaitRecvStepKeepsClientInv ==
  ASSUME ClientInv, NEW t \in Threads,
         \/ TakesReady(t) \/ Refused(t) \/ Leaves(t)
         \/ \E from \in LooksFrom : \/ BusinessWaits(t, from) \/ BusinessAborts(t, from)
                                    \/ LeavesPolling(t, from)
         \/ BusinessWoken(t) \/ IoWaits(t) \/ IoWoken(t) \/ IoInterrupted(t)
  PROVE  ClientInv'
PROOF
  <1>1. /\ {"wrTest", "wrComplete", "wrLeave", "wrBusiness", "wrRefused", "mwUnlock"}
             \subseteq InsidePcs
        /\ {"wrBusinessWait", "wrIoWait"} \subseteq BlockedPcs
        /\ LooksFrom \subseteq {"wrTest", "wrBusiness"}
        /\ NewBusiness \in Cvs /\ IoComplete \in Cvs
    BY DEF InsidePcs, BlockedPcs, LooksFrom, Cvs
  <1>2. ASSUME NEW from \in {"wrTest", "wrComplete"}, Takes(t, from)  PROVE ClientInv'
    BY <1>1, <1>2, ContinueStep DEF Takes
  <1>3. ASSUME NEW n, TestForShutdown(t, n), GoTo(t, "mwUnlock"),
               At(t, "wrRefused") \/ At(t, "wrLeave")
        PROVE  ClientInv'
    <2>1. Wakes /\ UNCHANGED <<holder, on, interrupted>>
      BY <1>3, TestForShutdownWakes
    <2>2. interrupted' \in [Threads -> BOOLEAN]
      BY <2>1 DEF ClientInv, ACvTypeOK
    <2> QED  BY <1>1, <1>3, <2>1, <2>2, ContinueKeepsClientInv DEF At
  <1>4. CASE Refused(t) \/ Leaves(t)
    BY <1>3, <1>4 DEF Refused, Leaves
  <1>5. ASSUME NEW from \in LooksFrom, BusinessWaits(t, from)  PROVE ClientInv'
    <2>1. CASE Wait(t, NewBusiness, from, "wrBusinessWait")
      BY <1>1, <2>1, WaitKeepsClientInv
    <2>2. CASE WaitFails(t, NewBusiness, from, "wrLeave")
      BY <1>1, <2>2, WaitFailsStep
    <2> QED  BY <1>5, <2>1, <2>2 DEF BusinessWaits
  <1>6. ASSUME NEW from \in LooksFrom, BusinessAborts(t, from) \/ LeavesPolling(t, from)
        PROVE  ClientInv'
    BY <1>1, <1>6, ContinueStep DEF BusinessAborts, LeavesPolling
  <1>7. CASE BusinessWoken(t)
    <2>1. PICK to \in {"wrLeave", "wrBusiness"} : WaitEnds(t, "wrBusinessWait", to)
      BY <1>7 DEF BusinessWoken
    <2> QED  BY <1>1, <2>1, WaitEndKeepsClientInv
  <1>8. CASE IoWaits(t)
    <2>1. CASE Wait(t, IoComplete, "wrComplete", "wrIoWait")
      BY <1>1, <2>1, WaitKeepsClientInv
    <2>2. CASE WaitFails(t, IoComplete, "wrComplete", "wrLeave")
      BY <1>1, <2>2, WaitFailsStep
    <2> QED  BY <1>8, <2>1, <2>2 DEF IoWaits
  <1>9. CASE IoWoken(t) \/ IoInterrupted(t)
    <2>1. PICK to \in {"wrLeave", "wrComplete"} : WaitEnds(t, "wrIoWait", to)
      BY <1>9 DEF IoWoken, IoInterrupted
    <2> QED  BY <1>1, <2>1, WaitEndKeepsClientInv
  <1>10. TakesReady(t) => ClientInv'
    BY <1>2 DEF TakesReady
  <1> QED  BY <1>4, <1>5, <1>6, <1>7, <1>8, <1>9, <1>10

\* The steps of _MW_PollInternal.
LEMMA PollStepKeepsClientInv ==
  ASSUME ClientInv, NEW t \in Threads,
         \/ \E from \in LooksFrom : PollInternal(t, from)
         \/ ScanBegins(t) \/ ScanEnds(t) \/ PollReturns(t) \/ PollFails(t)
         \/ PollLocks(t) \/ PollAgain(t) \/ PollEnds(t) \/ PollGivesUp(t)
         \/ \E d \in Descs : Expires(t, d) \/ Collects(t, d)
  PROVE  ClientInv'
PROOF
  <1>1. /\ {"wrTest", "wrBusiness", "pollScan", "pollCollect", "wrLeave"}
             \subseteq InsidePcs
        /\ {"pollTop", "polling", "pollBack", "pollFailed"} \subseteq OutsidePcs
        /\ LooksFrom \subseteq {"wrTest", "wrBusiness"}
    BY DEF InsidePcs, OutsidePcs, LooksFrom
  <1>2. ASSUME NEW from \in LooksFrom, PollInternal(t, from)  PROVE ClientInv'
    BY <1>1, <1>2, UnlockKeepsClientInv DEF PollInternal
  <1>3. CASE ScanBegins(t) \/ PollLocks(t) \/ PollGivesUp(t)
    BY <1>1, <1>3, LockKeepsClientInv DEF ScanBegins, PollLocks, PollGivesUp
  <1>4. CASE ScanEnds(t) \/ PollAgain(t)
    BY <1>1, <1>4, UnlockKeepsClientInv DEF ScanEnds, PollAgain
  <1>5. CASE PollReturns(t) \/ PollEnds(t)
    BY <1>1, <1>5, ContinueStep DEF PollReturns, PollEnds
  <1>6. CASE PollFails(t)
    <2>1. /\ phase[t] = "out" /\ pc[t] = "polling" /\ GoTo(t, "pollFailed")
          /\ UNCHANGED <<holder, on, phase>>
          /\ interrupted' = [interrupted EXCEPT ![t] = FALSE]
      BY <1>6 DEF PollFails, At, ClearInterrupt
    <2>2. Wakes /\ interrupted' \in [Threads -> BOOLEAN]
      BY <2>1 DEF Wakes, ClientInv, ACvTypeOK
    <2> QED  BY <1>1, <2>1, <2>2, ContinueKeepsClientInv
  <1>7. ASSUME NEW d \in Descs, Expires(t, d) \/ Collects(t, d)  PROVE ClientInv'
    <2>1. PICK o : Done(t, d, o)
      BY <1>7 DEF Expires, Collects
    <2>2. Wakes /\ UNCHANGED <<holder, on, interrupted, pc>>
      BY <1>7, <2>1, DoneWakes DEF Expires, Collects
    <2>3. interrupted' \in [Threads -> BOOLEAN]
      BY <2>2 DEF ClientInv, ACvTypeOK
    <2> QED  BY <2>2, <2>3, WakeKeepsClientInv
  <1> QED  BY <1>2, <1>3, <1>4, <1>5, <1>6, <1>7

\* The steps of the calls that add and cancel.
LEMMA ChangeStepKeepsClientInv ==
  ASSUME ClientInv, NEW t \in Threads,
         \/ AddsDesc(t) \/ Returns(t) \/ Cancels(t) \/ CancelWaits(t) \/ CancelWoken(t)
         \/ CancelMarked(t) \/ CancelTakes(t) \/ CancelFindsNone(t)
         \/ \E d \in Descs : CancelMarks(t, d)
  PROVE  ClientInv'
PROOF
  <1>1. /\ {"add", "mwUnlock", "cancel", "cgWait", "cgTake"} \subseteq InsidePcs
        /\ "run" \in OutsidePcs /\ "cgWaiting" \in BlockedPcs /\ MwManage \in Cvs
        /\ NewBusiness \in CVars
    BY MWaitAssumption DEF InsidePcs, OutsidePcs, BlockedPcs, Cvs
  <1>2. ASSUME NEW to \in InsidePcs, Wakes, UNCHANGED <<holder, on, interrupted>>,
               phase[t] = "out", pc[t] \in InsidePcs, GoTo(t, to)
        PROVE  ClientInv'
    <2>1. interrupted' \in [Threads -> BOOLEAN]
      BY <1>2 DEF ClientInv, ACvTypeOK
    <2> QED  BY <1>2, <2>1, ContinueKeepsClientInv
  <1>3. CASE AddsDesc(t)
    <2>1. Wakes /\ UNCHANGED <<holder, on, interrupted>>
      BY <1>1, <1>3, NotifyWakes DEF AddsDesc
    <2> QED  BY <1>1, <1>2, <1>3, <2>1 DEF AddsDesc, At
  <1>4. CASE Returns(t)
    BY <1>1, <1>4, UnlockKeepsClientInv DEF Returns
  <1>5. CASE Cancels(t)
    <2>1. Wakes /\ UNCHANGED <<holder, on, interrupted>>
      BY <1>5, DoneWakes DEF Cancels
    <2> QED  BY <1>1, <1>2, <1>5, <2>1 DEF Cancels, At
  <1>6. CASE CancelWaits(t)
    <2>1. CASE Wait(t, MwManage, "cgWait", "cgWaiting")
      BY <1>1, <2>1, WaitKeepsClientInv
    <2>2. CASE WaitFails(t, MwManage, "cgWait", "cgWait")
      BY <1>1, <2>2, WaitFailsStep
    <2> QED  BY <1>6, <2>1, <2>2 DEF CancelWaits
  <1>7. CASE CancelWoken(t)
    BY <1>1, <1>7, WaitEndKeepsClientInv DEF CancelWoken
  <1>8. CASE CancelMarked(t)
    <2>1. Wakes /\ UNCHANGED <<holder, on, interrupted>>
      BY <1>1, <1>8, NotifyAllWakes DEF CancelMarked
    <2> QED  BY <1>1, <1>2, <1>8, <2>1 DEF CancelMarked, At
  <1>9. CASE CancelTakes(t) \/ CancelFindsNone(t)
    BY <1>1, <1>9, ContinueStep DEF CancelTakes, CancelFindsNone
  <1>10. ASSUME NEW d \in Descs, CancelMarks(t, d)  PROVE ClientInv'
    <2>1. Wakes /\ UNCHANGED <<holder, on, interrupted, pc>>
      BY <1>10, DoneWakes DEF CancelMarks
    <2>2. interrupted' \in [Threads -> BOOLEAN]
      BY <2>1 DEF ClientInv, ACvTypeOK
    <2> QED  BY <2>1, <2>2, WakeKeepsClientInv
  <1> QED  BY <1>3, <1>4, <1>5, <1>6, <1>7, <1>8, <1>9, <1>10

LEMMA NextClientInv == ClientInv /\ [MwNext]_mwVars => ClientInv'
PROOF
  <1> SUFFICES ASSUME ClientInv, [MwNext]_mwVars  PROVE ClientInv'
    OBVIOUS
  <1>1. ASSUME NEW t \in Threads, MwBegins(t)  PROVE ClientInv'
    BY <1>1, MwBeginsKeepsClientInv
  <1>2. ASSUME NEW t \in Threads, MwGoesOn(t)  PROVE ClientInv'
    <2>1. CASE Relock(t)
      BY <2>1, RelockKeepsClientInv
    <2> QED  BY <1>2, <2>1, WaitRecvStepKeepsClientInv, PollStepKeepsClientInv,
                ChangeStepKeepsClientInv DEF MwGoesOn
  <1>3. ASSUME NEW t \in Threads, MwInterrupts(t)  PROVE ClientInv'
    BY <1>3, InterruptWakes, WakeKeepsClientInv DEF MwInterrupts
  <1>4. ASSUME NEW d \in Descs, Arrives(d)  PROVE ClientInv'
    BY <1>4 DEF Arrives, clientVars, acvVars, ClientInv, ACvTypeOK, LockInv, WaitInv
  <1>5. CASE UNCHANGED mwVars
    BY <1>5 DEF mwVars, clientVars, acvVars, ClientInv, ACvTypeOK, LockInv, WaitInv
  <1> QED  BY <1>1, <1>2, <1>3, <1>4, <1>5 DEF MwNext
-----------------------------------------------------------------------------
(* The fields of the group and the descriptors in hand.                    *)

Entries == [desc : Descs, outcome : Outcomes]

GroupTypes == /\ state \in {"running", "stopping", "stopped"}
              /\ poller \in Threads \cup {NoThread}
              /\ table \subseteq Descs /\ listed \subseteq Descs /\ flagged \subseteq Descs
              /\ ready \in Seq(Entries)
              /\ desc \in [Threads -> Descs \cup {NoDesc}]
              /\ free \subseteq Descs /\ arrived \subseteq Descs
              /\ reclaimed \in BOOLEAN /\ abandoned \in BOOLEAN

\* A thread has a descriptor in hand while it adds or cancels it, and when it
\* returns.
HandInv(t) == /\ pc[t] \in {"add", "cancel"} => desc[t] \in Descs
              /\ pc[t] \notin {"add", "cancel", "wrLeave", "mwUnlock"} => desc[t] = NoDesc

HandsInv == GroupTypes /\ \A t \in Threads : HandInv(t)

\* A thread moves on; the others stay.
Moves(t, to) == pc' = [pc EXCEPT ![t] = to]

\* Its descriptor is unchanged, or changes as the place says.
LEMMA MoveKeepsHands ==
  ASSUME ClientInv, HandsInv, GroupTypes', NEW t \in Threads, NEW to, Moves(t, to),
         \A u \in Threads \ {t} : desc'[u] = desc[u],
         to \in {"add", "cancel"} => desc'[t] \in Descs,
         to \notin {"add", "cancel", "wrLeave", "mwUnlock"} => desc'[t] = NoDesc
  PROVE  HandsInv'
PROOF
  <1>1. ASSUME NEW u \in Threads  PROVE HandInv(u)'
    BY <1>1 DEF Moves, ClientInv, HandsInv, HandInv
  <1> QED  BY <1>1 DEF HandsInv

LEMMA MwBeginsKeepsHands ==
  ASSUME ClientInv, HandsInv, NEW t \in Threads, MwBegins(t), UNCHANGED arrived
  PROVE  HandsInv'
PROOF
  <1> USE DEF Lock, At, GoTo, Moves, countVars, doneVars, pollVars, ownedVars
  <1>0. pc[t] = "run" => desc[t] = NoDesc
    BY DEF HandsInv, HandInv
  <1>1. ASSUME NEW d \in Descs, AddWaitFileDesc(t, d)  PROVE HandsInv'
    <2>1. GroupTypes'
      BY <1>1 DEF AddWaitFileDesc, HandsInv, GroupTypes
    <2>2. PICK to \in {"add", "mwUnlock"} : Moves(t, to)
      BY <1>1 DEF AddWaitFileDesc
    <2>3. desc'[t] = d /\ \A u \in Threads \ {t} : desc'[u] = desc[u]
      BY <1>1 DEF AddWaitFileDesc, HandsInv, GroupTypes
    <2> QED  BY <2>1, <2>2, <2>3, MoveKeepsHands
  <1>2. ASSUME NEW d \in Descs, CancelWaitFileDesc(t, d)  PROVE HandsInv'
    <2>1. GroupTypes'
      BY <1>2 DEF CancelWaitFileDesc, HandsInv, GroupTypes
    <2>2. Moves(t, IF Cancellable(d) THEN "cancel" ELSE "mwUnlock")
      BY <1>2 DEF CancelWaitFileDesc
    <2>3. /\ \A u \in Threads \ {t} : desc'[u] = desc[u]
          /\ Cancellable(d) => desc'[t] \in Descs
      BY <1>2 DEF CancelWaitFileDesc, HandsInv, GroupTypes
    <2> QED  BY <2>1, <2>2, <2>3, MoveKeepsHands
  <1>3. CASE WaitRecvReady(t)
    <2>1. GroupTypes' /\ desc' = desc /\ pc[t] = "run"
      BY <1>3 DEF WaitRecvReady, HandsInv, GroupTypes
    <2>2. PICK to \in {"wrTest", "wrRefused"} : Moves(t, to)
      BY <1>3 DEF WaitRecvReady
    <2> QED  BY <1>0, <2>1, <2>2, MoveKeepsHands
  <1>4. CASE CancelWaitGroup(t)
    <2>1. GroupTypes' /\ desc' = desc /\ pc[t] = "run"
      BY <1>4 DEF CancelWaitGroup, HandsInv, GroupTypes
    <2>2. PICK to \in {"cgTake", "cgWait"} : Moves(t, to)
      BY <1>4 DEF CancelWaitGroup
    <2> QED  BY <1>0, <2>1, <2>2, MoveKeepsHands
  <1> QED  BY <1>1, <1>2, <1>3, <1>4 DEF MwBegins

\* Completions go to the end of the list and are taken from its head.
LEMMA DoneTypes ==
  ASSUME HandsInv, NEW t \in Threads, NEW d \in Descs, NEW o \in Outcomes, Done(t, d, o)
  PROVE  ready' \in Seq(Entries) /\ table' = table \ {d}
PROOF
  <1>1. [desc |-> d, outcome |-> o] \in Entries
    BY DEF Entries
  <1>2. ready \in Seq(Entries)
    BY DEF HandsInv, GroupTypes
  <1> QED  BY <1>1, <1>2, AppendProperties DEF Done

LEMMA HeadOfReady ==
  ASSUME HandsInv, ready # << >>
  PROVE  Tail(ready) \in Seq(Entries) /\ Head(ready).desc \in Descs
PROOF
  <1>1. Tail(ready) \in Seq(Entries) /\ Head(ready) \in Entries
    BY HeadTailProperties DEF HandsInv, GroupTypes
  <1> QED  BY <1>1 DEF Entries

LEMMA WaitRecvStepKeepsHands ==
  ASSUME ClientInv, HandsInv, NEW t \in Threads,
         \/ TakesReady(t)
         \/ /\ \/ Refused(t) \/ Leaves(t)
               \/ \E from \in LooksFrom : \/ BusinessWaits(t, from)
                                          \/ BusinessAborts(t, from)
                                          \/ LeavesPolling(t, from)
               \/ BusinessWoken(t) \/ IoWaits(t) \/ IoWoken(t) \/ IoInterrupted(t)
            /\ UNCHANGED arrived
  PROVE  HandsInv'
PROOF
  <1> USE DEF At, GoTo, Moves, countVars, doneVars, pollVars, ownedVars, groupVars
  <1>0. /\ pc[t] \notin {"add", "cancel", "wrLeave", "mwUnlock"} => desc[t] = NoDesc
        /\ LooksFrom \subseteq {"wrTest", "wrBusiness"}
    BY DEF HandsInv, HandInv, LooksFrom
  <1>1. ASSUME NEW from \in {"wrTest", "wrComplete"}, Takes(t, from)  PROVE HandsInv'
    <2>1. /\ ready # << >> /\ Moves(t, "wrLeave") /\ ready' = Tail(ready)
          /\ desc' = [desc EXCEPT ![t] = Head(ready).desc]
          /\ arrived' \subseteq arrived /\ abandoned' \in BOOLEAN
          /\ UNCHANGED <<table, free, reclaimed, countVars, pollVars>>
      BY <1>1 DEF Takes, Continue
    <2>2. Tail(ready) \in Seq(Entries) /\ Head(ready).desc \in Descs
      BY <2>1, HeadOfReady
    <2>3. GroupTypes'
      BY <2>1, <2>2 DEF HandsInv, GroupTypes
    <2> QED  BY <2>1, <2>3, MoveKeepsHands DEF HandsInv, GroupTypes
  <1>2. CASE (Refused(t) \/ Leaves(t)) /\ UNCHANGED arrived
    <2>1. GroupTypes' /\ Moves(t, "mwUnlock") /\ desc' = desc
      BY <1>2 DEF Refused, Leaves, TestForShutdown, HandsInv, GroupTypes
    <2> QED  BY <2>1, MoveKeepsHands
  <1>3. ASSUME NEW from \in BlockedPcs \cup {"wrTest", "wrBusiness", "wrComplete"}, NEW to,
               pc[t] = from, Moves(t, to), to \notin {"add", "cancel"},
               UNCHANGED <<countVars, doneVars, pollVars, desc, free, reclaimed, arrived>>,
               abandoned' \in BOOLEAN
        PROVE  HandsInv'
    <2>1. GroupTypes' /\ desc' = desc /\ desc[t] = NoDesc
      BY <1>0, <1>3 DEF HandsInv, GroupTypes, BlockedPcs
    <2> QED  BY <1>3, <2>1, MoveKeepsHands
  <1>4. abandoned \in BOOLEAN
    BY DEF HandsInv, GroupTypes
  <1>5. ASSUME NEW from \in LooksFrom, UNCHANGED arrived,
               \/ BusinessWaits(t, from) \/ BusinessAborts(t, from)
               \/ LeavesPolling(t, from)
        PROVE  HandsInv'
    <2>1. PICK to \in {"wrBusinessWait", "wrLeave", "wrComplete"} :
            Moves(t, to) /\ pc[t] = from
      BY <1>5 DEF BusinessWaits, BusinessAborts, LeavesPolling, Wait, WaitFails, Continue
    <2>2. UNCHANGED groupVars
      BY <1>5 DEF BusinessWaits, BusinessAborts, LeavesPolling
    <2> QED  BY <1>0, <1>3, <1>4, <1>5, <2>1, <2>2
  <1>6. CASE BusinessWoken(t) /\ UNCHANGED arrived
    <2>1. PICK to \in {"wrBusiness", "wrLeave"} : Moves(t, to) /\ pc[t] = "wrBusinessWait"
      BY <1>6 DEF BusinessWoken, WaitEnds
    <2> QED  BY <1>3, <1>4, <1>6, <2>1 DEF BusinessWoken, BlockedPcs
  <1>7. CASE IoWaits(t) /\ UNCHANGED arrived
    <2>1. PICK to \in {"wrIoWait", "wrLeave"} : Moves(t, to) /\ pc[t] = "wrComplete"
      BY <1>7 DEF IoWaits, Wait, WaitFails
    <2> QED  BY <1>3, <1>4, <1>7, <2>1 DEF IoWaits
  <1>8. CASE (IoWoken(t) \/ IoInterrupted(t)) /\ UNCHANGED arrived
    <2>1. PICK to \in {"wrComplete", "wrLeave"} : Moves(t, to) /\ pc[t] = "wrIoWait"
      BY <1>8 DEF IoWoken, IoInterrupted, WaitEnds
    <2>2. /\ UNCHANGED <<countVars, doneVars, pollVars, desc, free, reclaimed>>
          /\ abandoned' \in BOOLEAN
      BY <1>4, <1>8 DEF IoWoken, IoInterrupted
    <2> QED  BY <1>3, <1>8, <2>1, <2>2 DEF BlockedPcs
  <1> QED  BY <1>1, <1>2, <1>5, <1>6, <1>7, <1>8 DEF TakesReady

LEMMA PollStepKeepsHands ==
  ASSUME ClientInv, HandsInv, NEW t \in Threads, UNCHANGED arrived,
         \/ \E from \in LooksFrom : PollInternal(t, from)
         \/ ScanBegins(t) \/ ScanEnds(t) \/ PollReturns(t) \/ PollFails(t)
         \/ PollLocks(t) \/ PollAgain(t) \/ PollEnds(t) \/ PollGivesUp(t)
         \/ \E d \in Descs : Expires(t, d) \/ Collects(t, d)
  PROVE  HandsInv'
PROOF
  <1> USE DEF At, GoTo, countVars, doneVars, pollVars, ownedVars, groupVars
  <1>0. /\ pc[t] \in OutsidePcs \cup {"wrTest", "wrBusiness", "pollScan", "pollCollect"}
             => desc[t] = NoDesc
        /\ LooksFrom \subseteq {"wrTest", "wrBusiness"}
    BY DEF HandsInv, HandInv, LooksFrom, OutsidePcs
  <1>1. ASSUME NEW to, Moves(t, to), to \notin {"add", "cancel"},
               pc[t] \in OutsidePcs \cup {"wrTest", "wrBusiness", "pollScan", "pollCollect"},
               poller' \in Threads \cup {NoThread}, listed' \subseteq Descs,
               flagged' \subseteq Descs, UNCHANGED <<countVars, doneVars, ownedVars>>
        PROVE  HandsInv'
    <2>1. GroupTypes' /\ desc' = desc /\ desc[t] = NoDesc
      BY <1>0, <1>1 DEF HandsInv, GroupTypes
    <2> QED  BY <1>1, <2>1, MoveKeepsHands
  <1>2. /\ poller \in Threads \cup {NoThread} /\ listed \subseteq Descs
        /\ flagged \subseteq Descs /\ table \subseteq Descs
    BY DEF HandsInv, GroupTypes
  <1>3. ASSUME NEW from \in LooksFrom, PollInternal(t, from)  PROVE HandsInv'
    <2>1. /\ Moves(t, "pollTop") /\ pc[t] = from
          /\ UNCHANGED <<listed, flagged, countVars, doneVars, ownedVars>> /\ poller' = t
      BY <1>3 DEF PollInternal, Unlock, Moves
    <2> QED  BY <1>0, <1>1, <1>2, <2>1
  <1>4. CASE ScanBegins(t) \/ PollLocks(t)
    <2>1. /\ Moves(t, "pollScan") \/ Moves(t, "pollCollect")
          /\ pc[t] \in OutsidePcs /\ UNCHANGED groupVars
      BY <1>4 DEF ScanBegins, PollLocks, Lock, OutsidePcs, Moves
    <2> QED  BY <1>1, <1>2, <2>1
  <1>5. CASE ScanEnds(t)
    <2>1. Moves(t, "polling") /\ pc[t] = "pollScan"
      BY <1>5 DEF ScanEnds, Unlock, Moves
    <2> QED  BY <1>1, <1>2, <1>5, <2>1 DEF ScanEnds, Listing
  <1>6. CASE PollReturns(t)
    <2>1. Moves(t, "pollBack") /\ pc[t] \in OutsidePcs
      BY <1>6 DEF PollReturns, Continue, Moves, OutsidePcs
    <2> QED  BY <1>1, <1>2, <1>6, <2>1 DEF PollReturns
  <1>7. CASE PollFails(t)
    <2>1. Moves(t, "pollFailed") /\ pc[t] \in OutsidePcs
      BY <1>7 DEF PollFails, Moves, OutsidePcs
    <2> QED  BY <1>1, <1>2, <1>7, <2>1 DEF PollFails
  <1>8. CASE PollAgain(t)
    <2>1. Moves(t, "pollTop") /\ pc[t] = "pollCollect"
      BY <1>8 DEF PollAgain, Unlock, Moves
    <2> QED  BY <1>1, <1>2, <1>8, <2>1 DEF PollAgain
  <1>9. CASE PollEnds(t)
    <2>1. Moves(t, "wrTest") /\ pc[t] \in {"pollScan", "pollCollect"}
      BY <1>9 DEF PollEnds, Continue, Moves
    <2> QED  BY <1>1, <1>2, <1>9, <2>1 DEF PollEnds
  <1>10. CASE PollGivesUp(t)
    <2>1. /\ Moves(t, "wrLeave") /\ pc[t] \in OutsidePcs /\ poller' = NoThread
          /\ UNCHANGED <<listed, flagged, countVars, doneVars, ownedVars>>
      BY <1>10 DEF PollGivesUp, Lock, OutsidePcs, GivesPollerUp, Moves
    <2> QED  BY <1>1, <1>2, <2>1
  <1>11. ASSUME NEW d \in Descs, Expires(t, d) \/ Collects(t, d)  PROVE HandsInv'
    <2>1. PICK o \in Outcomes : Done(t, d, o)
      BY <1>11 DEF Expires, Collects, Outcomes
    <2>2. ready' \in Seq(Entries) /\ table' = table \ {d}
      BY <2>1, DoneTypes
    <2>3. /\ flagged' \subseteq flagged
          /\ UNCHANGED <<pc, poller, listed, countVars, ownedVars>>
      BY <1>11 DEF Expires, Collects
    <2>4. GroupTypes'
      BY <2>2, <2>3 DEF HandsInv, GroupTypes
    <2> QED  BY <2>3, <2>4 DEF HandsInv, HandInv
  <1> QED  BY <1>3, <1>4, <1>5, <1>6, <1>7, <1>8, <1>9, <1>10, <1>11

LEMMA ChangeStepKeepsHands ==
  ASSUME ClientInv, HandsInv, NEW t \in Threads, UNCHANGED arrived,
         \/ AddsDesc(t) \/ Returns(t) \/ Cancels(t) \/ CancelWaits(t) \/ CancelWoken(t)
         \/ CancelMarked(t) \/ CancelTakes(t) \/ CancelFindsNone(t)
         \/ \E d \in Descs : CancelMarks(t, d)
  PROVE  HandsInv'
PROOF
  <1> USE DEF At, GoTo, Moves, countVars, doneVars, pollVars, ownedVars, groupVars
  <1>0. /\ pc[t] \in {"cgWait", "cgWaiting"} => desc[t] = NoDesc
        /\ pc[t] \in {"add", "cancel"} => desc[t] \in Descs
    BY DEF HandsInv, HandInv
  <1>1. CASE AddsDesc(t)
    <2>1. GroupTypes' /\ Moves(t, "mwUnlock") /\ \A u \in Threads \ {t} : desc'[u] = desc[u]
      BY <1>0, <1>1 DEF AddsDesc, HandsInv, GroupTypes
    <2> QED  BY <2>1, MoveKeepsHands
  <1>2. CASE Returns(t)
    <2>1. GroupTypes' /\ Moves(t, "run") /\ desc' = [desc EXCEPT ![t] = NoDesc]
      BY <1>2 DEF Returns, Unlock, HandsInv, GroupTypes
    <2> QED  BY <2>1, MoveKeepsHands DEF HandsInv, GroupTypes
  <1>3. CASE Cancels(t)
    <2>1. desc[t] \in Descs
      BY <1>0, <1>3 DEF Cancels
    <2>2. ready' \in Seq(Entries) /\ table' = table \ {desc[t]}
      BY <1>3, <2>1, DoneTypes DEF Cancels, Outcomes
    <2>3. GroupTypes' /\ Moves(t, "mwUnlock") /\ \A u \in Threads \ {t} : desc'[u] = desc[u]
      BY <1>3, <2>2 DEF Cancels, HandsInv, GroupTypes
    <2> QED  BY <2>3, MoveKeepsHands
  <1>4. CASE CancelWaits(t) \/ CancelWoken(t) \/ CancelMarked(t)
    <2>1. PICK to \in {"cgWait", "cgWaiting", "cgTake"} : Moves(t, to)
      BY <1>4 DEF CancelWaits, CancelWoken, CancelMarked, Wait, WaitFails, WaitEnds
    <2>2. pc[t] \in {"cgWait", "cgWaiting"} /\ UNCHANGED groupVars
      BY <1>4 DEF CancelWaits, CancelWoken, CancelMarked, Wait, WaitFails, WaitEnds
    <2>3. GroupTypes' /\ desc' = desc
      BY <2>2 DEF HandsInv, GroupTypes
    <2> QED  BY <1>0, <2>1, <2>2, <2>3, MoveKeepsHands
  <1>5. CASE CancelTakes(t)
    <2>1. /\ ready # << >> /\ Moves(t, "mwUnlock") /\ ready' = Tail(ready)
          /\ desc' = [desc EXCEPT ![t] = Head(ready).desc]
          /\ UNCHANGED <<table, free, reclaimed, abandoned, countVars, pollVars>>
      BY <1>5 DEF CancelTakes, Continue
    <2>2. Tail(ready) \in Seq(Entries) /\ Head(ready).desc \in Descs
      BY <2>1, HeadOfReady
    <2>3. GroupTypes'
      BY <2>1, <2>2 DEF HandsInv, GroupTypes
    <2> QED  BY <2>1, <2>3, MoveKeepsHands DEF HandsInv, GroupTypes
  <1>6. CASE CancelFindsNone(t)
    <2>1. GroupTypes' /\ Moves(t, "mwUnlock") /\ desc' = desc
      BY <1>6 DEF CancelFindsNone, Continue, HandsInv, GroupTypes
    <2> QED  BY <2>1, MoveKeepsHands
  <1>7. ASSUME NEW d \in Descs, CancelMarks(t, d)  PROVE HandsInv'
    <2>1. ready' \in Seq(Entries) /\ table' = table \ {d}
      BY <1>7, DoneTypes DEF CancelMarks, Outcomes
    <2>2. UNCHANGED <<pc, countVars, pollVars, ownedVars>>
      BY <1>7 DEF CancelMarks
    <2>3. GroupTypes'
      BY <2>1, <2>2 DEF HandsInv, GroupTypes
    <2> QED  BY <2>2, <2>3 DEF HandsInv, HandInv
  <1> QED  BY <1>1, <1>2, <1>3, <1>4, <1>5, <1>6, <1>7

LEMMA NextHandsInv == ClientInv /\ HandsInv /\ [MwNext]_mwVars => HandsInv'
PROOF
  <1> SUFFICES ASSUME ClientInv, HandsInv, [MwNext]_mwVars  PROVE HandsInv'
    OBVIOUS
  <1>1. ASSUME NEW t \in Threads, MwBegins(t), UNCHANGED arrived  PROVE HandsInv'
    BY <1>1, MwBeginsKeepsHands
  <1>2. ASSUME pc' = pc, UNCHANGED groupVars, arrived' \subseteq Descs  PROVE HandsInv'
    BY <1>2 DEF groupVars, countVars, doneVars, pollVars, ownedVars, HandsInv, GroupTypes,
                HandInv
  <1>3. arrived \subseteq Descs
    BY DEF HandsInv, GroupTypes
  <1>4. ASSUME NEW t \in Threads, MwGoesOn(t)  PROVE HandsInv'
    <2>1. CASE Relock(t) /\ UNCHANGED groupVars /\ UNCHANGED arrived
      BY <1>2, <1>3, <2>1 DEF Relock
    <2> QED  BY <1>4, <2>1, WaitRecvStepKeepsHands, PollStepKeepsHands,
                ChangeStepKeepsHands DEF MwGoesOn
  <1>5. ASSUME NEW t \in Threads, MwInterrupts(t)  PROVE HandsInv'
    BY <1>2, <1>3, <1>5 DEF MwInterrupts, InterruptThread
  <1>6. ASSUME NEW d \in Descs, Arrives(d)  PROVE HandsInv'
    BY <1>2, <1>3, <1>6 DEF Arrives, clientVars
  <1>7. CASE UNCHANGED mwVars
    BY <1>2, <1>3, <1>7 DEF mwVars, clientVars
  <1> QED  BY <1>1, <1>4, <1>5, <1>6, <1>7 DEF MwNext

-----------------------------------------------------------------------------
(* The poller and the count of waiting threads.                            *)

\* The threads that are counted.
Counted == {t \in Threads : pc[t] \in WaitPcs \cup PollPcs}

PollInv == OnePoller /\ Counted \subseteq Workers

\* pc says nothing but who polls and who waits.
LEMMA MoveKeepsPollInv ==
  ASSUME ClientInv, PollInv, NEW t \in Threads, NEW to, Moves(t, to),
         pc[t] \in PollPcs <=> to \in PollPcs, pc[t] \in WaitPcs <=> to \in WaitPcs,
         UNCHANGED <<poller, waiting>>
  PROVE  PollInv'
PROOF
  <1>1. \A u \in Threads : /\ pc'[u] \in PollPcs <=> pc[u] \in PollPcs
                           /\ pc'[u] \in WaitPcs <=> pc[u] \in WaitPcs
    BY DEF Moves, ClientInv
  <1>2. Counted' = Counted
    BY <1>1 DEF Counted
  <1>3. \A u \in Threads : pc'[u] \in PollPcs <=> poller' = u
    BY <1>1 DEF PollInv, OnePoller
  <1>4. waiting' = Cardinality(Counted')
    BY <1>2 DEF PollInv, OnePoller, Counted
  <1> QED  BY <1>2, <1>3, <1>4 DEF PollInv, OnePoller, Counted

\* A thread becomes the poller, or stops being it.
LEMMA PollerChanges ==
  ASSUME ClientInv, PollInv, NEW t \in Threads, NEW to, Moves(t, to), UNCHANGED waiting,
         \/ pc[t] \in WaitPcs /\ to \in PollPcs /\ poller = NoThread /\ poller' = t
         \/ pc[t] \in PollPcs /\ to \in WaitPcs /\ poller' = NoThread
  PROVE  PollInv'
PROOF
  <1>0. NoThread \notin Threads /\ WaitPcs \cap PollPcs = {}
    BY ACvAssumption DEF WaitPcs, PollPcs
  <1>1. \A u \in Threads :
          /\ pc'[u] \in WaitPcs \cup PollPcs <=> pc[u] \in WaitPcs \cup PollPcs
          /\ u # t => pc'[u] = pc[u]
    BY DEF Moves, ClientInv
  <1>2. Counted' = Counted
    BY <1>1 DEF Counted
  <1>3. pc'[t] = to
    BY DEF Moves, ClientInv
  <1>4. ASSUME NEW u \in Threads  PROVE pc'[u] \in PollPcs <=> poller' = u
    <2>1. CASE u = t
      BY <1>0, <1>3, <2>1
    <2>2. CASE u # t
      <3>1. pc[u] \notin PollPcs
        BY <1>0, <2>2 DEF PollInv, OnePoller
      <3> QED  BY <1>0, <1>1, <2>2, <3>1
    <2> QED  BY <2>1, <2>2
  <1>5. waiting' = Cardinality(Counted')
    BY <1>2 DEF PollInv, OnePoller, Counted
  <1> QED  BY <1>2, <1>4, <1>5 DEF PollInv, OnePoller, Counted

\* A worker is counted, or is not any more.
LEMMA CountChanges ==
  ASSUME ClientInv, PollInv, NEW t \in Threads, NEW to, Moves(t, to), UNCHANGED poller,
         to \notin PollPcs, pc[t] \notin PollPcs,
         \/ /\ pc[t] \notin WaitPcs /\ to \in WaitPcs /\ t \in Workers
            /\ waiting' = waiting + 1
         \/ pc[t] \in WaitPcs /\ to \notin WaitPcs /\ waiting' = waiting - 1
  PROVE  PollInv'
PROOF
  <1>1. pc'[t] = to /\ \A u \in Threads : u # t => pc'[u] = pc[u]
    BY DEF Moves, ClientInv
  <1>2. \A u \in Threads : pc'[u] \in PollPcs <=> poller' = u
    BY <1>1 DEF PollInv, OnePoller
  <1>3. IsFiniteSet(Counted) /\ waiting = Cardinality(Counted)
    BY FS_Subset, MWaitAssumption DEF PollInv, OnePoller, Counted
  <1>4. CASE pc[t] \notin WaitPcs /\ to \in WaitPcs /\ t \in Workers /\ waiting' = waiting + 1
    <2>1. Counted' = Counted \cup {t} /\ t \notin Counted
      BY <1>1, <1>4 DEF Counted
    <2>2. waiting' = Cardinality(Counted')
      BY <1>3, <1>4, <2>1, FS_AddElement
    <2> QED  BY <1>2, <1>4, <2>1, <2>2 DEF PollInv, OnePoller, Counted
  <1>5. CASE pc[t] \in WaitPcs /\ to \notin WaitPcs /\ waiting' = waiting - 1
    <2>1. Counted' = Counted \ {t} /\ t \in Counted
      BY <1>1, <1>5 DEF Counted
    <2>2. waiting' = Cardinality(Counted')
      BY <1>3, <1>5, <2>1, FS_RemoveElement
    <2> QED  BY <1>2, <1>5, <2>1, <2>2 DEF PollInv, OnePoller, Counted
  <1> QED  BY <1>4, <1>5

LEMMA MwBeginsKeepsPollInv ==
  ASSUME ClientInv, PollInv, NEW t \in Threads, MwBegins(t)
  PROVE  PollInv'
PROOF
  <1> USE DEF Lock, At, GoTo, countVars, pollVars
  <1>0. /\ "run" \notin WaitPcs \cup PollPcs /\ "wrTest" \in WaitPcs /\ "wrTest" \notin PollPcs
        /\ {"wrRefused", "add", "cancel", "mwUnlock", "cgTake", "cgWait"}
             \cap (WaitPcs \cup PollPcs) = {}
    BY DEF WaitPcs, PollPcs
  <1>1. CASE \E d \in Descs : AddWaitFileDesc(t, d) \/ CancelWaitFileDesc(t, d)
    <2>1. PICK to \in {"add", "cancel", "mwUnlock"} : Moves(t, to) /\ pc[t] = "run"
      BY <1>1 DEF AddWaitFileDesc, CancelWaitFileDesc, Moves
    <2> QED  BY <1>0, <1>1, <2>1, MoveKeepsPollInv DEF AddWaitFileDesc, CancelWaitFileDesc
  <1>2. CASE WaitRecvReady(t) /\ t \in Workers /\ state = "running"
    <2>1. Moves(t, "wrTest") /\ pc[t] = "run" /\ waiting' = waiting + 1
      BY <1>2 DEF WaitRecvReady, Moves
    <2> QED  BY <1>0, <1>2, <2>1, CountChanges DEF WaitRecvReady
  <1>3. CASE WaitRecvReady(t) /\ state # "running"
    <2>1. Moves(t, "wrRefused") /\ pc[t] = "run" /\ waiting' = waiting
      BY <1>3 DEF WaitRecvReady, Moves
    <2> QED  BY <1>0, <1>3, <2>1, MoveKeepsPollInv DEF WaitRecvReady
  <1>4. CASE CancelWaitGroup(t)
    <2>1. PICK to \in {"cgTake", "cgWait"} : Moves(t, to) /\ pc[t] = "run"
      BY <1>4 DEF CancelWaitGroup, Moves
    <2> QED  BY <1>0, <1>4, <2>1, MoveKeepsPollInv DEF CancelWaitGroup
  <1> QED  BY <1>1, <1>2, <1>3, <1>4 DEF MwBegins

LEMMA WaitRecvStepKeepsPollInv ==
  ASSUME ClientInv, PollInv, NEW t \in Threads,
         \/ TakesReady(t) \/ Refused(t) \/ Leaves(t)
         \/ \E from \in LooksFrom : \/ BusinessWaits(t, from) \/ BusinessAborts(t, from)
                                    \/ LeavesPolling(t, from)
         \/ BusinessWoken(t) \/ IoWaits(t) \/ IoWoken(t) \/ IoInterrupted(t)
  PROVE  PollInv'
PROOF
  <1> USE DEF At, GoTo, countVars, pollVars, groupVars
  <1>0. /\ WaitPcs \cap PollPcs = {} /\ "mwUnlock" \notin WaitPcs \cup PollPcs
        /\ "wrRefused" \notin WaitPcs \cup PollPcs /\ "wrLeave" \in WaitPcs
        /\ LooksFrom \subseteq WaitPcs
    BY DEF WaitPcs, PollPcs, LooksFrom
  <1>1. ASSUME NEW to \in WaitPcs, Moves(t, to), pc[t] \in WaitPcs,
               UNCHANGED <<poller, waiting>>
        PROVE  PollInv'
    BY <1>0, <1>1, MoveKeepsPollInv
  <1>2. CASE TakesReady(t)
    <2>1. Moves(t, "wrLeave") /\ pc[t] \in WaitPcs /\ UNCHANGED <<poller, waiting>>
      BY <1>2 DEF TakesReady, Takes, Continue, Moves, WaitPcs
    <2> QED  BY <1>0, <1>1, <2>1
  <1>3. CASE Refused(t)
    <2>1. Moves(t, "mwUnlock") /\ pc[t] = "wrRefused" /\ UNCHANGED <<poller, waiting>>
      BY <1>3 DEF Refused, Moves
    <2> QED  BY <1>0, <2>1, MoveKeepsPollInv
  <1>4. CASE Leaves(t)
    <2>1. /\ Moves(t, "mwUnlock") /\ pc[t] = "wrLeave" /\ UNCHANGED poller
          /\ waiting' = waiting - 1
      BY <1>4 DEF Leaves, Moves
    <2> QED  BY <1>0, <2>1, CountChanges
  <1>5. ASSUME NEW from \in LooksFrom,
               BusinessWaits(t, from) \/ BusinessAborts(t, from) \/ LeavesPolling(t, from)
        PROVE  PollInv'
    <2>1. PICK to \in {"wrBusinessWait", "wrLeave", "wrComplete"} :
            Moves(t, to) /\ pc[t] = from
      BY <1>5 DEF BusinessWaits, BusinessAborts, LeavesPolling, Wait, WaitFails, Continue,
                  Moves
    <2>2. UNCHANGED <<poller, waiting>>
      BY <1>5 DEF BusinessWaits, BusinessAborts, LeavesPolling
    <2> QED  BY <1>0, <1>1, <2>1, <2>2 DEF WaitPcs
  <1>6. CASE BusinessWoken(t) \/ IoWaits(t) \/ IoWoken(t) \/ IoInterrupted(t)
    <2>1. PICK to \in WaitPcs : Moves(t, to) /\ pc[t] \in WaitPcs
      BY <1>6 DEF BusinessWoken, IoWaits, IoWoken, IoInterrupted, Wait, WaitFails,
                  WaitEnds, Moves, WaitPcs
    <2>2. UNCHANGED <<poller, waiting>>
      BY <1>6 DEF BusinessWoken, IoWaits, IoWoken, IoInterrupted
    <2> QED  BY <1>1, <2>1, <2>2
  <1> QED  BY <1>2, <1>3, <1>4, <1>5, <1>6

LEMMA PollStepKeepsPollInv ==
  ASSUME ClientInv, PollInv, NEW t \in Threads,
         \/ \E from \in LooksFrom : PollInternal(t, from)
         \/ ScanBegins(t) \/ ScanEnds(t) \/ PollReturns(t) \/ PollFails(t)
         \/ PollLocks(t) \/ PollAgain(t) \/ PollEnds(t) \/ PollGivesUp(t)
         \/ \E d \in Descs : Expires(t, d) \/ Collects(t, d)
  PROVE  PollInv'
PROOF
  <1> USE DEF At, GoTo, countVars, pollVars, groupVars
  <1>0. /\ WaitPcs \cap PollPcs = {} /\ {"wrLeave", "wrTest"} \subseteq WaitPcs
        /\ "pollTop" \in PollPcs /\ LooksFrom \subseteq WaitPcs
    BY DEF WaitPcs, PollPcs, LooksFrom
  <1>1. ASSUME NEW from \in LooksFrom, PollInternal(t, from)  PROVE PollInv'
    <2>1. /\ Moves(t, "pollTop") /\ pc[t] \in WaitPcs /\ poller = NoThread
          /\ poller' = t /\ UNCHANGED waiting
      BY <1>0, <1>1 DEF PollInternal, Unlock, Moves
    <2> QED  BY <1>0, <2>1, PollerChanges
  <1>2. CASE \/ ScanBegins(t) \/ ScanEnds(t) \/ PollReturns(t) \/ PollFails(t)
             \/ PollLocks(t) \/ PollAgain(t)
    <2>1. PICK to \in PollPcs : Moves(t, to) /\ pc[t] \in PollPcs
      BY <1>2 DEF ScanBegins, ScanEnds, PollReturns, PollFails, PollLocks, PollAgain,
                  Lock, Unlock, Continue, Moves, PollPcs
    <2>2. UNCHANGED <<poller, waiting>>
      BY <1>2 DEF ScanBegins, ScanEnds, PollReturns, PollFails, PollLocks, PollAgain
    <2> QED  BY <1>0, <2>1, <2>2, MoveKeepsPollInv
  <1>3. CASE PollEnds(t) \/ PollGivesUp(t)
    <2>1. PICK to \in {"wrTest", "wrLeave"} : Moves(t, to) /\ pc[t] \in PollPcs
      BY <1>3 DEF PollEnds, PollGivesUp, Lock, Continue, Moves, PollPcs
    <2>2. poller' = NoThread /\ UNCHANGED waiting
      BY <1>3 DEF PollEnds, PollGivesUp, GivesPollerUp
    <2> QED  BY <1>0, <2>1, <2>2, PollerChanges
  <1>4. CASE \E d \in Descs : Expires(t, d) \/ Collects(t, d)
    BY <1>4 DEF Expires, Collects, PollInv, OnePoller, Counted
  <1> QED  BY <1>1, <1>2, <1>3, <1>4

LEMMA ChangeStepKeepsPollInv ==
  ASSUME ClientInv, PollInv, NEW t \in Threads,
         \/ AddsDesc(t) \/ Returns(t) \/ Cancels(t) \/ CancelWaits(t) \/ CancelWoken(t)
         \/ CancelMarked(t) \/ CancelTakes(t) \/ CancelFindsNone(t)
         \/ \E d \in Descs : CancelMarks(t, d)
  PROVE  PollInv'
PROOF
  <1> USE DEF At, GoTo, countVars, pollVars, groupVars
  <1> DEFINE Away == {"run", "add", "mwUnlock", "cancel", "cgWait", "cgWaiting", "cgTake"}
  <1>0. Away \cap (WaitPcs \cup PollPcs) = {}
    BY DEF WaitPcs, PollPcs
  <1>1. CASE \/ AddsDesc(t) \/ Returns(t) \/ Cancels(t) \/ CancelWaits(t) \/ CancelWoken(t)
             \/ CancelMarked(t) \/ CancelTakes(t) \/ CancelFindsNone(t)
    <2>1. PICK to \in Away : Moves(t, to) /\ pc[t] \in Away
      BY <1>1 DEF AddsDesc, Returns, Cancels, CancelWaits, CancelWoken, CancelMarked,
                  CancelTakes, CancelFindsNone, Unlock, Wait, WaitFails, WaitEnds, Continue,
                  Moves
    <2>2. UNCHANGED <<poller, waiting>>
      BY <1>1 DEF AddsDesc, Returns, Cancels, CancelWaits, CancelWoken, CancelMarked,
                  CancelTakes, CancelFindsNone
    <2> QED  BY <1>0, <2>1, <2>2, MoveKeepsPollInv
  <1>2. CASE \E d \in Descs : CancelMarks(t, d)
    BY <1>2 DEF CancelMarks, PollInv, OnePoller, Counted
  <1> QED  BY <1>1, <1>2

LEMMA NextPollInv == ClientInv /\ PollInv /\ [MwNext]_mwVars => PollInv'
PROOF
  <1> SUFFICES ASSUME ClientInv, PollInv, [MwNext]_mwVars  PROVE PollInv'
    OBVIOUS
  <1>1. ASSUME NEW t \in Threads, MwBegins(t)  PROVE PollInv'
    BY <1>1, MwBeginsKeepsPollInv
  <1>2. ASSUME UNCHANGED <<pc, poller, waiting>>  PROVE PollInv'
    BY <1>2 DEF PollInv, OnePoller, Counted
  <1>3. ASSUME NEW t \in Threads, MwGoesOn(t)  PROVE PollInv'
    <2>1. CASE Relock(t) /\ UNCHANGED groupVars
      BY <1>2, <2>1 DEF Relock, groupVars, countVars, pollVars
    <2> QED  BY <1>3, <2>1, WaitRecvStepKeepsPollInv, PollStepKeepsPollInv,
                ChangeStepKeepsPollInv DEF MwGoesOn
  <1>4. ASSUME NEW t \in Threads, MwInterrupts(t)  PROVE PollInv'
    BY <1>2, <1>4 DEF MwInterrupts, InterruptThread, groupVars, countVars, pollVars
  <1>5. ASSUME NEW d \in Descs, Arrives(d)  PROVE PollInv'
    BY <1>2, <1>5 DEF Arrives, clientVars, groupVars, countVars, pollVars
  <1>6. CASE UNCHANGED mwVars
    BY <1>2, <1>6 DEF mwVars, clientVars, groupVars, countVars, pollVars
  <1> QED  BY <1>1, <1>3, <1>4, <1>5, <1>6 DEF MwNext

-----------------------------------------------------------------------------
(* The end of a group.                                                     *)

\* A stopped group has nobody who waits, and what is left in its table is about to
\* be marked by a thread with the lock; nobody adds or cancels any more.
QuietInv == /\ state = "stopped" => waiting = 0
            /\ state = "stopped" /\ table # {} => \E t \in Threads : pc[t] = "cgWait"
            /\ reclaimed => state = "stopped" /\ table = {} /\ ready = << >>
            /\ \A t \in Threads : /\ pc[t] \in {"add", "cancel"} => state = "running"
                                  /\ pc[t] = "cancel" => desc[t] \in table
                                  /\ pc[t] = "cgTake" => state = "stopped"

\* Nobody but t is in the group's lock.
Alone(t) == \A u \in Threads \ {t} : pc[u] \notin InsidePcs

LEMMA InsideAlone ==
  ASSUME ClientInv, NEW t \in Threads,
         pc[t] \in InsidePcs \/ holder[Ml] = NoThread \/ phase[t] = "back"
  PROVE  Alone(t)
PROOF
  BY ACvAssumption DEF ClientInv, LockInv, Alone

LEMMA WaitersAreCounted ==
  ASSUME PollInv, waiting = 0, NEW t \in Threads
  PROVE  pc[t] \notin WaitPcs \cup PollPcs
PROOF
  <1>1. IsFiniteSet(Counted) /\ waiting = Cardinality(Counted)
    BY FS_Subset, MWaitAssumption DEF PollInv, OnePoller, Counted
  <1>2. Counted = {}
    BY <1>1, FS_EmptySet
  <1> QED  BY <1>2 DEF Counted

\* What a thread with the lock, or on its way to it, has to see to.
LEMMA AloneKeepsQuiet ==
  ASSUME ClientInv, NEW t \in Threads, NEW to, Moves(t, to), Alone(t),
         state' = "stopped" => waiting' = 0,
         state' = "stopped" /\ table' # {} => to = "cgWait",
         reclaimed' => state' = "stopped" /\ table' = {} /\ ready' = << >>,
         to \in {"add", "cancel"} => state' = "running",
         to = "cancel" => desc'[t] \in table',
         to = "cgTake" => state' = "stopped"
  PROVE  QuietInv'
PROOF
  <1>1. pc'[t] = to /\ \A u \in Threads \ {t} : pc'[u] = pc[u]
    BY DEF Moves, ClientInv
  <1>2. \A u \in Threads \ {t} : pc'[u] \notin {"add", "cancel", "cgTake"}
    BY <1>1 DEF Alone, InsidePcs
  <1> QED  BY <1>1, <1>2 DEF QuietInv

\* A step that leaves the end of the group as it is.
LEMMA MoveKeepsQuiet ==
  ASSUME ClientInv, QuietInv, NEW t \in Threads, NEW to, Moves(t, to), Alone(t),
         pc[t] # "cgWait", to \notin {"add", "cancel", "cgTake"},
         UNCHANGED <<state, table, reclaimed>>,
         waiting' = waiting \/ state = "running",
         ready' = ready \/ ready # << >>
  PROVE  QuietInv'
PROOF
  <1>1. state = "stopped" => table = {}
    BY DEF QuietInv, Alone, InsidePcs
  <1>2. reclaimed' => state' = "stopped" /\ table' = {} /\ ready' = << >>
    BY DEF QuietInv
  <1>3. state' = "stopped" => waiting' = 0
    BY DEF QuietInv
  <1> QED  BY <1>1, <1>2, <1>3, AloneKeepsQuiet

\* A step of a thread without the lock.
LEMMA OutsideKeepsQuiet ==
  ASSUME ClientInv, QuietInv, NEW t \in Threads, NEW to \in OutsidePcs, Moves(t, to),
         pc[t] \in OutsidePcs, UNCHANGED <<state, waiting, table, ready, desc, reclaimed>>
  PROVE  QuietInv'
PROOF
  <1>1. pc'[t] = to /\ \A u \in Threads \ {t} : pc'[u] = pc[u]
    BY DEF Moves, ClientInv
  <1>2. \A u \in Threads : \A l \in InsidePcs : pc'[u] = l <=> pc[u] = l
    BY <1>1 DEF InsidePcs, OutsidePcs
  <1>3. {"add", "cancel", "cgTake", "cgWait"} \subseteq InsidePcs
    BY DEF InsidePcs
  <1>4. \A u \in Threads : /\ pc'[u] \in {"add", "cancel"} <=> pc[u] \in {"add", "cancel"}
                           /\ pc'[u] = "cancel" <=> pc[u] = "cancel"
                           /\ pc'[u] = "cgTake" <=> pc[u] = "cgTake"
                           /\ pc'[u] = "cgWait" <=> pc[u] = "cgWait"
    BY <1>2, <1>3
  <1> QED  BY <1>4 DEF QuietInv

LEMMA MwBeginsKeepsQuiet ==
  ASSUME ClientInv, HandsInv, QuietInv, NEW t \in Threads, MwBegins(t)
  PROVE  QuietInv'
PROOF
  <1> USE DEF Lock, At, GoTo, countVars, doneVars, ownedVars
  <1>0. MwBegins(t) => Alone(t) /\ pc[t] = "run"
    <2>1. MwBegins(t) => holder[Ml] = NoThread /\ pc[t] = "run"
      BY DEF MwBegins, AddWaitFileDesc, CancelWaitFileDesc, WaitRecvReady, CancelWaitGroup,
             Take, Give
    <2> QED  BY <2>1, InsideAlone
  <1>1. /\ state = "stopped" => waiting = 0 /\ table = {}
        /\ reclaimed => state = "stopped" /\ table = {} /\ ready = << >>
    BY <1>0 DEF QuietInv, Alone, InsidePcs
  <1>2. ASSUME NEW d \in Descs, AddWaitFileDesc(t, d)  PROVE QuietInv'
    <2>1. /\ UNCHANGED <<reclaimed, state, waiting, table, ready>>
          /\ Moves(t, IF state = "running" THEN "add" ELSE "mwUnlock")
      BY <1>2 DEF AddWaitFileDesc, Moves, MayAdd
    <2> QED  BY <1>0, <1>1, <2>1, AloneKeepsQuiet
  <1>3. ASSUME NEW d \in Descs, CancelWaitFileDesc(t, d)  PROVE QuietInv'
    <2>1. /\ UNCHANGED <<reclaimed, state, waiting, table, ready>>
          /\ Moves(t, IF Cancellable(d) THEN "cancel" ELSE "mwUnlock")
          /\ Cancellable(d) => desc'[t] = d
      BY <1>3 DEF CancelWaitFileDesc, Moves, HandsInv, GroupTypes
    <2>2. Cancellable(d) => state = "running" /\ d \in table
      BY DEF Cancellable
    <2> QED  BY <1>0, <1>1, <2>1, <2>2, AloneKeepsQuiet
  <1>4. CASE WaitRecvReady(t)
    <2>1. /\ UNCHANGED <<reclaimed, state, table, ready>>
          /\ waiting' = IF state = "running" THEN waiting + 1 ELSE waiting
      BY <1>4 DEF WaitRecvReady
    <2>2. PICK to \in {"wrTest", "wrRefused"} : Moves(t, to)
      BY <1>4 DEF WaitRecvReady, Moves
    <2> QED  BY <1>0, <2>1, <2>2, MoveKeepsQuiet
  <1>5. CASE CancelWaitGroup(t)
    <2>1. /\ UNCHANGED <<reclaimed, waiting, table, ready>>
          /\ Moves(t, IF state = "stopped" THEN "cgTake" ELSE "cgWait")
          /\ state' = IF waiting = 0 THEN "stopped"
                      ELSE IF state = "running" THEN "stopping" ELSE state
      BY <1>5 DEF CancelWaitGroup, Moves
    <2> QED  BY <1>0, <1>1, <2>1, AloneKeepsQuiet
  <1> QED  BY <1>2, <1>3, <1>4, <1>5 DEF MwBegins

LEMMA WaitRecvStepKeepsQuiet ==
  ASSUME ClientInv, HandsInv, PollInv, QuietInv, NEW t \in Threads,
         \/ TakesReady(t) \/ Refused(t) \/ Leaves(t)
         \/ \E from \in LooksFrom : \/ BusinessWaits(t, from) \/ BusinessAborts(t, from)
                                    \/ LeavesPolling(t, from)
         \/ BusinessWoken(t) \/ IoWaits(t) \/ IoWoken(t) \/ IoInterrupted(t)
  PROVE  QuietInv'
PROOF
  <1> USE DEF At, GoTo, countVars, doneVars, ownedVars, groupVars
  <1>1. /\ {"wrTest", "wrBusiness", "wrComplete", "wrLeave", "wrRefused"} \subseteq InsidePcs
        /\ LooksFrom \subseteq {"wrTest", "wrBusiness"}
    BY DEF InsidePcs, LooksFrom
  <1>2. ASSUME NEW to \in WaitPcs, Moves(t, to), Alone(t), pc[t] \in WaitPcs,
               UNCHANGED <<state, waiting, table, reclaimed>>,
               ready' = ready \/ ready # << >>
        PROVE  QuietInv'
    <2>1. pc[t] # "cgWait" /\ to \notin {"add", "cancel", "cgTake"}
      BY <1>2 DEF WaitPcs
    <2> QED  BY <1>2, <2>1, MoveKeepsQuiet
  <1>3. CASE TakesReady(t)
    <2>1. /\ Moves(t, "wrLeave") /\ pc[t] \in {"wrTest", "wrComplete"} /\ ready # << >>
          /\ UNCHANGED <<state, waiting, table, reclaimed>>
      BY <1>3 DEF TakesReady, Takes, Continue, Moves
    <2> QED  BY <1>1, <1>2, <2>1, InsideAlone DEF WaitPcs
  <1>4. CASE Refused(t)
    <2>1. /\ Moves(t, "mwUnlock") /\ pc[t] = "wrRefused"
          /\ UNCHANGED <<waiting, table, ready, reclaimed>>
          /\ \/ state' = state
             \/ state' = "stopped" /\ waiting = 0 /\ table = {} /\ ready = << >>
      BY <1>4 DEF Refused, TestForShutdown, Moves
    <2>2. Alone(t)
      BY <1>1, <2>1, InsideAlone
    <2>3. CASE state' = state
      BY <2>1, <2>2, <2>3, MoveKeepsQuiet
    <2>4. CASE state' = "stopped" /\ waiting = 0 /\ table = {} /\ ready = << >>
      BY <2>1, <2>2, <2>4, AloneKeepsQuiet
    <2> QED  BY <2>1, <2>3, <2>4
  <1>5. CASE Leaves(t)
    <2>1. /\ Moves(t, "mwUnlock") /\ pc[t] = "wrLeave" /\ waiting' = waiting - 1
          /\ UNCHANGED <<table, ready, reclaimed>>
          /\ \/ state' = state
             \/ state' = "stopped" /\ waiting' = 0 /\ table = {} /\ ready = << >>
      BY <1>5 DEF Leaves, TestForShutdown, Moves
    <2>2. Alone(t)
      BY <1>1, <2>1, InsideAlone
    <2>3. state # "stopped" /\ ~reclaimed
      <3>1. waiting # 0
        BY <2>1, WaitersAreCounted DEF WaitPcs
      <3> QED  BY <3>1 DEF QuietInv
    <2> QED  BY <2>1, <2>2, <2>3, AloneKeepsQuiet
  <1>6. ASSUME NEW from \in LooksFrom,
               BusinessWaits(t, from) \/ BusinessAborts(t, from) \/ LeavesPolling(t, from)
        PROVE  QuietInv'
    <2>1. PICK to \in {"wrBusinessWait", "wrLeave", "wrComplete"} :
            Moves(t, to) /\ pc[t] = from
      BY <1>6 DEF BusinessWaits, BusinessAborts, LeavesPolling, Wait, WaitFails, Continue,
                  Moves
    <2>2. UNCHANGED <<state, waiting, table, ready, reclaimed>>
      BY <1>6 DEF BusinessWaits, BusinessAborts, LeavesPolling
    <2> QED  BY <1>1, <1>2, <2>1, <2>2, InsideAlone DEF WaitPcs
  <1>7. CASE BusinessWoken(t) \/ IoWaits(t) \/ IoWoken(t) \/ IoInterrupted(t)
    <2>1. PICK to \in WaitPcs : Moves(t, to) /\ pc[t] \in WaitPcs
      BY <1>7 DEF BusinessWoken, IoWaits, IoWoken, IoInterrupted, Wait, WaitFails,
                  WaitEnds, Moves, WaitPcs
    <2>2. UNCHANGED <<state, waiting, table, ready, reclaimed>>
      BY <1>7 DEF BusinessWoken, IoWaits, IoWoken, IoInterrupted
    <2>3. pc[t] \in InsidePcs \/ phase[t] = "back"
      BY <1>1, <1>7 DEF BusinessWoken, IoWaits, IoWoken, IoInterrupted, Wait, WaitFails,
                        WaitEnds, EndWait
    <2> QED  BY <1>2, <2>1, <2>2, <2>3, InsideAlone
  <1> QED  BY <1>3, <1>4, <1>5, <1>6, <1>7

LEMMA PollStepKeepsQuiet ==
  ASSUME ClientInv, HandsInv, PollInv, QuietInv, NEW t \in Threads,
         \/ \E from \in LooksFrom : PollInternal(t, from)
         \/ ScanBegins(t) \/ ScanEnds(t) \/ PollReturns(t) \/ PollFails(t)
         \/ PollLocks(t) \/ PollAgain(t) \/ PollEnds(t) \/ PollGivesUp(t)
         \/ \E d \in Descs : Expires(t, d) \/ Collects(t, d)
  PROVE  QuietInv'
PROOF
  <1> USE DEF At, GoTo, countVars, doneVars, ownedVars, groupVars
  <1>1. /\ {"wrTest", "wrBusiness", "pollScan", "pollCollect"} \subseteq InsidePcs
        /\ {"polling", "pollBack", "pollFailed"} \subseteq OutsidePcs
        /\ LooksFrom \subseteq {"wrTest", "wrBusiness"}
    BY DEF InsidePcs, OutsidePcs, LooksFrom
  <1>2. CASE \/ \E from \in LooksFrom : PollInternal(t, from)
             \/ ScanEnds(t) \/ PollAgain(t) \/ PollEnds(t)
             \/ ScanBegins(t) \/ PollLocks(t) \/ PollGivesUp(t)
    <2>1. PICK to \in {"pollTop", "polling", "wrTest", "pollScan", "pollCollect", "wrLeave"} :
            Moves(t, to)
      BY <1>2 DEF PollInternal, ScanBegins, ScanEnds, PollLocks, PollAgain, PollEnds,
                  PollGivesUp, Lock, Unlock, Continue, Moves
    <2>2. UNCHANGED <<state, waiting, table, ready, reclaimed>>
      BY <1>2 DEF PollInternal, ScanBegins, ScanEnds, PollLocks, PollAgain, PollEnds,
                  PollGivesUp
    <2>3. pc[t] # "cgWait" /\ (pc[t] \in InsidePcs \/ holder[Ml] = NoThread)
      BY <1>1, <1>2 DEF PollInternal, ScanBegins, ScanEnds, PollLocks, PollAgain, PollEnds,
                        PollGivesUp, Lock, Unlock, Continue, Take, Give
    <2> QED  BY <2>1, <2>2, <2>3, InsideAlone, MoveKeepsQuiet
  <1>3. CASE PollReturns(t) \/ PollFails(t)
    <2>1. PICK to \in {"pollBack", "pollFailed"} : Moves(t, to)
      BY <1>3 DEF PollReturns, PollFails, Continue, Moves
    <2>2. /\ UNCHANGED <<state, waiting, table, ready, desc, reclaimed>>
          /\ pc[t] = "polling"
      BY <1>3 DEF PollReturns, PollFails, Continue
    <2> QED  BY <1>1, <2>1, <2>2, OutsideKeepsQuiet
  <1>4. ASSUME NEW d \in Descs, Expires(t, d) \/ Collects(t, d)  PROVE QuietInv'
    <2>1. /\ d \in table /\ table' = table \ {d}
          /\ UNCHANGED <<pc, state, waiting, reclaimed>>
          /\ pc[t] \in {"pollScan", "pollCollect"}
      BY <1>4 DEF Expires, Collects, Done, Lookup
    <2>2. Alone(t) /\ Moves(t, pc[t])
      BY <1>1, <2>1, InsideAlone DEF Moves, ClientInv
    <2>3. state # "stopped" /\ ~reclaimed
      <3>1. waiting # 0
        BY <2>1, WaitersAreCounted DEF PollPcs
      <3> QED  BY <3>1 DEF QuietInv
    <2> QED  BY <2>1, <2>2, <2>3, AloneKeepsQuiet
  <1> QED  BY <1>2, <1>3, <1>4

LEMMA ChangeStepKeepsQuiet ==
  ASSUME ClientInv, HandsInv, PollInv, QuietInv, NEW t \in Threads,
         \/ AddsDesc(t) \/ Returns(t) \/ Cancels(t) \/ CancelWaits(t) \/ CancelWoken(t)
         \/ CancelMarked(t) \/ CancelTakes(t) \/ CancelFindsNone(t)
         \/ \E d \in Descs : CancelMarks(t, d)
  PROVE  QuietInv'
PROOF
  <1> USE DEF At, GoTo, countVars, doneVars, ownedVars, groupVars
  <1>1. {"add", "cancel", "mwUnlock", "cgWait", "cgTake"} \subseteq InsidePcs
    BY DEF InsidePcs
  <1>2. /\ pc[t] \in {"add", "cancel"} => state = "running" /\ ~reclaimed
        /\ pc[t] = "cancel" => desc[t] \in table
        /\ pc[t] = "cgTake" => state = "stopped"
        /\ state = "stopped" => waiting = 0
        /\ reclaimed => state = "stopped" /\ table = {} /\ ready = << >>
    BY DEF QuietInv
  <1>3. Alone(t) /\ pc[t] # "cgWait" /\ state = "stopped" => table = {}
    BY DEF QuietInv, Alone, InsidePcs
  <1>4. CASE AddsDesc(t) \/ Cancels(t)
    <2>1. /\ Moves(t, "mwUnlock") /\ pc[t] \in {"add", "cancel"}
          /\ UNCHANGED <<state, waiting, reclaimed>>
      BY <1>4 DEF AddsDesc, Cancels, Done, Moves
    <2> QED  BY <1>1, <1>2, <2>1, InsideAlone, AloneKeepsQuiet
  <1>5. CASE Returns(t) \/ CancelTakes(t)
    <2>1. /\ Moves(t, "run") \/ Moves(t, "mwUnlock")
          /\ pc[t] \in {"mwUnlock", "cgTake"}
          /\ UNCHANGED <<state, waiting, table, reclaimed>>
          /\ ready' = ready \/ ready # << >>
      BY <1>5 DEF Returns, CancelTakes, Unlock, Continue, Moves
    <2> QED  BY <1>1, <2>1, InsideAlone, MoveKeepsQuiet
  <1>6. CASE CancelWaits(t)
    <2>1. /\ Moves(t, "cgWait") \/ Moves(t, "cgWaiting")
          /\ pc[t] = "cgWait" /\ state # "stopped"
          /\ UNCHANGED <<state, waiting, table, ready, reclaimed>>
      BY <1>6 DEF CancelWaits, Wait, WaitFails, Moves
    <2> QED  BY <1>1, <1>2, <2>1, InsideAlone, AloneKeepsQuiet
  <1>7. CASE CancelWoken(t)
    <2>1. /\ Moves(t, "cgWait") /\ phase[t] = "back"
          /\ UNCHANGED <<state, waiting, table, ready, reclaimed>>
      BY <1>7 DEF CancelWoken, WaitEnds, EndWait, Moves
    <2> QED  BY <1>2, <2>1, InsideAlone, AloneKeepsQuiet
  <1>8. CASE CancelMarked(t)
    <2>1. /\ Moves(t, "cgTake") /\ pc[t] = "cgWait" /\ state = "stopped" /\ table = {}
          /\ UNCHANGED <<state, waiting, table, ready, reclaimed>>
      BY <1>8 DEF CancelMarked, Moves
    <2> QED  BY <1>1, <1>2, <2>1, InsideAlone, AloneKeepsQuiet
  <1>9. CASE CancelFindsNone(t)
    <2>1. /\ Moves(t, "mwUnlock") /\ pc[t] = "cgTake" /\ ready = << >>
          /\ UNCHANGED <<state, waiting, table, ready>>
      BY <1>9 DEF CancelFindsNone, Continue, Moves
    <2>2. Alone(t)
      BY <1>1, <2>1, InsideAlone
    <2> QED  BY <1>2, <1>3, <2>1, <2>2, AloneKeepsQuiet
  <1>10. ASSUME NEW d \in Descs, CancelMarks(t, d)  PROVE QuietInv'
    <2>1. /\ pc[t] = "cgWait" /\ state = "stopped" /\ d \in table
          /\ UNCHANGED <<pc, state, waiting, reclaimed>>
      BY <1>10 DEF CancelMarks, Done
    <2>2. Alone(t) /\ Moves(t, "cgWait")
      BY <1>1, <2>1, InsideAlone DEF Moves, ClientInv
    <2> QED  BY <1>2, <2>1, <2>2, AloneKeepsQuiet
  <1> QED  BY <1>4, <1>5, <1>6, <1>7, <1>8, <1>9, <1>10

LEMMA NextQuietInv ==
  ClientInv /\ HandsInv /\ PollInv /\ QuietInv /\ [MwNext]_mwVars => QuietInv'
PROOF
  <1> SUFFICES ASSUME ClientInv, HandsInv, PollInv, QuietInv, [MwNext]_mwVars
               PROVE  QuietInv'
    OBVIOUS
  <1>1. ASSUME NEW t \in Threads, MwBegins(t)  PROVE QuietInv'
    BY <1>1, MwBeginsKeepsQuiet
  <1>2. ASSUME UNCHANGED <<pc, state, waiting, table, ready, desc, reclaimed>>
        PROVE  QuietInv'
    BY <1>2 DEF QuietInv
  <1>3. ASSUME NEW t \in Threads, MwGoesOn(t)  PROVE QuietInv'
    <2>1. CASE Relock(t) /\ UNCHANGED groupVars
      BY <1>2, <2>1 DEF Relock, groupVars, countVars, doneVars, ownedVars
    <2> QED  BY <1>3, <2>1, WaitRecvStepKeepsQuiet, PollStepKeepsQuiet,
                ChangeStepKeepsQuiet DEF MwGoesOn
  <1>4. ASSUME NEW t \in Threads, MwInterrupts(t)  PROVE QuietInv'
    BY <1>2, <1>4 DEF MwInterrupts, InterruptThread, groupVars, countVars, doneVars,
                      ownedVars
  <1>5. ASSUME NEW d \in Descs, Arrives(d)  PROVE QuietInv'
    BY <1>2, <1>5 DEF Arrives, clientVars, groupVars, countVars, doneVars, ownedVars
  <1>6. CASE UNCHANGED mwVars
    BY <1>2, <1>6 DEF mwVars, clientVars, groupVars, countVars, doneVars, ownedVars
  <1> QED  BY <1>1, <1>3, <1>4, <1>5, <1>6 DEF MwNext

-----------------------------------------------------------------------------
(* The owners of the descriptors.                                          *)

\* DescsHaveOneOwner, without cardinalities: the program, the table, the list of
\* finished I/O and the calls share the descriptors out.
OwnersInv ==
  /\ IsInjective(Finished)
  /\ \A d \in Descs : \/ d \in free \cup table \cup Range(Finished)
                      \/ \E t \in Threads : d \in InHand(t)
  /\ free \cap table = {} /\ (free \cup table) \cap Range(Finished) = {}
  /\ \A t \in Threads : /\ InHand(t) \cap (free \cup table \cup Range(Finished)) = {}
                        /\ \A u \in Threads \ {t} : InHand(t) \cap InHand(u) = {}

\* A descriptor that is completed joins the list at its end.
LEMMA FinishedGrows ==
  ASSUME HandsInv, NEW d \in Descs, NEW o \in Outcomes, IsInjective(Finished),
         d \notin Range(Finished), ready' = Append(ready, [desc |-> d, outcome |-> o])
  PROVE  Range(Finished)' = Range(Finished) \cup {d} /\ IsInjective(Finished)'
PROOF
  <1> DEFINE r == [desc |-> d, outcome |-> o]
  <1>1. ready \in Seq(Entries) /\ r \in Entries
    BY DEF HandsInv, GroupTypes, Entries
  <1>2. /\ Len(ready) \in Nat /\ DOMAIN ready = 1 .. Len(ready)
        /\ DOMAIN ready' = 1 .. Len(ready) + 1
        /\ \A i \in 1 .. Len(ready) : ready'[i] = ready[i]
        /\ ready'[Len(ready) + 1] = r
    BY <1>1, AppendProperties, LenProperties
  <1>3. /\ DOMAIN Finished = 1 .. Len(ready) /\ DOMAIN Finished' = 1 .. Len(ready) + 1
        /\ \A i \in 1 .. Len(ready) : Finished'[i] = Finished[i]
        /\ Finished'[Len(ready) + 1] = d
    BY <1>2 DEF Finished
  <1>4. 1 .. Len(ready) + 1 = (1 .. Len(ready)) \cup {Len(ready) + 1}
    BY <1>2
  <1>5. Range(Finished') = Range(Finished) \cup {d}
    BY <1>2, <1>3, <1>4 DEF Range
  <1>6. \A i \in 1 .. Len(ready) : Finished[i] # d
    BY <1>3 DEF Range
  <1>7. IsInjective(Finished')
    BY <1>2, <1>3, <1>4, <1>6 DEF IsInjective
  <1> QED  BY <1>5, <1>7

\* The first of them is taken.
LEMMA FinishedShrinks ==
  ASSUME HandsInv, IsInjective(Finished), ready # << >>, ready' = Tail(ready)
  PROVE  /\ Range(Finished)' = Range(Finished) \ {Head(ready).desc}
         /\ Head(ready).desc \in Range(Finished)
         /\ IsInjective(Finished)'
PROOF
  <1>1. ready \in Seq(Entries)
    BY DEF HandsInv, GroupTypes
  <1>2. /\ Len(ready) \in Nat \ {0} /\ DOMAIN ready = 1 .. Len(ready)
        /\ DOMAIN ready' = 1 .. Len(ready) - 1
        /\ \A i \in 1 .. Len(ready) - 1 : ready'[i] = ready[i + 1]
        /\ Head(ready) = ready[1]
    BY <1>1, EmptySeq, HeadTailProperties, LenProperties
  <1>3. /\ DOMAIN Finished = 1 .. Len(ready) /\ DOMAIN Finished' = 1 .. Len(ready) - 1
        /\ \A i \in 1 .. Len(ready) - 1 : Finished'[i] = Finished[i + 1]
        /\ Head(ready).desc = Finished[1]
    BY <1>2 DEF Finished
  <1>4. Finished[1] \in Range(Finished)
    BY <1>2, <1>3 DEF Range
  <1>5. \A i \in 1 .. Len(ready) : \A j \in 1 .. Len(ready) :
          Finished[i] = Finished[j] => i = j
    BY <1>3 DEF IsInjective
  <1>6. IsInjective(Finished')
    <2> SUFFICES ASSUME NEW i \in 1 .. Len(ready) - 1, NEW j \in 1 .. Len(ready) - 1,
                        Finished'[i] = Finished'[j]
                 PROVE  i = j
      BY <1>3 DEF IsInjective
    <2>1. i + 1 \in 1 .. Len(ready) /\ j + 1 \in 1 .. Len(ready)
      BY <1>2
    <2>2. i + 1 = j + 1
      BY <1>3, <1>5, <2>1
    <2> QED  BY <2>2
  <1>7. ASSUME NEW x \in Range(Finished')  PROVE x \in Range(Finished) \ {Finished[1]}
    <2>1. PICK i \in 1 .. Len(ready) - 1 : x = Finished'[i]
      BY <1>3, <1>7 DEF Range
    <2>2. /\ i + 1 \in 1 .. Len(ready) /\ 1 \in 1 .. Len(ready) /\ i + 1 # 1
          /\ x = Finished[i + 1]
      BY <1>2, <1>3, <2>1
    <2> QED  BY <1>3, <1>5, <2>2 DEF Range
  <1>8. ASSUME NEW x \in Range(Finished) \ {Finished[1]}  PROVE x \in Range(Finished')
    <2>1. PICK i \in 1 .. Len(ready) : x = Finished[i]
      BY <1>3 DEF Range
    <2>2. i - 1 \in 1 .. Len(ready) - 1 /\ (i - 1) + 1 = i
      BY <1>2, <1>8, <2>1
    <2>3. x = Finished'[i - 1]
      BY <1>3, <2>1, <2>2
    <2> QED  BY <1>3, <2>2, <2>3 DEF Range
  <1> QED  BY <1>3, <1>4, <1>6, <1>7, <1>8

\* Nothing changes hands.
LEMMA KeepsOwners ==
  ASSUME OwnersInv, UNCHANGED <<free, table, ready>>,
         \A u \in Threads : InHand(u)' = InHand(u)
  PROVE  OwnersInv'
PROOF
  <1>1. Finished' = Finished /\ free' = free /\ table' = table
    BY DEF Finished
  <1> QED  BY <1>1 DEF OwnersInv

\* A descriptor of the table is completed.
LEMMA DoneKeepsOwners ==
  ASSUME HandsInv, OwnersInv, NEW t \in Threads, NEW d \in table, NEW o \in Outcomes,
         Done(t, d, o), UNCHANGED free, \A u \in Threads : InHand(u)' = InHand(u)
  PROVE  OwnersInv'
PROOF
  <1>1. /\ d \in Descs /\ d \notin Range(Finished) /\ IsInjective(Finished)
        /\ ready' = Append(ready, [desc |-> d, outcome |-> o])
        /\ table' = table \ {d} /\ free' = free
    BY DEF HandsInv, GroupTypes, OwnersInv, Done
  <1>2. Range(Finished)' = Range(Finished) \cup {d} /\ IsInjective(Finished)'
    BY <1>1, FinishedGrows
  <1> QED  BY <1>1, <1>2 DEF OwnersInv

\* A call with free hands takes a completed descriptor.
LEMMA TakeKeepsOwners ==
  ASSUME HandsInv, OwnersInv, NEW t \in Threads, ready # << >>, ready' = Tail(ready),
         UNCHANGED <<free, table>>, InHand(t) = {}, InHand(t)' = {Head(ready).desc},
         \A u \in Threads \ {t} : InHand(u)' = InHand(u)
  PROVE  OwnersInv'
PROOF
  <1>1. /\ Range(Finished)' = Range(Finished) \ {Head(ready).desc}
        /\ Head(ready).desc \in Range(Finished)
        /\ IsInjective(Finished)'
    BY FinishedShrinks DEF OwnersInv
  <1>2. free' = free /\ table' = table
    OBVIOUS
  <1> QED  BY <1>1, <1>2 DEF OwnersInv

\* A thread that is not at the point of cancelling moves on with what it has.
LEMMA MoveKeepsOwners ==
  ASSUME ClientInv, OwnersInv, NEW t \in Threads, NEW to, Moves(t, to), pc[t] # "cancel",
         to # "cancel", UNCHANGED <<desc, free, table, ready>>
  PROVE  OwnersInv'
PROOF
  <1>1. \A u \in Threads : InHand(u)' = InHand(u)
    BY DEF InHand, Moves, ClientInv
  <1> QED  BY <1>1, KeepsOwners

LEMMA MwBeginsKeepsOwners ==
  ASSUME ClientInv, HandsInv, OwnersInv, NEW t \in Threads, MwBegins(t)
  PROVE  OwnersInv'
PROOF
  <1> USE DEF Lock, At, GoTo, doneVars, ownedVars
  <1>0. MwBegins(t) => pc[t] = "run" /\ desc[t] = NoDesc /\ InHand(t) = {}
    BY DEF MwBegins, AddWaitFileDesc, CancelWaitFileDesc, WaitRecvReady, CancelWaitGroup,
           HandsInv, HandInv, InHand
  <1>1. ASSUME NEW d \in Descs, AddWaitFileDesc(t, d)  PROVE OwnersInv'
    <2>1. d \in free /\ free' = free \ {d} /\ table' = table /\ ready' = ready
      BY <1>1 DEF AddWaitFileDesc
    <2>2. InHand(t)' = {d} /\ \A u \in Threads \ {t} : InHand(u)' = InHand(u)
      <3>1. /\ desc' = [desc EXCEPT ![t] = d]
            /\ pc' = [pc EXCEPT ![t] = IF MayAdd THEN "add" ELSE "mwUnlock"]
        BY <1>1 DEF AddWaitFileDesc
      <3>2. /\ desc'[t] = d /\ pc'[t] # "cancel" /\ d # NoDesc
            /\ \A u \in Threads \ {t} : desc'[u] = desc[u] /\ pc'[u] = pc[u]
        BY <3>1, MWaitAssumption DEF ClientInv, HandsInv, GroupTypes
      <3> QED  BY <3>2 DEF InHand
    <2>3. Finished' = Finished
      BY <2>1 DEF Finished
    <2> QED  BY <1>0, <2>1, <2>2, <2>3 DEF OwnersInv
  <1>2. ASSUME NEW d \in Descs, CancelWaitFileDesc(t, d)  PROVE OwnersInv'
    <2>1. UNCHANGED <<free, table, ready>>
      BY <1>2 DEF CancelWaitFileDesc
    <2>2. /\ desc' = IF Cancellable(d) THEN [desc EXCEPT ![t] = d] ELSE desc
          /\ pc' = [pc EXCEPT ![t] = IF Cancellable(d) THEN "cancel" ELSE "mwUnlock"]
      BY <1>2 DEF CancelWaitFileDesc
    <2>3. /\ pc'[t] = "cancel" \/ desc'[t] = NoDesc
          /\ \A u \in Threads \ {t} : desc'[u] = desc[u] /\ pc'[u] = pc[u]
      BY <1>0, <2>2 DEF ClientInv, HandsInv, GroupTypes
    <2>4. \A u \in Threads : InHand(u)' = InHand(u)
      BY <1>0, <2>3 DEF InHand
    <2> QED  BY <2>1, <2>4, KeepsOwners
  <1>3. CASE WaitRecvReady(t) \/ CancelWaitGroup(t)
    <2>1. PICK to \in {"wrTest", "wrRefused", "cgTake", "cgWait"} : Moves(t, to)
      BY <1>3 DEF WaitRecvReady, CancelWaitGroup, Moves
    <2> QED  BY <1>0, <1>3, <2>1, MoveKeepsOwners DEF WaitRecvReady, CancelWaitGroup
  <1> QED  BY <1>1, <1>2, <1>3 DEF MwBegins

\* The three ways to what is finished, into a call.
LEMMA TakesKeepsOwners ==
  ASSUME ClientInv, HandsInv, OwnersInv, NEW t \in Threads,
         TakesReady(t) \/ CancelTakes(t)
  PROVE  OwnersInv'
PROOF
  <1>1. PICK to \in {"wrLeave", "mwUnlock"} : pc' = [pc EXCEPT ![t] = to]
    BY DEF TakesReady, Takes, CancelTakes, Continue, GoTo
  <1>2. /\ pc[t] \in {"wrTest", "wrComplete", "cgTake"}
        /\ ready # << >> /\ ready' = Tail(ready) /\ UNCHANGED <<table, free>>
        /\ desc' = [desc EXCEPT ![t] = Head(ready).desc]
    BY DEF TakesReady, Takes, CancelTakes, Continue, At
  <1>3. desc[t] = NoDesc /\ Head(ready).desc \in Descs /\ NoDesc \notin Descs
    BY <1>2, HeadOfReady, MWaitAssumption DEF HandsInv, HandInv
  <1>4. /\ desc'[t] = Head(ready).desc /\ pc'[t] # "cancel"
        /\ \A u \in Threads \ {t} : desc'[u] = desc[u] /\ pc'[u] = pc[u]
    BY <1>1, <1>2 DEF ClientInv, HandsInv, GroupTypes
  <1>5. /\ InHand(t) = {} /\ InHand(t)' = {Head(ready).desc}
        /\ \A u \in Threads \ {t} : InHand(u)' = InHand(u)
    BY <1>3, <1>4 DEF InHand
  <1> QED  BY <1>2, <1>5, TakeKeepsOwners

LEMMA CallStepKeepsOwners ==
  ASSUME ClientInv, HandsInv, QuietInv, OwnersInv, NEW t \in Threads,
         AddsDesc(t) \/ Returns(t) \/ Cancels(t)
  PROVE  OwnersInv'
PROOF
  <1> USE DEF At, GoTo, doneVars
  <1>1. /\ pc' = [pc EXCEPT ![t] = "mwUnlock"] \/ pc' = [pc EXCEPT ![t] = "run"]
        /\ desc' = [desc EXCEPT ![t] = NoDesc]
    BY DEF AddsDesc, Returns, Cancels, Unlock
  <1>2. /\ desc'[t] = NoDesc
        /\ \A u \in Threads \ {t} : desc'[u] = desc[u] /\ pc'[u] = pc[u]
    BY <1>1 DEF ClientInv, HandsInv, GroupTypes
  <1>3. /\ InHand(t)' = {} /\ InHand(t) \subseteq Descs
        /\ \A u \in Threads \ {t} : InHand(u)' = InHand(u)
    BY <1>2 DEF InHand, HandsInv, GroupTypes
  <1>4. CASE AddsDesc(t)
    <2>1. pc[t] = "add" /\ desc[t] \in Descs
      BY <1>4 DEF AddsDesc, HandsInv, HandInv
    <2>2. InHand(t) = {desc[t]}
      BY <2>1, MWaitAssumption DEF InHand
    <2>3. table' = table \cup {desc[t]} /\ free' = free /\ ready' = ready
      BY <1>4 DEF AddsDesc
    <2>4. Finished' = Finished
      BY <2>3 DEF Finished
    <2> QED  BY <1>3, <2>2, <2>3, <2>4 DEF OwnersInv
  <1>5. CASE Returns(t)
    <2>1. pc[t] = "mwUnlock" /\ table' = table /\ ready' = ready
      BY <1>5 DEF Returns, Unlock
    <2>2. free' = free \cup InHand(t)
      BY <1>5, <2>1 DEF Returns, InHand
    <2>3. Finished' = Finished
      BY <2>1 DEF Finished
    <2> QED  BY <1>3, <2>1, <2>2, <2>3 DEF OwnersInv
  <1>6. CASE Cancels(t)
    <2>1. /\ pc[t] = "cancel" /\ desc[t] \in table /\ free' = free
          /\ Done(t, desc[t], "interrupt")
      BY <1>6 DEF Cancels, QuietInv
    <2>2. InHand(t) = {} /\ \A u \in Threads : InHand(u)' = InHand(u)
      BY <1>3, <2>1 DEF InHand
    <2> QED  BY <2>1, <2>2, DoneKeepsOwners DEF Outcomes
  <1> QED  BY <1>4, <1>5, <1>6

\* The steps that complete what is in the table.
LEMMA DoneStepKeepsOwners ==
  ASSUME ClientInv, HandsInv, OwnersInv, NEW t \in Threads, NEW d \in Descs,
         Expires(t, d) \/ Collects(t, d) \/ CancelMarks(t, d)
  PROVE  OwnersInv'
PROOF
  <1>1. d \in table /\ UNCHANGED <<pc, desc, free>>
    BY DEF Expires, Collects, CancelMarks, Lookup, ownedVars
  <1>2. PICK o \in Outcomes : Done(t, d, o)
    BY DEF Expires, Collects, CancelMarks, Outcomes
  <1>3. \A u \in Threads : InHand(u)' = InHand(u)
    BY <1>1 DEF InHand
  <1> QED  BY <1>1, <1>2, <1>3, DoneKeepsOwners

LEMMA OtherStepsKeepOwners ==
  ASSUME ClientInv, OwnersInv, NEW t \in Threads,
         \/ Refused(t) \/ Leaves(t)
         \/ \E from \in LooksFrom : \/ BusinessWaits(t, from) \/ BusinessAborts(t, from)
                                    \/ LeavesPolling(t, from) \/ PollInternal(t, from)
         \/ BusinessWoken(t) \/ IoWaits(t) \/ IoWoken(t) \/ IoInterrupted(t)
         \/ ScanBegins(t) \/ ScanEnds(t) \/ PollReturns(t) \/ PollFails(t)
         \/ PollLocks(t) \/ PollAgain(t) \/ PollEnds(t) \/ PollGivesUp(t)
         \/ CancelWaits(t) \/ CancelWoken(t) \/ CancelMarked(t) \/ CancelFindsNone(t)
  PROVE  OwnersInv'
PROOF
  <1> USE DEF At, GoTo, Lock, Unlock, Wait, WaitFails, WaitEnds, Continue, Moves,
              doneVars, ownedVars, groupVars
  <1>0. LooksFrom \subseteq {"wrTest", "wrBusiness"}
    BY DEF LooksFrom
  <1>1. CASE Refused(t) \/ Leaves(t) \/ ScanBegins(t) \/ PollLocks(t) \/ PollGivesUp(t)
    <2>1. PICK to \in AllPcs \ {"cancel"} : Moves(t, to) /\ pc[t] # "cancel"
      BY <1>1 DEF Refused, Leaves, ScanBegins, PollLocks, PollGivesUp, AllPcs, InsidePcs
    <2>2. UNCHANGED <<desc, free, table, ready>>
      BY <1>1 DEF Refused, Leaves, ScanBegins, PollLocks, PollGivesUp
    <2> QED  BY <2>1, <2>2, MoveKeepsOwners DEF Moves
  <1>2. CASE \/ \E from \in LooksFrom : \/ BusinessWaits(t, from) \/ BusinessAborts(t, from)
                                        \/ LeavesPolling(t, from) \/ PollInternal(t, from)
             \/ BusinessWoken(t) \/ IoWaits(t) \/ IoWoken(t) \/ IoInterrupted(t)
    <2>1. PICK to \in AllPcs \ {"cancel"} : Moves(t, to) /\ pc[t] # "cancel"
      BY <1>0, <1>2 DEF BusinessWaits, BusinessAborts, LeavesPolling, PollInternal,
                  BusinessWoken, IoWaits, IoWoken, IoInterrupted, AllPcs, InsidePcs,
                  OutsidePcs, BlockedPcs
    <2>2. UNCHANGED <<desc, free, table, ready>>
      BY <1>2 DEF BusinessWaits, BusinessAborts, LeavesPolling, PollInternal,
                  BusinessWoken, IoWaits, IoWoken, IoInterrupted
    <2> QED  BY <2>1, <2>2, MoveKeepsOwners DEF Moves
  <1>3. CASE \/ ScanEnds(t) \/ PollReturns(t) \/ PollFails(t) \/ PollAgain(t) \/ PollEnds(t)
             \/ CancelWaits(t) \/ CancelWoken(t) \/ CancelMarked(t) \/ CancelFindsNone(t)
    <2>1. PICK to \in AllPcs \ {"cancel"} : Moves(t, to) /\ pc[t] # "cancel"
      BY <1>3 DEF ScanEnds, PollReturns, PollFails, PollAgain, PollEnds, CancelWaits,
                  CancelWoken, CancelMarked, CancelFindsNone, AllPcs, InsidePcs,
                  OutsidePcs, BlockedPcs
    <2>2. UNCHANGED <<desc, free, table, ready>>
      BY <1>3 DEF ScanEnds, PollReturns, PollFails, PollAgain, PollEnds, CancelWaits,
                  CancelWoken, CancelMarked, CancelFindsNone
    <2> QED  BY <2>1, <2>2, MoveKeepsOwners DEF Moves
  <1> QED  BY <1>1, <1>2, <1>3

LEMMA NextOwnersInv ==
  ClientInv /\ HandsInv /\ QuietInv /\ OwnersInv /\ [MwNext]_mwVars => OwnersInv'
PROOF
  <1> SUFFICES ASSUME ClientInv, HandsInv, QuietInv, OwnersInv, [MwNext]_mwVars
               PROVE  OwnersInv'
    OBVIOUS
  <1>1. ASSUME NEW t \in Threads, MwBegins(t)  PROVE OwnersInv'
    BY <1>1, MwBeginsKeepsOwners
  <1>2. ASSUME UNCHANGED <<pc, free, table, ready, desc>>  PROVE OwnersInv'
    <2>1. \A u \in Threads : InHand(u)' = InHand(u)
      BY <1>2 DEF InHand
    <2> QED  BY <1>2, <2>1, KeepsOwners
  <1>3. ASSUME NEW t \in Threads, MwGoesOn(t)  PROVE OwnersInv'
    <2>1. CASE Relock(t) /\ UNCHANGED groupVars
      BY <1>2, <2>1 DEF Relock, groupVars, doneVars, ownedVars
    <2> QED  BY <1>3, <2>1, TakesKeepsOwners, CallStepKeepsOwners, DoneStepKeepsOwners,
                OtherStepsKeepOwners DEF MwGoesOn
  <1>4. ASSUME NEW t \in Threads, MwInterrupts(t)  PROVE OwnersInv'
    BY <1>2, <1>4 DEF MwInterrupts, InterruptThread, groupVars, doneVars, ownedVars
  <1>5. ASSUME NEW d \in Descs, Arrives(d)  PROVE OwnersInv'
    BY <1>2, <1>5 DEF Arrives, clientVars, groupVars, doneVars, ownedVars
  <1>6. CASE UNCHANGED mwVars
    BY <1>2, <1>6 DEF mwVars, clientVars, groupVars, doneVars, ownedVars
  <1> QED  BY <1>1, <1>3, <1>4, <1>5, <1>6 DEF MwNext

-----------------------------------------------------------------------------
(* The completions.                                                        *)

\* Nobody but t moves in a wait, except that it may be woken.
OthersKeep(t) ==
  \A u \in Threads \ {t} : \/ phase'[u] = phase[u]
                           \/ phase[u] = "waiting" /\ phase'[u] = "woken"

LEMMA OwnStep ==
  ASSUME ClientInv, NEW t \in Threads, NEW from, NEW to, NEW c,
         \/ Lock(t, Ml, from, to) \/ Unlock(t, Ml, from, to) \/ Continue(t, from, to)
         \/ Wait(t, c, from, to) \/ WaitFails(t, c, from, to) \/ WaitEnds(t, from, to)
  PROVE  OthersKeep(t) /\ pc[t] = from /\ Moves(t, to)
PROOF
  <1>1. pc[t] = from /\ Moves(t, to)
    BY DEF Lock, Unlock, Continue, Wait, WaitFails, WaitEnds, At, GoTo, Moves
  <1>2. phase' = phase \/ \E p : phase' = [phase EXCEPT ![t] = p]
    BY DEF Lock, Unlock, Continue, Wait, WaitFails, WaitEnds, Take, Give, Release,
           BeginWait, RefuseWait, EndWait, acvVars
  <1>3. OthersKeep(t)
    BY <1>2 DEF OthersKeep, ClientInv, ACvTypeOK
  <1> QED  BY <1>1, <1>3

LEMMA WakesKeepsOthers ==
  ASSUME Wakes, NEW t \in Threads  PROVE OthersKeep(t)
PROOF
  BY DEF Wakes, OthersKeep

\* The threads that wait for completions are those in that place.
TakersInv ==
  /\ Waiting(IoComplete) = {u \in Threads : pc[u] = "wrIoWait" /\ phase[u] = "waiting"}
  /\ IsFiniteSet(Takers) /\ Cardinality(Takers) \in Nat

LEMMA IoWaiters == ClientInv => TakersInv
PROOF
  <1> SUFFICES ASSUME ClientInv  PROVE TakersInv
    OBVIOUS
  <1>1. Takers \in SUBSET Threads /\ IsFiniteSet(Threads)
    BY MWaitAssumption DEF Takers
  <1>2. IsFiniteSet(Takers) /\ Cardinality(Takers) \in Nat
    BY <1>1, FS_Subset, FS_CardinalityType
  <1>3. ASSUME NEW u \in Threads
        PROVE  on[u] = IoComplete /\ phase[u] = "waiting"
                 <=> pc[u] = "wrIoWait" /\ phase[u] = "waiting"
    BY MWaitAssumption DEF ClientInv, WaitInv, BlockedPcs
  <1> QED  BY <1>2, <1>3 DEF Waiting, TakersInv

LEMMA IoWaitersNext == ClientInv' => TakersInv'
PROOF
  BY IoWaiters, PTL

\* With no more completions than before, and no fewer threads to take them.
LEMMA KeepsTakers ==
  ASSUME ClientInv, ClientInv', HandsInv, CompletionsHaveTakers, Takers \subseteq Takers',
         Waiting(IoComplete)' \subseteq Waiting(IoComplete),
         ready' \in Seq(Entries), Len(ready') <= Len(ready), abandoned' = abandoned
  PROVE  CompletionsHaveTakers'
PROOF
  <1>1. /\ IsFiniteSet(Takers') /\ Cardinality(Takers') \in Nat
        /\ Cardinality(Takers) \in Nat
    BY IoWaiters, IoWaitersNext DEF TakersInv
  <1>2. Cardinality(Takers) <= Cardinality(Takers')
    BY <1>1, FS_Subset
  <1>3. Len(ready) \in Nat /\ Len(ready') \in Nat
    BY DEF HandsInv, GroupTypes
  <1> QED  BY <1>1, <1>2, <1>3 DEF CompletionsHaveTakers

\* A step of a thread that is not on its way to a completion.
LEMMA MoveKeepsTakers ==
  ASSUME ClientInv, ClientInv', HandsInv, CompletionsHaveTakers,
         NEW t \in Threads, NEW to, Moves(t, to), OthersKeep(t), to # "wrIoWait",
         pc[t] \notin {"wrIoWait", "wrComplete"} \/ to = "wrComplete",
         ready' \in Seq(Entries), Len(ready') <= Len(ready), abandoned' = abandoned
  PROVE  CompletionsHaveTakers'
PROOF
  <1>1. /\ pc'[t] = to
        /\ \A u \in Threads \ {t} : pc'[u] = pc[u]
    BY DEF Moves, ClientInv
  <1>2. Takers \subseteq Takers'
    <2> SUFFICES ASSUME NEW u \in Takers  PROVE u \in Takers'
      OBVIOUS
    <2>1. /\ u \in Threads
          /\ \/ pc[u] = "wrIoWait" /\ phase[u] # "waiting"
             \/ pc[u] = "wrComplete"
      BY DEF Takers
    <2>2. CASE u = t
      BY <1>1, <2>1, <2>2 DEF Takers
    <2>3. CASE u # t
      BY <1>1, <2>1, <2>3 DEF Takers, OthersKeep
    <2> QED  BY <2>2, <2>3
  <1>3. Waiting(IoComplete)' \subseteq Waiting(IoComplete)
    <2>1. /\ Waiting(IoComplete)
               = {u \in Threads : pc[u] = "wrIoWait" /\ phase[u] = "waiting"}
          /\ Waiting(IoComplete)'
               = {u \in Threads : pc'[u] = "wrIoWait" /\ phase'[u] = "waiting"}
      BY IoWaiters, IoWaitersNext DEF TakersInv
    <2> QED  BY <1>1, <2>1 DEF OthersKeep
  <1> QED  BY <1>2, <1>3, KeepsTakers

LEMMA LenKept ==
  ASSUME HandsInv, ready' = ready  PROVE ready' \in Seq(Entries) /\ Len(ready') <= Len(ready)
PROOF
  BY DEF HandsInv, GroupTypes

LEMMA TailShorter ==
  ASSUME HandsInv, ready # << >>, ready' = Tail(ready)
  PROVE  /\ ready' \in Seq(Entries) /\ Len(ready') = Len(ready) - 1
         /\ Len(ready) \in Nat /\ Len(ready') \in Nat
PROOF
  BY DEF HandsInv, GroupTypes

LEMMA MwBeginsKeepsTakers ==
  ASSUME ClientInv, ClientInv', HandsInv, CompletionsHaveTakers, NEW t \in Threads,
         MwBegins(t)
  PROVE  CompletionsHaveTakers'
PROOF
  <1>1. PICK to \in AllPcs \ {"wrIoWait"} : Lock(t, Ml, "run", to)
    BY DEF MwBegins, AddWaitFileDesc, CancelWaitFileDesc, WaitRecvReady, CancelWaitGroup,
           AllPcs, InsidePcs, BlockedPcs
  <1>2. ready' = ready /\ abandoned' = abandoned
    BY DEF MwBegins, AddWaitFileDesc, CancelWaitFileDesc, WaitRecvReady, CancelWaitGroup,
           doneVars, ownedVars
  <1>3. OthersKeep(t) /\ pc[t] = "run" /\ Moves(t, to)
    BY <1>1, OwnStep
  <1> QED  BY <1>1, <1>2, <1>3, LenKept, MoveKeepsTakers

\* A completion wakes a thread to take it, if one waits.
LEMMA DoneKeepsTakers ==
  ASSUME ClientInv, ClientInv', HandsInv, CompletionsHaveTakers,
         NEW t \in Threads, NEW d \in Descs, NEW o \in Outcomes, Done(t, d, o),
         \/ pc' = pc
         \/ /\ pc[t] \notin {"wrIoWait", "wrComplete"}
            /\ \E to : Moves(t, to) /\ to # "wrIoWait",
         abandoned' = abandoned
  PROVE  CompletionsHaveTakers'
PROOF
  <1>1. /\ Waiting(IoComplete)
             = {u \in Threads : pc[u] = "wrIoWait" /\ phase[u] = "waiting"}
        /\ Waiting(IoComplete)'
             = {u \in Threads : pc'[u] = "wrIoWait" /\ phase'[u] = "waiting"}
        /\ IsFiniteSet(Takers) /\ Cardinality(Takers) \in Nat
        /\ IsFiniteSet(Takers') /\ Cardinality(Takers') \in Nat
    BY IoWaiters, IoWaitersNext DEF TakersInv
  <1>2. Wakes /\ Notify(t, IoComplete)
    BY DoneWakes
  <1>3. /\ ready \in Seq(Entries) /\ ready' = Append(ready, [desc |-> d, outcome |-> o])
        /\ [desc |-> d, outcome |-> o] \in Entries
    BY DEF Done, HandsInv, GroupTypes, Entries
  <1>4. Len(ready') = Len(ready) + 1 /\ Len(ready) \in Nat
    BY <1>3
  <1>5. \A u \in Threads : \/ pc'[u] = pc[u]
                           \/ pc[u] \notin {"wrIoWait", "wrComplete"} /\ pc'[u] # "wrIoWait"
    BY DEF Moves, ClientInv
  <1>6. Waiting(IoComplete)' \subseteq Waiting(IoComplete)
    BY <1>1, <1>2, <1>5 DEF Wakes
  <1>7. Takers \subseteq Takers'
    BY <1>2, <1>5 DEF Wakes, Takers
  <1>8. CASE Waiting(IoComplete) = {}
    BY <1>6, <1>8 DEF CompletionsHaveTakers
  <1>9. CASE Waiting(IoComplete) # {}
    <2>1. PICK u \in Waiting(IoComplete) : Wake({u})
      BY <1>2, <1>9 DEF Notify
    <2>2. u \in Threads /\ pc[u] = "wrIoWait" /\ phase[u] = "waiting"
      BY <1>1
    <2>3. phase'[u] = "woken" /\ pc'[u] = "wrIoWait"
      BY <1>5, <2>1, <2>2 DEF Wake
    <2>4. u \notin Takers /\ u \in Takers'
      BY <2>2, <2>3 DEF Takers
    <2>5. Cardinality(Takers \cup {u}) = Cardinality(Takers) + 1
      BY <1>1, <2>4, FS_AddElement
    <2>6. Cardinality(Takers \cup {u}) <= Cardinality(Takers')
      BY <1>1, <1>7, <2>4, FS_Subset
    <2>7. Cardinality(Takers) + 1 <= Cardinality(Takers')
      BY <2>5, <2>6
    <2> QED  BY <1>1, <1>4, <1>9, <2>7 DEF CompletionsHaveTakers
  <1> QED  BY <1>8, <1>9

\* A thread takes one completion, and is the only one that stops looking.
LEMMA TakesKeepsTakers ==
  ASSUME ClientInv, ClientInv', HandsInv, CompletionsHaveTakers, NEW t \in Threads,
         TakesReady(t)
  PROVE  CompletionsHaveTakers'
PROOF
  <1>1. PICK from \in {"wrTest", "wrComplete"} : Takes(t, from)
    BY DEF TakesReady
  <1>2. /\ Continue(t, from, "wrLeave") /\ ready # << >> /\ ready' = Tail(ready)
        /\ abandoned' = (abandoned /\ ready' # << >>)
    BY <1>1 DEF Takes
  <1>3. pc[t] = from /\ Moves(t, "wrLeave") /\ phase' = phase
    BY <1>2 DEF Continue, At, GoTo, Moves, acvVars
  <1>4. /\ pc'[t] = "wrLeave"
        /\ \A u \in Threads \ {t} : pc'[u] = pc[u]
    BY <1>3 DEF Moves, ClientInv
  <1>5. /\ ready' \in Seq(Entries) /\ Len(ready') = Len(ready) - 1
        /\ Len(ready) \in Nat /\ Len(ready') \in Nat
    BY <1>2, TailShorter
  <1>6. /\ Waiting(IoComplete)
             = {u \in Threads : pc[u] = "wrIoWait" /\ phase[u] = "waiting"}
        /\ Waiting(IoComplete)'
             = {u \in Threads : pc'[u] = "wrIoWait" /\ phase'[u] = "waiting"}
        /\ IsFiniteSet(Takers) /\ Cardinality(Takers) \in Nat
        /\ IsFiniteSet(Takers') /\ Cardinality(Takers') \in Nat
    BY IoWaiters, IoWaitersNext DEF TakersInv
  <1>7. Waiting(IoComplete)' \subseteq Waiting(IoComplete)
    BY <1>3, <1>4, <1>6
  <1>8. Takers \ {t} \subseteq Takers'
    BY <1>3, <1>4 DEF Takers
  <1>9. Cardinality(Takers) <= Cardinality(Takers \ {t}) + 1
        /\ Cardinality(Takers \ {t}) \in Nat
    <2>1. /\ IsFiniteSet(Takers \ {t})
          /\ Cardinality(Takers \ {t})
               = IF t \in Takers THEN Cardinality(Takers) - 1 ELSE Cardinality(Takers)
      BY <1>6, FS_RemoveElement
    <2>2. Cardinality(Takers \ {t}) \in Nat
      BY <2>1, FS_CardinalityType
    <2> QED  BY <1>6, <2>1, <2>2
  <1>10. Cardinality(Takers \ {t}) <= Cardinality(Takers')
    BY <1>6, <1>8, FS_Subset
  <1>11. CASE ready' = << >>
    <2>1. Len(ready') = 0
      BY <1>11
    <2> QED  BY <1>6, <2>1 DEF CompletionsHaveTakers
  <1>12. CASE ready' # << >>
    <2> SUFFICES ASSUME Waiting(IoComplete)' # {}, ~abandoned'
                 PROVE  Len(ready') <= Cardinality(Takers')
      BY DEF CompletionsHaveTakers
    <2>1. Waiting(IoComplete) # {} /\ ~abandoned
      BY <1>2, <1>7, <1>12
    <2>2. Len(ready) <= Cardinality(Takers)
      BY <2>1 DEF CompletionsHaveTakers
    <2> QED  BY <1>5, <1>6, <1>9, <1>10, <2>2
  <1> QED  BY <1>11, <1>12

\* The other steps of PR_WaitRecvReady: a thread begins to wait only when nothing is
\* complete, and an interrupted one says that it leaves something behind.
LEMMA IoStepKeepsTakers ==
  ASSUME ClientInv, ClientInv', HandsInv, CompletionsHaveTakers, NEW t \in Threads,
         IoWaits(t) \/ IoWoken(t) \/ IoInterrupted(t)
  PROVE  CompletionsHaveTakers'
PROOF
  <1> USE DEF doneVars, ownedVars, groupVars
  <1>1. Cardinality(Takers') \in Nat
    BY IoWaitersNext DEF TakersInv
  <1>2. CASE ready = << >> /\ ready' = ready
    <2>1. Len(ready') = 0
      BY <1>2
    <2> QED  BY <1>1, <2>1 DEF CompletionsHaveTakers
  <1>3. CASE IoWaits(t)
    BY <1>2, <1>3 DEF IoWaits
  <1>4. CASE IoWoken(t)
    <2>1. /\ WaitEnds(t, "wrIoWait", "wrComplete")
          /\ ready' = ready /\ abandoned' = abandoned
      BY <1>4 DEF IoWoken
    <2>2. OthersKeep(t) /\ Moves(t, "wrComplete")
      BY <2>1, OwnStep
    <2> QED  BY <2>1, <2>2, LenKept, MoveKeepsTakers
  <1>5. CASE IoInterrupted(t) /\ ready # << >>
    <2>1. abandoned'
      BY <1>5 DEF IoInterrupted
    <2> QED  BY <2>1 DEF CompletionsHaveTakers
  <1>6. CASE IoInterrupted(t) /\ ready = << >>
    BY <1>2, <1>6 DEF IoInterrupted
  <1> QED  BY <1>3, <1>4, <1>5, <1>6

LEMMA WaitRecvStepKeepsTakers ==
  ASSUME ClientInv, ClientInv', HandsInv, CompletionsHaveTakers, NEW t \in Threads,
         \/ Refused(t) \/ Leaves(t) \/ AddsDesc(t) \/ Returns(t)
         \/ \E from \in LooksFrom : \/ BusinessWaits(t, from) \/ BusinessAborts(t, from)
                                    \/ LeavesPolling(t, from)
         \/ BusinessWoken(t)
  PROVE  CompletionsHaveTakers'
PROOF
  <1> USE DEF doneVars, ownedVars, groupVars
  <1>1. ready' = ready /\ abandoned' = abandoned
    BY DEF Refused, Leaves, AddsDesc, Returns, BusinessWaits, BusinessAborts,
           LeavesPolling, BusinessWoken
  <1>2. LooksFrom \subseteq {"wrTest", "wrBusiness"}
    BY DEF LooksFrom
  <1>3. CASE Refused(t) \/ Leaves(t) \/ AddsDesc(t)
    <2>1. PICK to \in {"mwUnlock"} : Moves(t, to)
      BY <1>3 DEF Refused, Leaves, AddsDesc, GoTo, Moves
    <2>2. pc[t] \in {"wrRefused", "wrLeave", "add"}
      BY <1>3 DEF Refused, Leaves, AddsDesc, At
    <2>3. Wakes
      BY <1>3, TestForShutdownWakes, NotifyWakes, MWaitAssumption
         DEF Refused, Leaves, AddsDesc
    <2> QED  BY <1>1, <2>1, <2>2, <2>3, WakesKeepsOthers, LenKept, MoveKeepsTakers
  <1>4. CASE Returns(t)
    <2>1. Unlock(t, Ml, "mwUnlock", "run")
      BY <1>4 DEF Returns
    <2>2. OthersKeep(t) /\ Moves(t, "run") /\ pc[t] = "mwUnlock"
      BY <2>1, OwnStep
    <2> QED  BY <1>1, <2>2, LenKept, MoveKeepsTakers
  <1>5. ASSUME NEW from \in LooksFrom,
               BusinessWaits(t, from) \/ BusinessAborts(t, from) \/ LeavesPolling(t, from)
        PROVE  CompletionsHaveTakers'
    <2>1. PICK to \in {"wrBusinessWait", "wrLeave", "wrComplete"} :
                 \/ Wait(t, NewBusiness, from, to) \/ WaitFails(t, NewBusiness, from, to)
                 \/ Continue(t, from, to)
      BY <1>5 DEF BusinessWaits, BusinessAborts, LeavesPolling
    <2>2. OthersKeep(t) /\ Moves(t, to) /\ pc[t] = from
      BY <2>1, OwnStep
    <2> QED  BY <1>1, <1>2, <2>2, LenKept, MoveKeepsTakers
  <1>6. CASE BusinessWoken(t)
    <2>1. PICK to \in {"wrLeave", "wrBusiness"} : WaitEnds(t, "wrBusinessWait", to)
      BY <1>6 DEF BusinessWoken
    <2>2. OthersKeep(t) /\ Moves(t, to) /\ pc[t] = "wrBusinessWait"
      BY <2>1, OwnStep
    <2> QED  BY <1>1, <2>2, LenKept, MoveKeepsTakers
  <1> QED  BY <1>3, <1>4, <1>5, <1>6

\* The steps of _MW_PollInternal and PR_CancelWaitGroup that complete nothing.
LEMMA PollStepKeepsTakers ==
  ASSUME ClientInv, ClientInv', HandsInv, CompletionsHaveTakers, NEW t \in Threads,
         \/ \E from \in LooksFrom : PollInternal(t, from)
         \/ ScanBegins(t) \/ ScanEnds(t) \/ PollReturns(t) \/ PollFails(t) \/ PollLocks(t)
         \/ PollAgain(t) \/ PollEnds(t) \/ PollGivesUp(t)
  PROVE  CompletionsHaveTakers'
PROOF
  <1> USE DEF doneVars, ownedVars, groupVars
  <1>1. ready' = ready /\ abandoned' = abandoned
    BY DEF PollInternal, ScanBegins, ScanEnds, PollReturns, PollFails, PollLocks,
           PollAgain, PollEnds, PollGivesUp
  <1>2. CASE PollFails(t)
    <2>1. Moves(t, "pollFailed") /\ pc[t] = "polling" /\ phase' = phase
      BY <1>2 DEF PollFails, At, GoTo, Moves, ClearInterrupt
    <2>2. OthersKeep(t)
      BY <2>1 DEF OthersKeep
    <2> QED  BY <1>1, <2>1, <2>2, LenKept, MoveKeepsTakers
  <1>3. CASE ~PollFails(t)
    <2>1. PICK from \in PollPcs \cup {"wrTest", "wrBusiness"},
               to \in PollPcs \cup {"wrTest", "wrLeave"} :
                 \/ Lock(t, Ml, from, to) \/ Unlock(t, Ml, from, to)
                 \/ Continue(t, from, to)
      BY <1>3 DEF PollInternal, ScanBegins, ScanEnds, PollReturns, PollLocks,
                  PollAgain, PollEnds, PollGivesUp, PollPcs, LooksFrom
    <2>2. OthersKeep(t) /\ Moves(t, to) /\ pc[t] = from
      BY <2>1, OwnStep
    <2>3. from \notin {"wrIoWait", "wrComplete"} /\ to # "wrIoWait"
      BY DEF PollPcs
    <2> QED  BY <1>1, <2>2, <2>3, LenKept, MoveKeepsTakers
  <1> QED  BY <1>2, <1>3

LEMMA CancelStepKeepsTakers ==
  ASSUME ClientInv, ClientInv', HandsInv, CompletionsHaveTakers, NEW t \in Threads,
         \/ CancelWaits(t) \/ CancelWoken(t) \/ CancelMarked(t) \/ CancelTakes(t)
         \/ CancelFindsNone(t)
  PROVE  CompletionsHaveTakers'
PROOF
  <1> USE DEF doneVars, ownedVars, groupVars
  <1>1. abandoned' = abandoned
    BY DEF CancelWaits, CancelWoken, CancelMarked, CancelTakes, CancelFindsNone
  <1>2. CASE ready' = ready
    <2>1. CASE CancelMarked(t)
      <3>1. Moves(t, "cgTake") /\ pc[t] = "cgWait" /\ NotifyAll(t, NewBusiness)
        BY <2>1 DEF CancelMarked, At, GoTo, Moves
      <3>2. Wakes
        BY <3>1, NotifyAllWakes, MWaitAssumption
      <3> QED  BY <1>1, <1>2, <3>1, <3>2, WakesKeepsOthers, LenKept, MoveKeepsTakers
    <2>2. CASE CancelWaits(t) \/ CancelWoken(t) \/ CancelFindsNone(t) \/ CancelTakes(t)
      <3>1. PICK from \in CancelPcs, to \in CancelPcs \cup {"mwUnlock"} :
                   \/ Wait(t, MwManage, from, to) \/ WaitFails(t, MwManage, from, to)
                   \/ WaitEnds(t, from, to) \/ Continue(t, from, to)
        BY <2>2 DEF CancelWaits, CancelWoken, CancelFindsNone, CancelTakes, CancelPcs
      <3>2. OthersKeep(t) /\ Moves(t, to) /\ pc[t] = from
        BY <3>1, OwnStep
      <3>3. from \notin {"wrIoWait", "wrComplete"} /\ to # "wrIoWait"
        BY DEF CancelPcs
      <3> QED  BY <1>1, <1>2, <3>2, <3>3, LenKept, MoveKeepsTakers
    <2> QED  BY <2>1, <2>2
  <1>3. CASE CancelTakes(t)
    <2>1. /\ Continue(t, "cgTake", "mwUnlock")
          /\ ready # << >> /\ ready' = Tail(ready)
      BY <1>3 DEF CancelTakes
    <2>2. OthersKeep(t) /\ Moves(t, "mwUnlock") /\ pc[t] = "cgTake"
      BY <2>1, OwnStep
    <2>3. ready' \in Seq(Entries) /\ Len(ready') <= Len(ready)
      BY <2>1, TailShorter
    <2> QED  BY <1>1, <2>2, <2>3, MoveKeepsTakers
  <1> QED  BY <1>2, <1>3 DEF CancelWaits, CancelWoken, CancelMarked, CancelFindsNone

\* The steps that complete something.
LEMMA DoneStepKeepsTakers ==
  ASSUME ClientInv, ClientInv', HandsInv, CompletionsHaveTakers, NEW t \in Threads,
         \/ Cancels(t)
         \/ \E d \in Descs : Expires(t, d) \/ Collects(t, d) \/ CancelMarks(t, d)
  PROVE  CompletionsHaveTakers'
PROOF
  <1> USE DEF ownedVars
  <1>1. CASE Cancels(t)
    <2>1. /\ pc[t] = "cancel" /\ Moves(t, "mwUnlock") /\ abandoned' = abandoned
          /\ Done(t, desc[t], "interrupt")
      BY <1>1 DEF Cancels, At, GoTo, Moves
    <2>2. desc[t] \in Descs /\ "interrupt" \in Outcomes
      BY <2>1 DEF HandsInv, HandInv, Outcomes
    <2> QED  BY <2>1, <2>2, DoneKeepsTakers
  <1>2. ASSUME NEW d \in Descs, Expires(t, d) \/ Collects(t, d) \/ CancelMarks(t, d)
        PROVE  CompletionsHaveTakers'
    <2>1. pc' = pc /\ abandoned' = abandoned
      BY <1>2 DEF Expires, Collects, CancelMarks
    <2>2. PICK o \in Outcomes : Done(t, d, o)
      BY <1>2 DEF Expires, Collects, CancelMarks, Outcomes
    <2> QED  BY <2>1, <2>2, DoneKeepsTakers
  <1> QED  BY <1>1, <1>2

LEMMA NextCompletionsHaveTakers ==
  ClientInv /\ HandsInv /\ CompletionsHaveTakers /\ [MwNext]_mwVars
    => CompletionsHaveTakers'
PROOF
  <1> SUFFICES ASSUME ClientInv, HandsInv, CompletionsHaveTakers, [MwNext]_mwVars
               PROVE  CompletionsHaveTakers'
    OBVIOUS
  <1>0. ClientInv'
    BY NextClientInv
  <1>1. ASSUME NEW t \in Threads, MwBegins(t)  PROVE CompletionsHaveTakers'
    BY <1>0, <1>1, MwBeginsKeepsTakers
  <1>2. ASSUME UNCHANGED <<pc, ready, abandoned>>,
               \A u \in Threads : \/ phase'[u] = phase[u]
                                  \/ phase[u] # "out" /\ phase'[u] # "waiting"
        PROVE  CompletionsHaveTakers'
    <2>1. Takers \subseteq Takers'
      BY <1>2 DEF Takers
    <2>2. Waiting(IoComplete)' \subseteq Waiting(IoComplete)
      BY <1>0, <1>2, IoWaiters, IoWaitersNext DEF TakersInv
    <2> QED  BY <1>0, <1>2, <2>1, <2>2, LenKept, KeepsTakers
  <1>3. ASSUME NEW t \in Threads, MwGoesOn(t)  PROVE CompletionsHaveTakers'
    <2>1. CASE Relock(t) /\ UNCHANGED groupVars
      <3>1. phase[t] = "woken" /\ phase' = [phase EXCEPT ![t] = "back"] /\ pc' = pc
        BY <2>1, RelockKeepsClientInv
      <3>2. \A u \in Threads : \/ phase'[u] = phase[u]
                               \/ phase[u] # "out" /\ phase'[u] # "waiting"
        BY <3>1 DEF ClientInv, ACvTypeOK
      <3> QED  BY <1>2, <2>1, <3>1, <3>2 DEF groupVars, doneVars, ownedVars
    <2> QED  BY <1>0, <1>3, <2>1, TakesKeepsTakers, IoStepKeepsTakers,
                WaitRecvStepKeepsTakers, PollStepKeepsTakers, CancelStepKeepsTakers,
                DoneStepKeepsTakers DEF MwGoesOn
  <1>4. ASSUME NEW t \in Threads, MwInterrupts(t)  PROVE CompletionsHaveTakers'
    <2>1. Wakes /\ pc' = pc
      BY <1>4, InterruptWakes DEF MwInterrupts
    <2>2. \A u \in Threads : \/ phase'[u] = phase[u]
                             \/ phase[u] # "out" /\ phase'[u] # "waiting"
      BY <2>1 DEF Wakes
    <2> QED  BY <1>2, <1>4, <2>1, <2>2 DEF MwInterrupts, groupVars, doneVars, ownedVars
  <1>5. ASSUME NEW d \in Descs, Arrives(d)  PROVE CompletionsHaveTakers'
    BY <1>2, <1>5 DEF Arrives, clientVars, acvVars, groupVars, doneVars, ownedVars
  <1>6. CASE UNCHANGED mwVars
    BY <1>2, <1>6 DEF mwVars, clientVars, acvVars, groupVars, doneVars, ownedVars
  <1> QED  BY <1>1, <1>3, <1>4, <1>5, <1>6 DEF MwNext

-----------------------------------------------------------------------------
(* The results.                                                            *)

\* The inductive invariant.
MWaitInv == /\ ClientInv /\ HandsInv /\ PollInv /\ QuietInv /\ OwnersInv
            /\ CompletionsHaveTakers

LEMMA InitMWaitInv == MwInit => MWaitInv
PROOF
  <1> SUFFICES ASSUME MwInit  PROVE MWaitInv
    OBVIOUS
  <1>1. NoThread \notin Threads /\ NoCvar \notin CVars /\ Ml \in Locks /\ NoDesc \notin Descs
    BY ACvAssumption, MWaitAssumption
  <1>2. \A t \in Threads : /\ pc[t] = "run" /\ phase[t] = "out" /\ on[t] = NoCvar
                           /\ desc[t] = NoDesc
    BY DEF MwInit, ACvInit
  <1>3. holder[Ml] = NoThread
    BY <1>1 DEF MwInit, ACvInit
  <1>4. ClientInv
    <2>1. ACvTypeOK
      BY DEF MwInit, ACvInit, ACvTypeOK, Phases
    <2>2. pc \in [Threads -> AllPcs]
      BY DEF MwInit, AllPcs, OutsidePcs
    <2> QED  BY <1>1, <1>2, <1>3, <2>1, <2>2
             DEF ClientInv, LockInv, WaitInv, InsidePcs, BlockedPcs
  <1>5. HandsInv
    <2>1. << >> \in Seq(Entries)
      OBVIOUS
    <2>2. GroupTypes
      BY <2>1 DEF MwInit, GroupTypes
    <2> QED  BY <1>2, <2>2 DEF HandsInv, HandInv
  <1>6. Counted = {}
    BY <1>2 DEF Counted, WaitPcs, PollPcs
  <1>7. PollInv
    BY <1>1, <1>2, <1>6, FS_EmptySet DEF MwInit, PollInv, OnePoller, Counted, PollPcs
  <1>8. QuietInv
    BY <1>2 DEF MwInit, QuietInv
  <1>9. OwnersInv
    <2>1. ready = << >> /\ free = Descs /\ table = {}
      BY DEF MwInit
    <2>2. Finished = << >> /\ Range(Finished) = {} /\ IsInjective(Finished)
      BY <2>1 DEF Finished, Range, IsInjective
    <2>3. \A t \in Threads : InHand(t) = {}
      BY <1>2 DEF InHand
    <2> QED  BY <2>1, <2>2, <2>3 DEF OwnersInv
  <1>10. CompletionsHaveTakers
    BY <1>2 DEF CompletionsHaveTakers, Waiting
  <1> QED  BY <1>4, <1>5, <1>7, <1>8, <1>9, <1>10 DEF MWaitInv

LEMMA NextMWaitInv == MWaitInv /\ [MwNext]_mwVars => MWaitInv'
PROOF
  BY NextClientInv, NextHandsInv, NextPollInv, NextQuietInv, NextOwnersInv,
     NextCompletionsHaveTakers DEF MWaitInv

LEMMA SpecMWaitInv == MwSpec => []MWaitInv
PROOF
  BY InitMWaitInv, NextMWaitInv, PTL DEF MwSpec

\* At any time at most one thread polls for a wait group: exactly the one that
\* group->poller names; group->waiting_threads is the number of threads in
\* PR_WaitRecvReady, however they leave it; and the fields have their types.
THEOREM SpecMwInv == MwSpec => []MwInv
PROOF
  <1>1. MWaitInv => MwInv
    <2> SUFFICES ASSUME MWaitInv  PROVE MwInv
      OBVIOUS
    <2>1. OnePoller /\ Counted \subseteq Workers
      BY DEF MWaitInv, PollInv
    <2>2. IsFiniteSet(Workers)
      BY MWaitAssumption, FS_Subset
    <2>3. Cardinality(Counted) <= Cardinality(Workers)
      BY <2>1, <2>2, FS_Subset
    <2>4. IsFiniteSet(Counted)
      BY <2>1, <2>2, FS_Subset
    <2>5. Cardinality(Counted) \in Nat /\ Cardinality(Workers) \in Nat
      BY <2>2, <2>4, FS_CardinalityType
    <2>6. waiting = Cardinality(Counted)
      BY <2>1 DEF OnePoller, Counted
    <2>7. waiting \in 0 .. Cardinality(Workers)
      BY <2>3, <2>5, <2>6
    <2>8. pc \in [Threads -> {"run", "add", "wrRefused", "cancel", "mwUnlock"}
                               \cup WaitPcs \cup PollPcs \cup CancelPcs]
      BY DEF MWaitInv, ClientInv, AllPcs, InsidePcs, OutsidePcs, BlockedPcs, WaitPcs,
             PollPcs, CancelPcs
    <2> QED  BY <2>1, <2>7, <2>8
             DEF MwInv, MwTypeOK, MWaitInv, ClientInv, HandsInv, GroupTypes, Entries
  <1> QED  BY <1>1, SpecMWaitInv, PTL

\* When PR_CancelWaitGroup has stopped a group, no thread waits or polls for it any
\* more; and once it has said that nothing is left to reclaim, nothing is, and
\* nothing comes in.
THEOREM SpecStoppedGroupIsQuiet == MwSpec => []StoppedGroupIsQuiet
PROOF
  <1>1. MWaitInv => StoppedGroupIsQuiet
    <2> SUFFICES ASSUME MWaitInv  PROVE StoppedGroupIsQuiet
      OBVIOUS
    <2>1. ASSUME state = "stopped"  PROVE waiting = 0 /\ poller = NoThread
      <3>1. waiting = 0
        BY <2>1 DEF MWaitInv, QuietInv
      <3>2. \A t \in Threads : pc[t] \notin PollPcs
        BY <3>1, WaitersAreCounted DEF MWaitInv
      <3>3. \A t \in Threads : poller # t
        BY <3>2 DEF MWaitInv, PollInv, OnePoller
      <3> QED  BY <3>1, <3>3 DEF MWaitInv, HandsInv, GroupTypes
    <2> QED  BY <2>1 DEF StoppedGroupIsQuiet, MWaitInv, QuietInv
  <1> QED  BY <1>1, SpecMWaitInv, PTL

\* A descriptor is at any time in exactly one place: with the program, in a call
\* that adds it or hands it out, in the table, or once in the list of finished I/O.
\* So no descriptor is lost or handed out twice, whether its poll succeeds, it
\* expires, or it or its group is cancelled meanwhile.
THEOREM SpecDescsHaveOneOwner == MwSpec => []DescsHaveOneOwner
PROOF
  <1>1. MWaitInv => DescsHaveOneOwner
    <2> SUFFICES ASSUME OwnersInv, NEW d \in Descs
                 PROVE  Cardinality({t \in Threads : d \in InHand(t)})
                          + Cardinality({S \in {<<1, free>>, <<2, table>>,
                                                <<3, Range(Finished)>>} : d \in S[2]}) = 1
      BY DEF MWaitInv, OwnersInv, DescsHaveOneOwner
    <2> DEFINE Hands == {t \in Threads : d \in InHand(t)}
               Places == {<<1, free>>, <<2, table>>, <<3, Range(Finished)>>}
               In == {S \in Places : d \in S[2]}
    <2>1. CASE \E t \in Threads : d \in InHand(t)
      <3>1. PICK t \in Threads : d \in InHand(t)
        BY <2>1
      <3>2. Hands = {t}
        BY <3>1 DEF OwnersInv
      <3>3. d \notin free /\ d \notin table /\ d \notin Range(Finished)
        BY <3>1 DEF OwnersInv
      <3>4. In = {}
        BY <3>3
      <3>5. Cardinality(Hands) = 1 /\ Cardinality(In) = 0
        BY <3>2, <3>4, FS_EmptySet, FS_Singleton
      <3> QED  BY <3>5
    <2>2. CASE ~\E t \in Threads : d \in InHand(t)
      <3>1. Hands = {}
        BY <2>2
      <3>2. \E S \in Places : In = {S}
        <4>1. CASE d \in free
          <5>1. d \notin table /\ d \notin Range(Finished)
            BY <4>1 DEF OwnersInv
          <5>2. In = {<<1, free>>}
            BY <4>1, <5>1
          <5> QED  BY <5>2
        <4>2. CASE d \in table
          <5>1. d \notin free /\ d \notin Range(Finished)
            BY <4>2 DEF OwnersInv
          <5>2. In = {<<2, table>>}
            BY <4>2, <5>1
          <5> QED  BY <5>2
        <4>3. CASE d \in Range(Finished)
          <5>1. d \notin free /\ d \notin table
            BY <4>3 DEF OwnersInv
          <5>2. In = {<<3, Range(Finished)>>}
            BY <4>3, <5>1
          <5> QED  BY <5>2
        <4> QED  BY <2>2, <4>1, <4>2, <4>3 DEF OwnersInv
      <3>3. Cardinality(Hands) = 0 /\ Cardinality(In) = 1
        BY <3>1, <3>2, FS_EmptySet, FS_Singleton
      <3> QED  BY <3>3
    <2> QED  BY <2>1, <2>2
  <1> QED  BY <1>1, SpecMWaitInv, PTL

\* As long as a thread waits for completions, every completion has a thread that
\* is on its way to take it, unless one was notified and is interrupted: the notify
\* of each completion is enough, because a thread that is awake takes one only.
THEOREM SpecCompletionsHaveTakers == MwSpec => []CompletionsHaveTakers
PROOF
  <1>1. MWaitInv => CompletionsHaveTakers
    BY DEF MWaitInv
  <1> QED  BY <1>1, SpecMWaitInv, PTL
=============================================================================
