--------------------------- MODULE PrProgramProofs ---------------------------
(***************************************************************************)
(* Proofs about PrProgram, for any threads, objects and programs: the       *)
(* function of an object runs once, threads exist as long as somebody joins *)
(* them, PR_Cleanup is last, and units of a semaphore reach its waiters.    *)
(***************************************************************************)
EXTENDS PrProgram, FiniteSetTheorems, SequenceTheorems, TLAPS

-----------------------------------------------------------------------------
(* The steps of the threads, seen as moves between places.                  *)

FrameOK == /\ pc \in [Threads -> Labels]
           /\ holder \in [Locks -> Threads \cup {NoThread}]

\* t alone moves, and takes no lock from anybody.
Moves(t, from, to) ==
  /\ pc[t] = from /\ pc' = [pc EXCEPT ![t] = to]
  /\ holder' \in [Locks -> Threads \cup {NoThread}]
  /\ \A l \in Locks, u \in Threads \ {t} : holder[l] = u => holder'[l] = u

LEMMA LockMoves ==
  ASSUME FrameOK, NEW t \in Threads, NEW l, NEW from, NEW to,
         Lock(t, l, from, to) \/ Unlock(t, l, from, to)
  PROVE  Moves(t, from, to)
PROOF
  <1>1. NoThread \notin Threads
    BY ACvAssumption
  <1>2. CASE Lock(t, l, from, to)
    <2>1. /\ pc[t] = from /\ pc' = [pc EXCEPT ![t] = to]
          /\ holder[l] = NoThread /\ holder' = [holder EXCEPT ![l] = t]
      BY <1>2 DEF Lock, At, GoTo, Take, Give
    <2> QED  BY <1>1, <2>1 DEF FrameOK, Moves
  <1>3. CASE Unlock(t, l, from, to)
    <2>1. /\ pc[t] = from /\ pc' = [pc EXCEPT ![t] = to]
          /\ holder[l] = t /\ holder' = [holder EXCEPT ![l] = NoThread]
      BY <1>3 DEF Unlock, At, GoTo, Release, Holds
    <2> QED  BY <1>1, <2>1 DEF FrameOK, Moves
  <1> QED  BY <1>2, <1>3

LEMMA WaitMoves ==
  ASSUME FrameOK, NEW t \in Threads, NEW c, NEW from, NEW to,
         \/ Wait(t, c, from, to) \/ WaitFails(t, c, from, to) \/ WaitEnds(t, from, to)
  PROVE  Moves(t, from, to)
PROOF
  <1>1. NoThread \notin Threads
    BY ACvAssumption
  <1>2. CASE Wait(t, c, from, to)
    <2> DEFINE l == CvLock[c]
    <2>1. /\ pc[t] = from /\ pc' = [pc EXCEPT ![t] = to]
          /\ holder[l] = t /\ holder' = [holder EXCEPT ![l] = NoThread]
      BY <1>2 DEF Wait, At, GoTo, BeginWait, Holds
    <2> HIDE DEF l
    <2> QED  BY <1>1, <2>1 DEF FrameOK, Moves
  <1>3. CASE WaitFails(t, c, from, to) \/ WaitEnds(t, from, to)
    <2>1. /\ pc[t] = from /\ pc' = [pc EXCEPT ![t] = to] /\ holder' = holder
      BY <1>3 DEF WaitFails, WaitEnds, At, GoTo, RefuseWait, EndWait
    <2> QED  BY <2>1 DEF FrameOK, Moves
  <1> QED  BY <1>2, <1>3

\* Without a lock, or with a notify.
LEMMA QuietMoves ==
  ASSUME FrameOK, NEW t \in Threads, NEW c, NEW from, NEW to,
         \/ Continue(t, from, to)
         \/ /\ At(t, from) /\ GoTo(t, to)
            /\ Notify(t, c) \/ NotifyAll(t, c) \/ UNCHANGED acvVars
  PROVE  Moves(t, from, to)
PROOF
  <1>1. /\ pc[t] = from /\ pc' = [pc EXCEPT ![t] = to] /\ holder' = holder
    BY DEF Continue, At, GoTo, Notify, NotifyAll, acvVars
  <1> QED  BY <1>1 DEF FrameOK, Moves

\* Creating threads, ...
LEMMA CreateMoves ==
  ASSUME FrameOK, NEW t \in Threads
  PROVE  /\ \A j : CreateRecycled(t, j) => Moves(t, "run", "createLock")
         /\ \A u, j : CreateFresh(t, u, j) => Moves(t, "run", "createLock")
         /\ CreateLocks(t) => Moves(t, "createLock", "createCount")
         /\ CreateCounts(t) => Moves(t, "createCount", "createStart")
         /\ CreateFails(t) => Moves(t, "createStart", "failCount")
         /\ FailCounts(t) => Moves(t, "failCount", "failDone")
         /\ FailReturns(t) => Moves(t, "failDone", "run")
PROOF
  <1>1. FailCounts(t) => Moves(t, "failCount", "failDone")
    BY QuietMoves DEF FailCounts, CountDown, NotifyLast
  <1> QED  BY <1>1, LockMoves, QuietMoves
           DEF CreateRecycled, CreateFresh, CreateLocks, CreateCounts, CreateFails,
               FailReturns

\* ... living, ...
LEMMA LifeMoves ==
  ASSUME FrameOK, NEW t \in Threads
  PROVE  /\ Begin(t) => Moves(t, "created", "enter")
         /\ Enter(t) => Moves(t, "enter", "run")
         /\ Exit(t) => Moves(t, "run", "leave")
         /\ Leave(t) => Moves(t, "leave", "ended")
         /\ NobodyJoins(t) => Moves(t, "ended", "decr")
         /\ EndsJoinable(t) => Moves(t, "ended", "endNotify")
         /\ NotifyJoiner(t) => Moves(t, "endNotify", "endUnlock")
         /\ Park(t) => Moves(t, "endUnlock", "parked")
         /\ DecrLocks(t) => Moves(t, "decr", "decrCount")
         /\ DecrCounts(t) => Moves(t, "decrCount", "decrDone")
         /\ DecrUnlocks(t) => Moves(t, "decrDone", "dead")
         /\ Die(t) => \E to \in {"recycle", "none"} : Moves(t, "dead", to)
         /\ RecycleThread(t) => Moves(t, "recycle", "none")
PROOF
  <1>1. DecrCounts(t) => Moves(t, "decrCount", "decrDone")
    BY QuietMoves DEF DecrCounts, CountDown, NotifyLast
  <1>2. NotifyJoiner(t) => Moves(t, "endNotify", "endUnlock")
    BY QuietMoves DEF NotifyJoiner, TellJoiner
  <1>3. Die(t) => \E to \in {"recycle", "none"} : Moves(t, "dead", to)
    BY QuietMoves DEF Die
  <1> QED  BY <1>1, <1>2, <1>3, LockMoves, QuietMoves
           DEF Begin, Enter, Exit, Leave, NobodyJoins, EndsJoinable, Park, Parks,
               DecrLocks, DecrUnlocks, RecycleThread

\* ... joining, ...
LEMMA JoinMoves ==
  ASSUME FrameOK, NEW t \in Threads
  PROVE  /\ \A u : JoinThread(t, u) => Moves(t, "run", "join")
         /\ JoinLocks(t) => Moves(t, "join", "joinTest")
         /\ JoinWaits(t) => \E to \in {"joinWait", "joinTest"} : Moves(t, "joinTest", to)
         /\ JoinWoken(t) => Moves(t, "joinWait", "joinTest")
         /\ JoinUnlocks(t) => Moves(t, "joinTest", "joined")
PROOF
  <1>1. JoinWaits(t) => \E to \in {"joinWait", "joinTest"} : Moves(t, "joinTest", to)
    BY WaitMoves DEF JoinWaits
  <1> QED  BY <1>1, LockMoves, WaitMoves, QuietMoves
           DEF JoinThread, JoinBegins, JoinLocks, JoinWoken, JoinUnlocks, JoinSees

\* ... cleaning up, ...
LEMMA MainMoves ==
  ASSUME FrameOK, Cleanup \/ MainGoesOn
  PROVE  \E from \in MainPcs \cup {"run"}, to \in MainPcs : Moves(Main, from, to)
PROOF
  <1>1. Main \in Threads
    BY ThreadAssumption
  <1>2. CASE Cleanup \/ CleanupLocks \/ CleanupReturns
    BY <1>1, <1>2, LockMoves, QuietMoves
       DEF Cleanup, CleanupLocks, CleanupReturns, MainPcs
  <1>3. CASE CleanupWaits \/ CleanupWoken
    BY <1>1, <1>3, WaitMoves DEF CleanupWaits, CleanupWoken, MainPcs
  <1> QED  BY <1>2, <1>3 DEF MainGoesOn

\* ... signalling, ...
LEMMA SemMoves ==
  ASSUME FrameOK, NEW t \in Threads, WaitSem(t) \/ PostSem(t) \/ SemGoesOn(t)
  PROVE  \E from, to \in SemPcs \cup {"run"} : Moves(t, from, to)
PROOF
  <1> USE DEF SemPcs
  <1>1. CASE WaitSem(t) \/ PostSem(t) \/ WaitSemReturns(t) \/ PostSemReturns(t)
    BY <1>1, LockMoves DEF WaitSem, PostSem, WaitSemReturns, PostSemReturns
  <1>2. CASE SemWaits(t) \/ SemRefused(t)
    BY <1>2, WaitMoves DEF SemWaits, SemRefused
  <1>3. CASE SemWoken(t) \/ SemInterrupted(t)
    BY <1>3, WaitMoves DEF SemWoken, SemInterrupted, SemWaitEnds
  <1>4. CASE TakeCount(t) \/ PostCounts(t)
    BY <1>4, QuietMoves DEF TakeCount, PostCounts
  <1> QED  BY <1>1, <1>2, <1>3, <1>4 DEF SemGoesOn

\* ... and initialising.
LEMMA OnceMoves ==
  ASSUME FrameOK, NEW t \in Threads
  PROVE  /\ \A o : CallOnce(t, o) => Moves(t, "run", "onceClaim")
         /\ \A o : CallOnceAgain(t, o) => Moves(t, "run", "onceStatus")
         /\ Claim(t) => Moves(t, "onceClaim", IF inProgress[once[t]] THEN "onceLock"
                                                                     ELSE "onceFunc")
         /\ CallFunc(t) => Moves(t, "onceFunc", "oncePublish")
         /\ PublishLocks(t) => Moves(t, "oncePublish", "onceNotify")
         /\ Publish(t) => Moves(t, "onceNotify", "onceDone")
         /\ AwaitLocks(t) => Moves(t, "onceLock", "onceTest")
         /\ Await(t) => \E to \in {"onceWait", "onceTest"} : Moves(t, "onceTest", to)
         /\ AwaitEnds(t) => Moves(t, "onceWait", "onceTest")
         /\ SeeInitialized(t) => Moves(t, "onceTest", "onceDone")
         /\ OnceUnlocks(t) => Moves(t, "onceDone", "onceStatus")
         /\ CallOnceReturns(t) => Moves(t, "onceStatus", "run")
PROOF
  <1>1. Await(t) => \E to \in {"onceWait", "onceTest"} : Moves(t, "onceTest", to)
    BY WaitMoves DEF Await
  <1>2. Claim(t) => Moves(t, "onceClaim", IF inProgress[once[t]] THEN "onceLock"
                                                                 ELSE "onceFunc")
    BY QuietMoves DEF Claim
  <1>3. Publish(t) => Moves(t, "onceNotify", "onceDone")
    BY QuietMoves DEF Publish, WakeCallers
  <1> QED  BY <1>1, <1>2, <1>3, LockMoves, WaitMoves, QuietMoves
           DEF CallOnce, CallOnceAgain, CallFunc, PublishLocks, AwaitLocks, AwaitEnds,
               SeeInitialized, OnceUnlocks, CallOnceReturns

\* Those of two threads.
LEMMA PairMoves ==
  ASSUME FrameOK, NEW t \in Threads, CreateStarts(t) \/ JoinReturns(t)
  PROVE  /\ FrameOK' /\ holder' = holder
         /\ \A u \in Threads : pc'[u] \in {pc[u], "run", "created", "decr"}
PROOF
  <1> USE DEF Labels, LifePcs
  <1>1. CASE CreateStarts(t)
    <2>1. /\ pc' = [pc EXCEPT ![t] = "run", ![target[t]] = "created"]
          /\ holder' = holder
      BY <1>1 DEF CreateStarts, acvVars
    <2> QED  BY <2>1 DEF FrameOK
  <1>2. CASE JoinReturns(t)
    <2>1. /\ pc' = [v \in Threads |-> CASE v = t -> "run"
                                        [] v = target[t] /\ pc[target[t]] = "parked" -> "decr"
                                        [] OTHER -> pc[v]]
          /\ holder' = holder
      BY <1>2 DEF JoinReturns, acvVars
    <2>2. \A v \in Threads : pc'[v] \in {pc[v], "run", "decr"}
      BY <2>1
    <2>3. pc' \in [Threads -> Labels]
      BY <2>1, <2>2 DEF FrameOK
    <2> QED  BY <2>1, <2>2, <2>3 DEF FrameOK
  <1> QED  BY <1>1, <1>2

LEMMA MovesKeepsFrame ==
  ASSUME FrameOK, NEW t \in Threads, NEW from, NEW to \in Labels, Moves(t, from, to)
  PROVE  /\ FrameOK'
         /\ pc'[t] = to /\ \A u \in Threads \ {t} : pc'[u] = pc[u]
PROOF
  BY DEF FrameOK, Moves

\* The steps of a thread's life by itself.
LEMMA OneThreadMoves ==
  ASSUME FrameOK, NEW t \in Threads,
         \/ \E j : Creates(t, j)
         \/ Joins(t) \/ Exit(t)
         \/ ThrGoesOn(t) /\ ~CreateStarts(t) /\ ~JoinReturns(t)
  PROVE  \E from, to \in {"run"} \cup CreatePcs \cup LifePcs \cup JoinPcs :
           Moves(t, from, to)
PROOF
  <1> USE DEF CreatePcs, LifePcs, JoinPcs
  <1>1. CASE \/ \E j : Creates(t, j)
             \/ CreateLocks(t) \/ CreateCounts(t)
             \/ CreateFails(t) \/ FailCounts(t) \/ FailReturns(t)
    BY <1>1, CreateMoves DEF Creates
  <1>2. CASE \/ Exit(t) \/ Begin(t) \/ Enter(t)
             \/ Leave(t) \/ NobodyJoins(t) \/ EndsJoinable(t) \/ NotifyJoiner(t)
             \/ Park(t) \/ DecrLocks(t) \/ DecrCounts(t) \/ DecrUnlocks(t) \/ Die(t)
             \/ RecycleThread(t)
    BY <1>2, LifeMoves
  <1>3. CASE Joins(t) \/ JoinLocks(t) \/ JoinWaits(t) \/ JoinWoken(t) \/ JoinUnlocks(t)
    BY <1>3, JoinMoves DEF Joins
  <1> QED  BY <1>1, <1>2, <1>3 DEF ThrGoesOn

\* No step but those of PR_CallOnce brings a thread into it.
LEMMA OthersLeaveOnce ==
  ASSUME FrameOK, NEW t \in Threads,
         \/ \E j : Creates(t, j)
         \/ Joins(t) \/ Exit(t) \/ ThrGoesOn(t)
         \/ WaitSem(t) \/ PostSem(t) \/ SemGoesOn(t)
         \/ Cleanup \/ MainGoesOn
         \/ Relock(t) \/ InterruptThread(t)
  PROVE  FrameOK' /\ \A u \in Threads : pc'[u] = pc[u] \/ pc'[u] \notin OncePcs
PROOF
  <1> USE DEF Labels, CreatePcs, LifePcs, JoinPcs, MainPcs, SemPcs, OncePcs
  <1>1. ASSUME NEW u \in Threads, NEW from,
               NEW to \in {"run"} \cup CreatePcs \cup LifePcs \cup JoinPcs
                            \cup MainPcs \cup SemPcs,
               Moves(u, from, to)
        PROVE  FrameOK' /\ \A v \in Threads : pc'[v] = pc[v] \/ pc'[v] \notin OncePcs
    BY <1>1, MovesKeepsFrame
  <1>2. CASE CreateStarts(t) \/ JoinReturns(t)
    BY <1>2, PairMoves
  <1>3. CASE \/ \E j : Creates(t, j)
             \/ Joins(t) \/ Exit(t)
             \/ ThrGoesOn(t) /\ ~CreateStarts(t) /\ ~JoinReturns(t)
    <2>1. PICK from, to \in {"run"} \cup CreatePcs \cup LifePcs \cup JoinPcs :
                 Moves(t, from, to)
      BY <1>3, OneThreadMoves
    <2> QED  BY <1>1, <2>1
  <1>4. CASE WaitSem(t) \/ PostSem(t) \/ SemGoesOn(t)
    <2>1. PICK from, to \in SemPcs \cup {"run"} : Moves(t, from, to)
      BY <1>4, SemMoves
    <2> QED  BY <1>1, <2>1
  <1>5. CASE Cleanup \/ MainGoesOn
    <2>1. PICK from \in MainPcs \cup {"run"}, to \in MainPcs : Moves(Main, from, to)
      BY <1>5, MainMoves
    <2>2. Main \in Threads
      BY ThreadAssumption
    <2> QED  BY <1>1, <2>1, <2>2
  <1>6. CASE Relock(t)
    <2>1. pc' = pc /\ holder' = [holder EXCEPT ![CvLock[on[t]]] = t]
      BY <1>6 DEF Relock, Regain, Give
    <2> QED  BY <2>1 DEF FrameOK
  <1>7. CASE InterruptThread(t)
    <2>1. pc' = pc /\ holder' = holder
      BY <1>7 DEF InterruptThread, Interrupt
    <2> QED  BY <2>1 DEF FrameOK
  <1> QED  BY <1>2, <1>3, <1>4, <1>5, <1>6, <1>7

-----------------------------------------------------------------------------
(* PR_CallOnce.                                                            *)

\* Where the function of the argument has set the status.
RunPcs == {"oncePublish", "onceNotify", "onceDone", "onceStatus"}

\* Who claims an object first is the only one to run its function.
OnceInv ==
  /\ OnceTypeOK
  /\ \A o \in Onces : /\ initialized[o] => status[o]
                      /\ ran[o] # {} => inProgress[o]
                      /\ \A t, u \in ran[o] : t = u
  /\ \A t \in Threads :
       /\ pc[t] \in OncePcs => once[t] \in Onces
       /\ pc[t] = "onceFunc" => /\ inProgress[once[t]] /\ ran[once[t]] = {}
                                /\ \A u \in Threads \ {t} :
                                     pc[u] = "onceFunc" => once[u] # once[t]
       /\ pc[t] \in RunPcs => status[once[t]]

LEMMA OthersKeepOnceInv ==
  ASSUME OnceInv, UNCHANGED onceVars,
         \A u \in Threads : pc'[u] = pc[u] \/ pc'[u] \notin OncePcs
  PROVE  OnceInv'
PROOF
  BY DEF OnceInv, OnceTypeOK, onceVars, OncePcs, RunPcs

\* A move that leaves the objects alone, to a place where it is known what is.
LEMMA MoveKeepsOnceInv ==
  ASSUME FrameOK, OnceInv, NEW t \in Threads, NEW from \in OncePcs,
         NEW to \in OncePcs \ {"onceFunc"}, Moves(t, from, to), UNCHANGED onceVars,
         to \in RunPcs => status[once[t]]
  PROVE  FrameOK' /\ OnceInv'
PROOF
  <1>1. FrameOK' /\ pc'[t] = to /\ \A u \in Threads \ {t} : pc'[u] = pc[u]
    BY MovesKeepsFrame DEF Labels
  <1> QED  BY <1>1 DEF OnceInv, OnceTypeOK, onceVars, Moves

LEMMA BeginsKeepsOnceInv ==
  ASSUME FrameOK, OnceInv, NEW t \in Threads, NEW o \in Onces, OnceBegins(t, o)
  PROVE  FrameOK' /\ OnceInv'
PROOF
  <1>1. PICK to \in {"onceClaim", "onceStatus"} :
               Moves(t, "run", to) /\ (to = "onceStatus" => initialized[o])
    BY OnceMoves DEF OnceBegins, CallOnceAgain
  <1>2. FrameOK' /\ pc'[t] = to /\ \A u \in Threads \ {t} : pc'[u] = pc[u]
    BY <1>1, MovesKeepsFrame DEF Labels, OncePcs
  <1>3. /\ once' = [once EXCEPT ![t] = o]
        /\ UNCHANGED <<inProgress, initialized, status, ran>>
    BY DEF OnceBegins, CallOnce, CallOnceAgain
  <1>4. once'[t] = o /\ \A u \in Threads \ {t} : once'[u] = once[u]
    BY <1>3 DEF OnceInv, OnceTypeOK
  <1>5. OnceTypeOK'
    BY <1>3 DEF OnceInv, OnceTypeOK
  <1> QED  BY <1>1, <1>2, <1>3, <1>4, <1>5 DEF OnceInv, RunPcs

LEMMA ClaimKeepsOnceInv ==
  ASSUME FrameOK, OnceInv, NEW t \in Threads, Claim(t)
  PROVE  FrameOK' /\ OnceInv'
PROOF
  <1> DEFINE o == once[t]
             to == IF inProgress[o] THEN "onceLock" ELSE "onceFunc"
  <1>1. Moves(t, "onceClaim", to) /\ pc[t] = "onceClaim"
    BY OnceMoves DEF Moves
  <1>2. o \in Onces
    BY <1>1 DEF OnceInv, OncePcs
  <1>3. to \in Labels
    BY DEF Labels, OncePcs
  <1>4. FrameOK' /\ pc'[t] = to /\ \A u \in Threads \ {t} : pc'[u] = pc[u]
    BY <1>1, <1>3, MovesKeepsFrame
  <1>5. /\ inProgress' = [inProgress EXCEPT ![o] = TRUE]
        /\ UNCHANGED <<initialized, status, once, ran>>
    BY DEF Claim, SetInProgress
  <1>6. inProgress'[o] /\ \A p \in Onces \ {o} : inProgress'[p] = inProgress[p]
    BY <1>2, <1>5 DEF OnceInv, OnceTypeOK
  <1>7. OnceTypeOK'
    BY <1>5 DEF OnceInv, OnceTypeOK
  <1>8. CASE inProgress[o]
    BY <1>2, <1>4, <1>5, <1>6, <1>7, <1>8 DEF OnceInv, RunPcs, OncePcs
  <1>9. CASE ~inProgress[o]
    <2>1. ran[o] = {} /\ \A u \in Threads : pc[u] = "onceFunc" => once[u] # o
      BY <1>2, <1>9 DEF OnceInv
    <2> QED  BY <1>2, <1>4, <1>5, <1>6, <1>7, <1>9, <2>1 DEF OnceInv, RunPcs, OncePcs
  <1> QED  BY <1>8, <1>9

LEMMA FuncKeepsOnceInv ==
  ASSUME FrameOK, OnceInv, NEW t \in Threads, CallFunc(t)
  PROVE  FrameOK' /\ OnceInv'
PROOF
  <1> DEFINE o == once[t]
  <1>1. Moves(t, "onceFunc", "oncePublish") /\ pc[t] = "onceFunc"
    BY OnceMoves DEF Moves
  <1>2. o \in Onces /\ ran[o] = {} /\ inProgress[o]
    BY <1>1 DEF OnceInv, OncePcs
  <1>4. FrameOK' /\ pc'[t] = "oncePublish" /\ \A u \in Threads \ {t} : pc'[u] = pc[u]
    BY <1>1, MovesKeepsFrame DEF Labels, OncePcs
  <1>5. /\ status' = [status EXCEPT ![o] = TRUE]
        /\ ran' = [ran EXCEPT ![o] = ran[o] \cup {t}]
        /\ UNCHANGED <<inProgress, initialized, once>>
    BY DEF CallFunc
  <1>6. /\ status'[o] /\ ran'[o] = {t}
        /\ \A p \in Onces \ {o} : status'[p] = status[p] /\ ran'[p] = ran[p]
    BY <1>2, <1>5 DEF OnceInv, OnceTypeOK
  <1>7. OnceTypeOK'
    BY <1>2, <1>5 DEF OnceInv, OnceTypeOK
  <1>8. \A u \in Threads \ {t} : pc[u] = "onceFunc" => once[u] # o
    BY <1>1 DEF OnceInv
  <1>9. \A p \in Onces : status[p] => status'[p]
    BY <1>6
  <1> QED  BY <1>1, <1>2, <1>4, <1>5, <1>6, <1>7, <1>8, <1>9 DEF OnceInv, RunPcs, OncePcs

LEMMA GoesOnKeepsOnceInv ==
  ASSUME FrameOK, OnceInv, NEW t \in Threads, OnceGoesOn(t)
  PROVE  FrameOK' /\ OnceInv'
PROOF
  <1> USE DEF OncePcs, RunPcs
  <1>1. CASE Claim(t) \/ CallFunc(t)
    BY <1>1, ClaimKeepsOnceInv, FuncKeepsOnceInv
  <1>2. CASE PublishLocks(t) \/ AwaitLocks(t) \/ Await(t) \/ AwaitEnds(t)
             \/ SeeInitialized(t) \/ OnceUnlocks(t)
    <2>1. UNCHANGED onceVars
      BY <1>2 DEF PublishLocks, AwaitLocks, Await, AwaitEnds, SeeInitialized, OnceUnlocks
    <2>2. PICK from \in OncePcs, to \in OncePcs \ {"onceFunc"} :
                 /\ Moves(t, from, to)
                 /\ to \in RunPcs => from \in RunPcs \/ initialized[once[t]]
      BY <1>2, OnceMoves DEF SeeInitialized
    <2>3. pc[t] = from
      BY <2>2 DEF Moves
    <2>4. to \in RunPcs => status[once[t]]
      BY <2>2, <2>3 DEF OnceInv
    <2> QED  BY <2>1, <2>2, <2>4, MoveKeepsOnceInv
  <1>3. CASE Publish(t)
    <2>1. Moves(t, "onceNotify", "onceDone") /\ pc[t] = "onceNotify"
      BY <1>3, OnceMoves DEF Moves
    <2>2. FrameOK' /\ pc'[t] = "onceDone" /\ \A u \in Threads \ {t} : pc'[u] = pc[u]
      BY <2>1, MovesKeepsFrame DEF Labels
    <2>3. once[t] \in Onces /\ status[once[t]]
      BY <2>1 DEF OnceInv
    <2>4. /\ initialized' = [initialized EXCEPT ![once[t]] = TRUE]
          /\ UNCHANGED <<inProgress, status, once, ran>>
      BY <1>3 DEF Publish
    <2>5. OnceTypeOK'
      BY <2>4 DEF OnceInv, OnceTypeOK
    <2>6. \A o \in Onces : initialized'[o] => status[o]
      BY <2>3, <2>4 DEF OnceInv, OnceTypeOK
    <2> QED  BY <2>1, <2>2, <2>3, <2>4, <2>5, <2>6 DEF OnceInv
  <1>4. CASE CallOnceReturns(t)
    <2>1. Moves(t, "onceStatus", "run")
      BY <1>4, OnceMoves
    <2>2. FrameOK' /\ pc'[t] = "run" /\ \A u \in Threads \ {t} : pc'[u] = pc[u]
      BY <2>1, MovesKeepsFrame DEF Labels
    <2>3. /\ once' = [once EXCEPT ![t] = NoOnce]
          /\ UNCHANGED <<inProgress, initialized, status, ran>>
      BY <1>4 DEF CallOnceReturns
    <2>4. OnceTypeOK' /\ \A u \in Threads \ {t} : once'[u] = once[u]
      BY <2>3 DEF OnceInv, OnceTypeOK
    <2> QED  BY <2>2, <2>3, <2>4 DEF OnceInv
  <1> QED  BY <1>1, <1>2, <1>3, <1>4 DEF OnceGoesOn

LEMMA NextOnceInv == FrameOK /\ OnceInv /\ [PrNext]_programVars => FrameOK' /\ OnceInv'
PROOF
  <1> SUFFICES ASSUME FrameOK, OnceInv, [PrNext]_programVars  PROVE FrameOK' /\ OnceInv'
    OBVIOUS
  <1>1. ASSUME NEW t \in Threads, UNCHANGED onceVars,
               \/ \E j : Creates(t, j)
               \/ Joins(t) \/ Exit(t) \/ ThrGoesOn(t)
               \/ WaitSem(t) \/ PostSem(t) \/ SemGoesOn(t)
               \/ Cleanup \/ MainGoesOn
               \/ Relock(t) \/ InterruptThread(t)
        PROVE  FrameOK' /\ OnceInv'
    BY <1>1, OthersLeaveOnce, OthersKeepOnceInv
  <1>2. ASSUME NEW t \in Threads, Starts(t)  PROVE FrameOK' /\ OnceInv'
    BY <1>1, <1>2, BeginsKeepsOnceInv DEF Starts
  <1>3. ASSUME NEW t \in Threads, Proceeds(t)  PROVE FrameOK' /\ OnceInv'
    BY <1>1, <1>3, GoesOnKeepsOnceInv DEF Proceeds
  <1>4. ASSUME NEW t \in Threads, Interrupted(t)  PROVE FrameOK' /\ OnceInv'
    BY <1>1, <1>4 DEF Interrupted
  <1>5. CASE UNCHANGED programVars
    <2>1. UNCHANGED <<holder, pc>> /\ UNCHANGED onceVars
      BY <1>5 DEF programVars, clientVars, acvVars
    <2> QED  BY <2>1, OthersKeepOnceInv DEF FrameOK
  <1> QED  BY <1>2, <1>3, <1>4, <1>5 DEF PrNext

-----------------------------------------------------------------------------
(* Creation, exit and join.                                                *)

\* Where a thread has been told to end, or does not exist.
EndPcs == {"none", "decr", "decrCount", "decrDone", "dead", "recycle"}

LifeTypes == /\ joinable \in [Threads -> BOOLEAN]
             /\ state \in [Threads -> States]
             /\ deadQ \in Seq(Pool)
             /\ target \in [Threads -> Pool \cup {NoThread}]
             /\ joiner \in [Threads -> Threads \cup {NoThread}]

\* The dead threads that are kept are different and do not live.
DeadInv == /\ \A i \in DOMAIN deadQ : pc[deadQ[i]] = "none"
           /\ \A i, k \in DOMAIN deadQ : deadQ[i] = deadQ[k] => i = k

\* Who creates a thread has one that does not live, and has it alone.
CreateInv(t) ==
  pc[t] \in CreatePcs =>
    /\ target[t] \in Pool /\ pc[target[t]] = "none"
    /\ \A i \in DOMAIN deadQ : deadQ[i] # target[t]
    /\ \A u \in Threads \ {t} : pc[u] \in CreatePcs => target[u] # target[t]

\* A thread that is to be joined does not end before, ...
JoinableInv(t) == joiner[t] # NoThread => joinable[t] /\ pc[t] \notin EndPcs

\* ... and waits for the join when it says so.
ParkInv(t) == /\ state[t] = "JOIN_WAIT" => pc[t] \in {"endUnlock", "parked"}
              /\ pc[t] \in {"endNotify", "endUnlock"} => holder[TermLock] = t

JoinInv(t) == /\ pc[t] \in JoinPcs => target[t] \in Pool /\ joiner[target[t]] = t
              /\ pc[t] = "joined" => pc[target[t]] = "parked"

LifeInv == /\ LifeTypes /\ DeadInv /\ pc[Main] \notin LifePcs
           /\ \A t \in Threads : /\ CreateInv(t) /\ JoinableInv(t)
                                 /\ ParkInv(t) /\ JoinInv(t)

\* A move of a thread that creates nothing, joins nothing and tells nobody, ...
LEMMA MoveKeepsLife ==
  ASSUME FrameOK, LifeInv, NEW t \in Threads, NEW from, NEW to \in Labels,
         Moves(t, from, to), UNCHANGED <<state, joinable, deadQ, target, joiner>>,
         from \notin {"none", "parked"}, to # "none",
         to \in CreatePcs => from \in CreatePcs,
         to \in JoinPcs => from \in JoinPcs,
         to = "joined" => pc[target[t]] = "parked",
         to \in EndPcs => from \in EndPcs \/ joiner[t] = NoThread,
         to \in LifePcs => t # Main,
         from = "endUnlock" => to = "parked",
         to \in {"endNotify", "endUnlock"} => holder'[TermLock] = t
  PROVE  LifeInv'
PROOF
  <1>1. pc[t] = from /\ pc'[t] = to /\ \A u \in Threads \ {t} : pc'[u] = pc[u]
    <2>1. pc'[t] = to /\ \A u \in Threads \ {t} : pc'[u] = pc[u]
      BY MovesKeepsFrame
    <2> QED  BY <2>1 DEF Moves
  <1>2. LifeTypes' /\ LifeTypes
    BY DEF LifeInv, LifeTypes
  <1>3. \A i \in DOMAIN deadQ : deadQ[i] \in Threads
    BY <1>2 DEF LifeTypes, Pool
  <1>4. \A u \in Threads : pc[u] = "none" <=> pc'[u] = "none"
    BY <1>1
  <1>5. DeadInv'
    BY <1>3, <1>4 DEF LifeInv, DeadInv
  <1>6. pc'[Main] \notin LifePcs
    BY <1>1, ThreadAssumption DEF LifeInv
  <1>7. ASSUME NEW u \in Threads  PROVE CreateInv(u)' /\ JoinableInv(u)' /\ JoinInv(u)'
    <2>1. pc'[u] \in CreatePcs => pc[u] \in CreatePcs
      BY <1>1
    <2>2. CreateInv(u)'
      <3>1. \A v \in Threads : pc'[v] \in CreatePcs => pc[v] \in CreatePcs
        BY <1>1
      <3> QED  BY <1>4, <3>1 DEF LifeInv, CreateInv, Pool
    <2>3. JoinableInv(u)'
      BY <1>1 DEF LifeInv, JoinableInv
    <2>4. JoinInv(u)'
      <3>1. pc'[u] \in JoinPcs => pc[u] \in JoinPcs
        BY <1>1
      <3>2. pc'[u] = "joined" => target[u] \in Pool /\ pc[target[u]] = "parked"
        BY <1>1, <3>1 DEF LifeInv, JoinInv, JoinPcs
      <3>3. pc'[u] = "joined" => pc'[target[u]] = "parked"
        BY <1>1, <3>2 DEF Pool
      <3> QED  BY <3>1, <3>3 DEF LifeInv, JoinInv
    <2> QED  BY <2>2, <2>3, <2>4
  <1>8. ASSUME NEW u \in Threads  PROVE ParkInv(u)'
    <2>1. CASE u = t
      BY <1>1, <2>1 DEF LifeInv, ParkInv
    <2>2. CASE u # t
      <3>1. holder[TermLock] = u => holder'[TermLock] = u
        BY <2>2, ThreadAssumption DEF Moves
      <3> QED  BY <1>1, <2>2, <3>1 DEF LifeInv, ParkInv
    <2> QED  BY <2>1, <2>2
  <1> QED  BY <1>2, <1>5, <1>6, <1>7, <1>8 DEF LifeInv

\* ... in particular in other calls.
LEMMA CallKeepsLife ==
  ASSUME FrameOK, LifeInv, NEW t \in Threads,
         NEW from \in {"run"} \cup MainPcs \cup SemPcs \cup OncePcs,
         NEW to \in {"run"} \cup MainPcs \cup SemPcs \cup OncePcs,
         Moves(t, from, to), UNCHANGED <<state, joinable, deadQ, target, joiner>>
  PROVE  LifeInv'
PROOF
  <1>1. /\ to \in Labels /\ to \notin CreatePcs \cup JoinPcs \cup EndPcs \cup LifePcs
        /\ from \notin {"none", "parked", "endUnlock"}
        /\ to \notin {"none", "joined", "endNotify", "endUnlock"}
    BY DEF Labels, MainPcs, SemPcs, OncePcs, CreatePcs, JoinPcs, EndPcs, LifePcs
  <1> QED  BY <1>1, MoveKeepsLife

\* Nobody creates a thread that somebody else creates or keeps.
LEMMA CreatesKeepsLife ==
  ASSUME FrameOK, LifeInv, NEW t \in Threads, NEW j \in BOOLEAN, Creates(t, j)
  PROVE  LifeInv'
PROOF
  <1>1. Moves(t, "run", "createLock")
    BY CreateMoves DEF Creates
  <1>2. /\ pc[t] = "run" /\ pc'[t] = "createLock"
        /\ \A u \in Threads \ {t} : pc'[u] = pc[u]
    BY <1>1, MovesKeepsFrame DEF Moves, Labels, CreatePcs
  <1>3. PICK u \in Pool :
          /\ pc[u] = "none"
          /\ \A v \in Threads : pc[v] \in CreatePcs => target[v] # u
          /\ target' = [target EXCEPT ![t] = u]
          /\ joinable' = [joinable EXCEPT ![u] = j]
          /\ deadQ' \in Seq(Pool) /\ DeadInv'
          /\ \A i \in DOMAIN deadQ' : deadQ'[i] # u
          /\ \A i \in DOMAIN deadQ' : \E k \in DOMAIN deadQ : deadQ'[i] = deadQ[k]
    <2>1. \A u \in Threads : pc[u] = "none" => pc'[u] = "none"
      BY <1>2
    <2>2. CASE CreateRecycled(t, j)
      <3> DEFINE u == Head(deadQ)
      <3>1. deadQ # << >> /\ deadQ \in Seq(Pool) /\ deadQ' = Tail(deadQ)
        BY <2>2 DEF CreateRecycled, LifeInv, LifeTypes
      <3>2. /\ u \in Pool /\ u = deadQ[1] /\ 1 \in DOMAIN deadQ
            /\ deadQ' \in Seq(Pool)
            /\ \A i \in DOMAIN deadQ' : /\ i + 1 \in DOMAIN deadQ /\ i + 1 # 1
                                        /\ deadQ'[i] = deadQ[i + 1]
        BY <3>1
      <3>3. \A i \in DOMAIN deadQ' : deadQ'[i] \in Threads /\ pc[deadQ'[i]] = "none"
        BY <3>1, <3>2 DEF LifeInv, DeadInv, Pool
      <3>4. \A i, k \in DOMAIN deadQ' : deadQ'[i] = deadQ'[k] => i = k
        <4> SUFFICES ASSUME NEW i \in DOMAIN deadQ', NEW k \in DOMAIN deadQ',
                            deadQ'[i] = deadQ'[k]
                     PROVE  i = k
          OBVIOUS
        <4>1. i + 1 = k + 1
          BY <3>2 DEF LifeInv, DeadInv
        <4>2. i \in Int /\ k \in Int
          BY <3>2
        <4> QED  BY <4>1, <4>2
      <3>5. DeadInv'
        BY <2>1, <3>3, <3>4 DEF DeadInv
      <3>6. \A i \in DOMAIN deadQ' : deadQ'[i] # u
        BY <3>2 DEF LifeInv, DeadInv
      <3>7. /\ pc[u] = "none"
            /\ \A v \in Threads : pc[v] \in CreatePcs => target[v] # u
        BY <3>2 DEF LifeInv, DeadInv, CreateInv
      <3>8. /\ target' = [target EXCEPT ![t] = u]
            /\ joinable' = [joinable EXCEPT ![u] = j]
        BY <2>2 DEF CreateRecycled
      <3>9. \A i \in DOMAIN deadQ' : \E k \in DOMAIN deadQ : deadQ'[i] = deadQ[k]
        BY <3>2
      <3> HIDE DEF u
      <3> QED  BY <3>2, <3>5, <3>6, <3>7, <3>8, <3>9
    <2>3. CASE \E u \in Pool : CreateFresh(t, u, j)
      <3>1. PICK u \in Pool : CreateFresh(t, u, j)
        BY <2>3
      <3>2. deadQ' = << >> /\ deadQ = << >>
        BY <3>1 DEF CreateFresh
      <3>3. DeadInv' /\ deadQ' \in Seq(Pool)
        BY <3>2 DEF DeadInv
      <3>4. \A i \in DOMAIN deadQ' : FALSE
        BY <3>2
      <3>5. /\ pc[u] = "none" /\ \A v \in Threads : target[v] # u
            /\ target' = [target EXCEPT ![t] = u]
            /\ joinable' = [joinable EXCEPT ![u] = j]
        BY <3>1 DEF CreateFresh
      <3> QED  BY <3>3, <3>4, <3>5
    <2> QED  BY <2>2, <2>3 DEF Creates
  <1>4. UNCHANGED <<state, joiner>>
    BY DEF Creates, CreateRecycled, CreateFresh
  <1>5. LifeTypes'
    BY <1>3, <1>4 DEF LifeInv, LifeTypes
  <1>6. u # t /\ u \in Threads /\ joiner[u] = NoThread
    BY <1>2, <1>3 DEF LifeInv, JoinableInv, EndPcs, Pool
  <1>7. /\ target'[t] = u /\ \A v \in Threads \ {t} : target'[v] = target[v]
        /\ \A v \in Threads \ {u} : joinable'[v] = joinable[v]
    BY <1>3 DEF LifeInv, LifeTypes
  <1>8. \A v \in Threads : pc[v] = "none" <=> pc'[v] = "none"
    BY <1>2
  <1>9. ASSUME NEW v \in Threads  PROVE CreateInv(v)'
    <2>1. CASE v = t
      BY <1>2, <1>3, <1>6, <1>7, <2>1 DEF CreateInv
    <2>2. CASE v # t
      BY <1>2, <1>3, <1>7, <1>8, <2>2 DEF LifeInv, CreateInv, Pool
    <2> QED  BY <2>1, <2>2
  <1>10. ASSUME NEW v \in Threads  PROVE JoinableInv(v)'
    BY <1>2, <1>4, <1>6, <1>7 DEF LifeInv, JoinableInv, EndPcs
  <1>11. ASSUME NEW v \in Threads  PROVE JoinInv(v)'
    <2>1. pc'[v] \in JoinPcs => v # t /\ pc[v] \in JoinPcs /\ target'[v] = target[v]
      BY <1>2, <1>7 DEF JoinPcs
    <2>2. pc[target[v]] = "parked" /\ target[v] \in Pool => pc'[target[v]] = "parked"
      BY <1>2 DEF Pool
    <2> QED  BY <1>2, <1>4, <2>1, <2>2 DEF LifeInv, JoinInv, JoinPcs
  <1>12. ASSUME NEW v \in Threads  PROVE ParkInv(v)'
    <2>1. holder[TermLock] = v /\ v # t => holder'[TermLock] = v
      BY <1>1, ThreadAssumption DEF Moves
    <2> QED  BY <1>2, <1>4, <2>1 DEF LifeInv, ParkInv
  <1>13. pc'[Main] \notin LifePcs
    BY <1>2, ThreadAssumption DEF LifeInv, LifePcs
  <1> QED  BY <1>3, <1>5, <1>9, <1>10, <1>11, <1>12, <1>13 DEF LifeInv

\* A thread begins to live, and others' joins are not for it.
LEMMA StartKeepsLife ==
  ASSUME FrameOK, LifeInv, NEW t \in Threads, CreateStarts(t)
  PROVE  LifeInv'
PROOF
  <1> DEFINE u == target[t]
  <1>1. /\ pc[t] = "createStart" /\ pc' = [pc EXCEPT ![t] = "run", ![u] = "created"]
        /\ state' = [state EXCEPT ![u] = "RUNNABLE"]
        /\ target' = [target EXCEPT ![t] = NoThread]
        /\ joiner' = [joiner EXCEPT ![u] = IF joinable[u] THEN t ELSE NoThread]
        /\ UNCHANGED <<joinable, deadQ, holder>>
    BY DEF CreateStarts, At, acvVars
  <1>2. /\ u \in Pool /\ pc[u] = "none" /\ \A i \in DOMAIN deadQ : deadQ[i] # u
        /\ \A v \in Threads \ {t} : pc[v] \in CreatePcs => target[v] # u
    BY <1>1 DEF LifeInv, CreateInv, CreatePcs
  <1>3. u # t /\ u \in Threads /\ u # Main /\ joiner[u] = NoThread
    BY <1>1, <1>2 DEF LifeInv, JoinableInv, EndPcs, Pool
  <1> HIDE DEF u
  <1>4. /\ pc'[t] = "run" /\ pc'[u] = "created"
        /\ \A v \in Threads \ {t, u} : pc'[v] = pc[v]
    BY <1>1, <1>2, <1>3 DEF FrameOK
  <1>5. LifeTypes'
    BY <1>1, <1>2, <1>3 DEF LifeInv, LifeTypes, States
  <1>6. /\ state'[u] = "RUNNABLE" /\ \A v \in Threads \ {u} : state'[v] = state[v]
        /\ \A v \in Threads \ {t} : target'[v] = target[v]
        /\ joiner'[u] # NoThread => joinable[u]
        /\ \A v \in Threads \ {u} : joiner'[v] = joiner[v]
    BY <1>1, <1>3 DEF LifeInv, LifeTypes
  <1>7. DeadInv'
    <2>1. \A i \in DOMAIN deadQ : deadQ[i] \in Threads \ {t, u}
      BY <1>1, <1>2 DEF LifeInv, LifeTypes, DeadInv, Pool
    <2> QED  BY <1>1, <1>4, <2>1 DEF LifeInv, DeadInv
  <1>8. ASSUME NEW v \in Threads  PROVE CreateInv(v)'
    <2>1. pc'[v] \in CreatePcs => v \notin {t, u} /\ pc[v] \in CreatePcs
      BY <1>4 DEF CreatePcs
    <2>2. \A w \in Threads : pc'[w] \in CreatePcs => w \notin {t, u} /\ pc[w] \in CreatePcs
      BY <1>4 DEF CreatePcs
    <2>3. \A w \in Threads : w # u /\ pc[w] = "none" => pc'[w] = "none"
      BY <1>1, <1>4
    <2>4. ASSUME pc'[v] \in CreatePcs
          PROVE  /\ target'[v] = target[v] /\ target[v] \in Pool /\ target[v] # u
                 /\ pc[target[v]] = "none"
      BY <1>2, <1>6, <2>1, <2>4 DEF LifeInv, CreateInv
    <2>5. ASSUME pc'[v] \in CreatePcs
          PROVE  /\ \A i \in DOMAIN deadQ : deadQ[i] # target[v]
                 /\ \A w \in Threads \ {v} : pc'[w] \in CreatePcs => target'[w] # target[v]
      BY <1>6, <2>2, <2>5 DEF LifeInv, CreateInv
    <2>6. deadQ' = deadQ /\ Pool \subseteq Threads
      BY <1>1 DEF Pool
    <2> QED  BY <2>3, <2>4, <2>5, <2>6 DEF CreateInv
  <1>9. ASSUME NEW v \in Threads  PROVE JoinableInv(v)'
    BY <1>1, <1>4, <1>6 DEF LifeInv, JoinableInv, EndPcs
  <1>10. ASSUME NEW v \in Threads  PROVE JoinInv(v)'
    <2>1. pc'[v] \in JoinPcs => /\ v \notin {t, u} /\ pc'[v] = pc[v]
                                /\ target'[v] = target[v]
      BY <1>4, <1>6 DEF JoinPcs
    <2>2. v # NoThread
      BY ACvAssumption
    <2>3. pc[v] \in JoinPcs => target[v] # u
      BY <1>3, <2>2 DEF LifeInv, JoinInv
    <2>4. pc[target[v]] = "parked" /\ target[v] \in Pool => target[v] \notin {t, u}
      BY <1>1, <1>2
    <2> QED  BY <1>4, <1>6, <2>1, <2>3, <2>4 DEF LifeInv, JoinInv, JoinPcs, Pool
  <1>11. ASSUME NEW v \in Threads  PROVE ParkInv(v)'
    <2>1. holder' = holder /\ pc[t] = "createStart"
      BY <1>1
    <2>2. v \in {t, u} => state'[v] # "JOIN_WAIT" /\ pc'[v] \notin {"endNotify", "endUnlock"}
      BY <1>3, <1>4, <1>6, <2>1 DEF LifeInv, ParkInv
    <2> QED  BY <1>4, <1>6, <2>1, <2>2 DEF LifeInv, ParkInv
  <1>12. pc'[Main] \notin LifePcs
    BY <1>3, <1>4, ThreadAssumption DEF LifeInv, LifePcs
  <1> QED  BY <1>5, <1>7, <1>8, <1>9, <1>10, <1>11, <1>12 DEF LifeInv

\* The thread that joins lets the other one end.
LEMMA JoinReturnKeepsLife ==
  ASSUME FrameOK, LifeInv, NEW t \in Threads, JoinReturns(t)
  PROVE  LifeInv'
PROOF
  <1> DEFINE u == target[t]
  <1>1. /\ pc[t] = "joined"
        /\ pc' = [v \in Threads |-> CASE v = t -> "run"
                                      [] v = u /\ pc[u] = "parked" -> "decr"
                                      [] OTHER -> pc[v]]
        /\ state' = [state EXCEPT ![u] = "RUNNABLE"]
        /\ target' = [target EXCEPT ![t] = NoThread]
        /\ joiner' = [joiner EXCEPT ![u] = NoThread]
        /\ UNCHANGED <<joinable, deadQ, holder>>
    BY DEF JoinReturns, At, acvVars
  <1>2. u \in Pool /\ pc[u] = "parked" /\ joiner[u] = t
    BY <1>1 DEF LifeInv, JoinInv, JoinPcs
  <1>3. u # t /\ u \in Threads /\ u # Main
    BY <1>1, <1>2 DEF Pool
  <1> HIDE DEF u
  <1>4. /\ pc'[t] = "run" /\ pc'[u] = "decr"
        /\ \A v \in Threads \ {t, u} : pc'[v] = pc[v]
    BY <1>1, <1>2, <1>3
  <1>5. LifeTypes'
    BY <1>1, <1>2, <1>3 DEF LifeInv, LifeTypes, States
  <1>6. /\ state'[u] = "RUNNABLE" /\ \A v \in Threads \ {u} : state'[v] = state[v]
        /\ \A v \in Threads \ {t} : target'[v] = target[v]
        /\ joiner'[u] = NoThread
        /\ \A v \in Threads \ {u} : joiner'[v] = joiner[v]
    BY <1>1, <1>3 DEF LifeInv, LifeTypes
  <1>7. DeadInv'
    <2>1. \A i \in DOMAIN deadQ : deadQ[i] \in Threads \ {t, u}
      BY <1>1, <1>2 DEF LifeInv, LifeTypes, DeadInv, Pool
    <2> QED  BY <1>1, <1>4, <2>1 DEF LifeInv, DeadInv
  <1>8. ASSUME NEW v \in Threads  PROVE CreateInv(v)'
    <2>1. \A w \in Threads : pc'[w] \in CreatePcs => w \notin {t, u} /\ pc[w] \in CreatePcs
      BY <1>4 DEF CreatePcs
    <2>2. \A w \in Threads : pc[w] = "none" => pc'[w] = "none"
      BY <1>1, <1>2, <1>4
    <2> QED  BY <1>1, <1>6, <2>1, <2>2 DEF LifeInv, CreateInv, Pool
  <1>9. ASSUME NEW v \in Threads  PROVE JoinableInv(v)'
    BY <1>1, <1>4, <1>6 DEF LifeInv, JoinableInv, EndPcs
  <1>10. ASSUME NEW v \in Threads  PROVE JoinInv(v)'
    <2>1. pc'[v] \in JoinPcs => /\ v \notin {t, u} /\ pc'[v] = pc[v]
                                /\ target'[v] = target[v]
      BY <1>4, <1>6 DEF JoinPcs
    <2>3. pc'[v] \in JoinPcs => target[v] # u
      BY <1>2, <2>1 DEF LifeInv, JoinInv
    <2>4. pc[target[v]] = "parked" => target[v] # t
      BY <1>1
    <2> QED  BY <1>4, <1>6, <2>1, <2>3, <2>4 DEF LifeInv, JoinInv, JoinPcs, Pool
  <1>11. ASSUME NEW v \in Threads  PROVE ParkInv(v)'
    BY <1>1, <1>3, <1>4, <1>6 DEF LifeInv, ParkInv
  <1>12. pc'[Main] \notin LifePcs
    BY <1>3, <1>4, ThreadAssumption DEF LifeInv, LifePcs
  <1> QED  BY <1>5, <1>7, <1>8, <1>9, <1>10, <1>11, <1>12 DEF LifeInv

\* A creation fails: its thread is nobody's again.
LEMMA FailKeepsLife ==
  ASSUME FrameOK, LifeInv, NEW t \in Threads, FailReturns(t)
  PROVE  LifeInv'
PROOF
  <1> DEFINE u == target[t]
  <1>1. Moves(t, "failDone", "run")
    BY CreateMoves
  <1>2. pc[t] = "failDone" /\ pc'[t] = "run" /\ \A v \in Threads \ {t} : pc'[v] = pc[v]
    <2>1. pc'[t] = "run" /\ \A v \in Threads \ {t} : pc'[v] = pc[v]
      BY <1>1, MovesKeepsFrame DEF Labels
    <2> QED  BY <1>1, <2>1 DEF Moves
  <1>3. /\ joinable' = [joinable EXCEPT ![u] = FALSE]
        /\ target' = [target EXCEPT ![t] = NoThread]
        /\ UNCHANGED <<state, deadQ, joiner>>
    BY DEF FailReturns
  <1>4. u \in Pool /\ pc[u] = "none"
    BY <1>2 DEF LifeInv, CreateInv, CreatePcs
  <1>5. u # t /\ joiner[u] = NoThread /\ u \in Threads
    BY <1>2, <1>4 DEF LifeInv, JoinableInv, EndPcs, Pool
  <1> HIDE DEF u
  <1>6. LifeTypes'
    BY <1>3 DEF LifeInv, LifeTypes
  <1>7. /\ \A v \in Threads \ {t} : target'[v] = target[v]
        /\ \A v \in Threads \ {u} : joinable'[v] = joinable[v]
    BY <1>3 DEF LifeInv, LifeTypes
  <1>8. DeadInv'
    <2>1. \A i \in DOMAIN deadQ : deadQ[i] \in Threads \ {t}
      BY <1>2 DEF LifeInv, LifeTypes, DeadInv, Pool
    <2> QED  BY <1>2, <1>3, <2>1 DEF LifeInv, DeadInv
  <1>9. ASSUME NEW v \in Threads  PROVE CreateInv(v)' /\ JoinInv(v)'
    <2>1. \A w \in Threads : pc'[w] \in CreatePcs \cup JoinPcs => w # t /\ pc'[w] = pc[w]
      BY <1>2 DEF CreatePcs, JoinPcs
    <2>2. \A w \in Threads : w # t => pc'[w] = pc[w]
      BY <1>2
    <2>3. CreateInv(v)'
      BY <1>2, <1>3, <1>7, <2>1, <2>2 DEF LifeInv, CreateInv, Pool
    <2>4. JoinInv(v)'
      BY <1>2, <1>3, <1>7, <2>1, <2>2 DEF LifeInv, JoinInv, JoinPcs, Pool
    <2> QED  BY <2>3, <2>4
  <1>10. ASSUME NEW v \in Threads  PROVE JoinableInv(v)'
    BY <1>2, <1>3, <1>5, <1>7 DEF LifeInv, JoinableInv, EndPcs
  <1>11. ASSUME NEW v \in Threads  PROVE ParkInv(v)'
    <2>1. holder[TermLock] = v /\ v # t => holder'[TermLock] = v
      BY <1>1, ThreadAssumption DEF Moves
    <2> QED  BY <1>2, <1>3, <2>1 DEF LifeInv, ParkInv
  <1>12. pc'[Main] \notin LifePcs
    BY <1>2, ThreadAssumption DEF LifeInv, LifePcs
  <1> QED  BY <1>6, <1>8, <1>9, <1>10, <1>11, <1>12 DEF LifeInv

\* A thread begins to join one that is its own to join.
LEMMA JoinBeginKeepsLife ==
  ASSUME FrameOK, LifeInv, NEW t \in Threads, Joins(t)
  PROVE  LifeInv'
PROOF
  <1>1. PICK u \in Pool : JoinThread(t, u)
    BY DEF Joins
  <1>2. Moves(t, "run", "join") /\ pc[t] = "run"
    BY <1>1, JoinMoves DEF Moves
  <1>3. pc'[t] = "join" /\ \A v \in Threads \ {t} : pc'[v] = pc[v]
    BY <1>2, MovesKeepsFrame DEF Labels, JoinPcs
  <1>4. /\ joiner[u] = t /\ target' = [target EXCEPT ![t] = u]
        /\ UNCHANGED <<state, joinable, deadQ, joiner>>
    BY <1>1 DEF JoinThread, JoinBegins
  <1>5. LifeTypes'
    BY <1>4 DEF LifeInv, LifeTypes
  <1>6. target'[t] = u /\ \A v \in Threads \ {t} : target'[v] = target[v]
    BY <1>4 DEF LifeInv, LifeTypes
  <1>7. DeadInv'
    <2>1. \A i \in DOMAIN deadQ : deadQ[i] \in Threads \ {t}
      BY <1>2 DEF LifeInv, LifeTypes, DeadInv, Pool
    <2> QED  BY <1>3, <1>4, <2>1 DEF LifeInv, DeadInv
  <1>8. ASSUME NEW v \in Threads  PROVE CreateInv(v)'
    <2>1. \A w \in Threads : pc'[w] \in CreatePcs => w # t /\ pc[w] \in CreatePcs
      BY <1>3 DEF CreatePcs
    <2>2. \A w \in Threads : pc[w] = "none" => pc'[w] = "none"
      BY <1>2, <1>3
    <2> QED  BY <1>4, <1>6, <2>1, <2>2 DEF LifeInv, CreateInv, Pool
  <1>9. ASSUME NEW v \in Threads  PROVE JoinInv(v)'
    <2>1. CASE v = t
      BY <1>3, <1>4, <1>6, <2>1 DEF JoinInv
    <2>2. CASE v # t
      <3>1. pc[target[v]] = "parked" => target[v] # t
        BY <1>2
      <3> QED  BY <1>3, <1>4, <1>6, <2>2, <3>1 DEF LifeInv, JoinInv, JoinPcs, Pool
    <2> QED  BY <2>1, <2>2
  <1>10. ASSUME NEW v \in Threads  PROVE JoinableInv(v)' /\ ParkInv(v)'
    <2>1. holder[TermLock] = v /\ v # t => holder'[TermLock] = v
      BY <1>2, ThreadAssumption DEF Moves
    <2> QED  BY <1>2, <1>3, <1>4, <2>1 DEF LifeInv, JoinableInv, ParkInv, EndPcs
  <1>11. pc'[Main] \notin LifePcs
    BY <1>3, ThreadAssumption DEF LifeInv, LifePcs
  <1> QED  BY <1>5, <1>7, <1>8, <1>9, <1>10, <1>11 DEF LifeInv

\* A joinable thread says that it has ended, with the lock its joiner needs to see it.
LEMMA NotifyKeepsLife ==
  ASSUME FrameOK, LifeInv, NEW t \in Threads, NotifyJoiner(t)
  PROVE  LifeInv'
PROOF
  <1>1. Moves(t, "endNotify", "endUnlock") /\ pc[t] = "endNotify"
    BY LifeMoves DEF Moves
  <1>2. pc'[t] = "endUnlock" /\ \A v \in Threads \ {t} : pc'[v] = pc[v]
    BY <1>1, MovesKeepsFrame DEF Labels, LifePcs
  <1>3. /\ state' = [state EXCEPT ![t] = "JOIN_WAIT"]
        /\ UNCHANGED <<joinable, deadQ, target, joiner>> /\ holder' = holder
    BY DEF NotifyJoiner, TellJoiner, Notify
  <1>4. LifeTypes'
    BY <1>3 DEF LifeInv, LifeTypes, States
  <1>5. \A v \in Threads : pc[v] # "endNotify" => pc'[v] = pc[v]
    BY <1>1, <1>2
  <1>6. DeadInv'
    <2>1. \A i \in DOMAIN deadQ : deadQ[i] \in Threads
      BY DEF LifeInv, LifeTypes, Pool
    <2> QED  BY <1>3, <1>5, <2>1 DEF LifeInv, DeadInv
  <1>7. \A w \in Threads : pc'[w] \in CreatePcs \cup JoinPcs => pc'[w] = pc[w]
    BY <1>2 DEF CreatePcs, JoinPcs
  <1>8. ASSUME NEW v \in Threads  PROVE CreateInv(v)' /\ JoinInv(v)'
    <2>1. CreateInv(v)'
      BY <1>3, <1>5, <1>7 DEF LifeInv, CreateInv, Pool
    <2>2. JoinInv(v)'
      BY <1>3, <1>5, <1>7 DEF LifeInv, JoinInv, JoinPcs, Pool
    <2> QED  BY <2>1, <2>2
  <1>9. ASSUME NEW v \in Threads  PROVE JoinableInv(v)'
    BY <1>1, <1>2, <1>3 DEF LifeInv, JoinableInv, EndPcs
  <1>10. ASSUME NEW v \in Threads  PROVE ParkInv(v)'
    <2>1. state'[t] = "JOIN_WAIT" /\ \A w \in Threads \ {t} : state'[w] = state[w]
      BY <1>3 DEF LifeInv, LifeTypes
    <2> QED  BY <1>1, <1>2, <1>3, <2>1 DEF LifeInv, ParkInv
  <1>11. pc'[Main] \notin LifePcs
    BY <1>1, <1>5, ThreadAssumption DEF LifeInv, LifePcs
  <1> QED  BY <1>4, <1>6, <1>8, <1>9, <1>10, <1>11 DEF LifeInv

\* A thread is gone, ...
LEMMA DieKeepsLife ==
  ASSUME FrameOK, LifeInv, NEW t \in Threads, Die(t)
  PROVE  LifeInv'
PROOF
  <1>1. PICK to \in {"recycle", "none"} : Moves(t, "dead", to)
    BY LifeMoves
  <1>2. pc[t] = "dead" /\ pc'[t] = to /\ \A v \in Threads \ {t} : pc'[v] = pc[v]
    <2>1. pc'[t] = to /\ \A v \in Threads \ {t} : pc'[v] = pc[v]
      BY <1>1, MovesKeepsFrame DEF Labels, LifePcs
    <2> QED  BY <1>1, <2>1 DEF Moves
  <1>3. /\ \E s \in {"DEAD", "NONE"} : state' = [state EXCEPT ![t] = s]
        /\ \E j \in BOOLEAN : joinable' = [joinable EXCEPT ![t] = j]
        /\ UNCHANGED <<deadQ, target, joiner>>
    BY DEF Die, LifeInv, LifeTypes
  <1>4. LifeTypes'
    BY <1>3 DEF LifeInv, LifeTypes, States
  <1>5. /\ state'[t] # "JOIN_WAIT" /\ \A v \in Threads \ {t} : state'[v] = state[v]
        /\ \A v \in Threads \ {t} : joinable'[v] = joinable[v]
        /\ joiner[t] = NoThread
    BY <1>2, <1>3 DEF LifeInv, LifeTypes, JoinableInv, EndPcs
  <1>6. \A v \in Threads : pc[v] # "dead" => pc'[v] = pc[v]
    BY <1>2
  <1>7. DeadInv'
    <2>1. \A i \in DOMAIN deadQ : deadQ[i] \in Threads
      BY DEF LifeInv, LifeTypes, Pool
    <2> QED  BY <1>3, <1>6, <2>1 DEF LifeInv, DeadInv
  <1>8. \A w \in Threads : pc'[w] \in CreatePcs \cup JoinPcs => pc'[w] = pc[w]
    BY <1>2 DEF CreatePcs, JoinPcs
  <1>9. ASSUME NEW v \in Threads  PROVE CreateInv(v)' /\ JoinInv(v)'
    <2>1. CreateInv(v)'
      BY <1>3, <1>6, <1>8 DEF LifeInv, CreateInv, Pool
    <2>2. JoinInv(v)'
      BY <1>3, <1>6, <1>8 DEF LifeInv, JoinInv, JoinPcs, Pool
    <2> QED  BY <2>1, <2>2
  <1>10. ASSUME NEW v \in Threads  PROVE JoinableInv(v)'
    BY <1>2, <1>3, <1>5 DEF LifeInv, JoinableInv
  <1>11. ASSUME NEW v \in Threads  PROVE ParkInv(v)'
    <2>1. holder[TermLock] = v /\ v # t => holder'[TermLock] = v
      BY <1>1, ThreadAssumption DEF Moves
    <2> QED  BY <1>2, <1>5, <2>1 DEF LifeInv, ParkInv
  <1>12. pc'[Main] \notin LifePcs
    BY <1>2, ThreadAssumption DEF LifeInv, LifePcs
  <1> QED  BY <1>4, <1>7, <1>9, <1>10, <1>11, <1>12 DEF LifeInv

\* ... and kept for reuse.
LEMMA RecycleKeepsLife ==
  ASSUME FrameOK, LifeInv, NEW t \in Threads, RecycleThread(t)
  PROVE  LifeInv'
PROOF
  <1>1. Moves(t, "recycle", "none")
    BY LifeMoves
  <1>2. pc[t] = "recycle" /\ pc'[t] = "none" /\ \A v \in Threads \ {t} : pc'[v] = pc[v]
    <2>1. pc'[t] = "none" /\ \A v \in Threads \ {t} : pc'[v] = pc[v]
      BY <1>1, MovesKeepsFrame DEF Labels, LifePcs
    <2> QED  BY <1>1, <2>1 DEF Moves
  <1>3. /\ deadQ' = Append(deadQ, t)
        /\ UNCHANGED <<state, joinable, target, joiner>>
    BY DEF RecycleThread
  <1>4. t \in Pool /\ deadQ \in Seq(Pool)
    BY <1>2 DEF LifeInv, LifeTypes, LifePcs, Pool
  <1>5. LifeTypes'
    BY <1>3, <1>4 DEF LifeInv, LifeTypes
  <1>6. \A i \in DOMAIN deadQ' : \/ i \in DOMAIN deadQ /\ deadQ'[i] = deadQ[i]
                                 \/ i = Len(deadQ) + 1 /\ deadQ'[i] = t
    BY <1>3, <1>4
  <1>7. \A i \in DOMAIN deadQ : deadQ[i] # t /\ deadQ[i] \in Threads /\ i # Len(deadQ) + 1
    BY <1>2, <1>4 DEF LifeInv, DeadInv, Pool
  <1>8. DeadInv'
    BY <1>2, <1>6, <1>7 DEF LifeInv, DeadInv
  <1>9. \A v \in Threads : pc[v] # "recycle" => pc'[v] = pc[v]
    BY <1>2
  <1>10. \A w \in Threads : pc'[w] \in CreatePcs \cup JoinPcs => pc'[w] = pc[w]
    BY <1>2 DEF CreatePcs, JoinPcs
  <1>11. ASSUME NEW v \in Threads  PROVE CreateInv(v)' /\ JoinInv(v)'
    <2>1. CreateInv(v)'
      <3> SUFFICES ASSUME pc'[v] \in CreatePcs  PROVE CreateInv(v)'
        BY DEF CreateInv
      <3>1. target[v] \in Pool /\ pc[target[v]] = "none" /\ target[v] # t
        BY <1>2, <1>10 DEF LifeInv, CreateInv
      <3>2. \A i \in DOMAIN deadQ' : deadQ'[i] # target[v]
        BY <1>6, <1>10, <3>1 DEF LifeInv, CreateInv
      <3> QED  BY <1>3, <1>9, <1>10, <3>1, <3>2 DEF LifeInv, CreateInv, Pool
    <2>2. JoinInv(v)'
      BY <1>3, <1>9, <1>10 DEF LifeInv, JoinInv, JoinPcs, Pool
    <2> QED  BY <2>1, <2>2
  <1>12. ASSUME NEW v \in Threads  PROVE JoinableInv(v)' /\ ParkInv(v)'
    <2>1. holder[TermLock] = v /\ v # t => holder'[TermLock] = v
      BY <1>1, ThreadAssumption DEF Moves
    <2> QED  BY <1>2, <1>3, <2>1 DEF LifeInv, JoinableInv, ParkInv, EndPcs
  <1>13. pc'[Main] \notin LifePcs
    BY <1>2, ThreadAssumption DEF LifeInv, LifePcs
  <1> QED  BY <1>5, <1>8, <1>11, <1>12, <1>13 DEF LifeInv

\* The other steps of a life, a creation and a join.
LEMMA PlainKeepsLife ==
  ASSUME FrameOK, LifeInv, NEW t \in Threads,
         \/ CreateLocks(t) \/ CreateCounts(t) \/ CreateFails(t) \/ FailCounts(t)
         \/ Begin(t) \/ Enter(t) \/ Exit(t) \/ Leave(t) \/ NobodyJoins(t)
         \/ EndsJoinable(t) \/ Park(t)
         \/ DecrLocks(t) \/ DecrCounts(t) \/ DecrUnlocks(t)
         \/ JoinLocks(t) \/ JoinWaits(t) \/ JoinWoken(t) \/ JoinUnlocks(t)
  PROVE  LifeInv'
PROOF
  <1> USE DEF Labels, CreatePcs, LifePcs, JoinPcs, EndPcs
  <1>1. UNCHANGED <<state, joinable, deadQ, target, joiner>>
    BY DEF CreateLocks, CreateCounts, CreateFails, FailCounts, CountDown, Begin, Enter,
           Exit, Leave, NobodyJoins, EndsJoinable, Park, DecrLocks, DecrCounts,
           DecrUnlocks, JoinLocks, JoinWaits, JoinWoken, JoinUnlocks, thrVars
  <1>2. pc[t] \in LifePcs => t # Main
    BY DEF LifeInv
  <1>3. CASE CreateLocks(t) \/ CreateCounts(t) \/ CreateFails(t) \/ FailCounts(t)
    BY <1>1, <1>3, CreateMoves, MoveKeepsLife
  <1>4. CASE \/ Begin(t) \/ Enter(t) \/ Leave(t) \/ Park(t)
             \/ DecrLocks(t) \/ DecrCounts(t) \/ DecrUnlocks(t)
    <2>1. PICK from, to \in LifePcs \cup {"run"} :
                 /\ Moves(t, from, to)
                 /\ from \notin {"none", "parked"} /\ from \in LifePcs
                 /\ to \notin {"none", "endNotify", "endUnlock"}
                 /\ from = "endUnlock" => to = "parked"
                 /\ to \in EndPcs => from \in EndPcs
      BY <1>4, LifeMoves
    <2>2. pc[t] = from
      BY <2>1 DEF Moves
    <2> QED  BY <1>1, <1>2, <2>1, <2>2, MoveKeepsLife
  <1>5. CASE Exit(t)
    <2>1. Moves(t, "run", "leave") /\ t # Main
      BY <1>5, LifeMoves DEF Exit, Pool
    <2> QED  BY <1>1, <2>1, MoveKeepsLife
  <1>6. CASE NobodyJoins(t)
    <2>1. Moves(t, "ended", "decr") /\ ~joinable[t] /\ pc[t] = "ended"
      BY <1>6, LifeMoves DEF NobodyJoins, Moves
    <2>2. joiner[t] = NoThread
      BY <2>1 DEF LifeInv, JoinableInv
    <2> QED  BY <1>1, <1>2, <2>1, <2>2, MoveKeepsLife
  <1>7. CASE EndsJoinable(t)
    <2>1. Moves(t, "ended", "endNotify") /\ pc[t] = "ended"
      BY <1>7, LifeMoves DEF Moves
    <2>2. holder'[TermLock] = t
      BY <1>7, ThreadAssumption DEF EndsJoinable, Lock, Take, Give, FrameOK
    <2> QED  BY <1>1, <1>2, <2>1, <2>2, MoveKeepsLife
  <1>8. CASE JoinLocks(t) \/ JoinWaits(t) \/ JoinWoken(t)
    <2>1. PICK from \in {"join", "joinTest", "joinWait"}, to \in {"joinTest", "joinWait"} :
                 Moves(t, from, to)
      BY <1>8, JoinMoves
    <2> QED  BY <1>1, <2>1, MoveKeepsLife
  <1>9. CASE JoinUnlocks(t)
    <2>1. /\ Moves(t, "joinTest", "joined") /\ pc[t] = "joinTest"
          /\ holder[TermLock] = t /\ state[target[t]] = "JOIN_WAIT"
      BY <1>9, JoinMoves DEF JoinUnlocks, JoinSees, Unlock, Release, Holds, Moves
    <2>2. target[t] \in Threads
      BY <2>1 DEF LifeInv, JoinInv, Pool
    <2>3. pc[target[t]] = "parked"
      BY <2>1, <2>2 DEF LifeInv, ParkInv
    <2> QED  BY <1>1, <2>1, <2>3, MoveKeepsLife
  <1> QED  BY <1>3, <1>4, <1>5, <1>6, <1>7, <1>8, <1>9

LEMMA NextLifeInv ==
  program \in Programs /\ FrameOK /\ LifeInv /\ [PrNext]_programVars => LifeInv'
PROOF
  <1> SUFFICES ASSUME program \in Programs, FrameOK, LifeInv, [PrNext]_programVars
               PROVE  LifeInv'
    OBVIOUS
  <1> USE DEF thrVars
  <1>1. ASSUME NEW t \in Threads, WaitSem(t) \/ PostSem(t) \/ SemGoesOn(t),
               UNCHANGED thrVars
        PROVE  LifeInv'
    BY <1>1, SemMoves, CallKeepsLife
  <1>2. ASSUME NEW t \in Threads, OnceGoesOn(t) \/ \E o \in Onces : OnceBegins(t, o),
               UNCHANGED thrVars
        PROVE  LifeInv'
    <2>1. PICK from, to \in OncePcs \cup {"run"} : Moves(t, from, to)
      BY <1>2, OnceMoves DEF OnceGoesOn, OnceBegins, OncePcs
    <2> QED  BY <1>2, <2>1, CallKeepsLife
  <1>3. ASSUME Cleanup \/ MainGoesOn  PROVE LifeInv'
    <2>1. PICK from \in MainPcs \cup {"run"}, to \in MainPcs : Moves(Main, from, to)
      BY <1>3, MainMoves
    <2>2. UNCHANGED <<state, joinable, deadQ, target, joiner>>
      BY <1>3 DEF Cleanup, MainGoesOn, CleanupLocks, CleanupWaits, CleanupWoken,
                  CleanupReturns
    <2> QED  BY <2>1, <2>2, CallKeepsLife, ThreadAssumption
  <1>4. ASSUME UNCHANGED <<pc, state, joinable, deadQ, target, joiner>>,
               \A u \in Threads : holder[TermLock] = u => holder'[TermLock] = u
        PROVE  LifeInv'
    <2>1. /\ LifeTypes' /\ DeadInv' /\ pc'[Main] \notin LifePcs
      BY <1>4 DEF LifeInv, LifeTypes, DeadInv
    <2>2. ASSUME NEW u \in Threads
          PROVE  CreateInv(u)' /\ JoinableInv(u)' /\ ParkInv(u)' /\ JoinInv(u)'
      BY <1>4 DEF LifeInv, CreateInv, JoinableInv, ParkInv, JoinInv
    <2> QED  BY <2>1, <2>2 DEF LifeInv
  <1>5. ASSUME NEW t \in Threads, Starts(t)  PROVE LifeInv'
    <2>1. ASSUME NEW j \in program.joinables, Creates(t, j)  PROVE LifeInv'
      BY <2>1, CreatesKeepsLife, ProgramAssumption
    <2> QED  BY <1>1, <1>2, <1>3, <1>5, <2>1, JoinBeginKeepsLife DEF Starts
  <1>6. ASSUME NEW t \in Threads, ThrGoesOn(t)  PROVE LifeInv'
    BY <1>6, StartKeepsLife, JoinReturnKeepsLife, FailKeepsLife, NotifyKeepsLife,
       DieKeepsLife, RecycleKeepsLife, PlainKeepsLife DEF ThrGoesOn
  <1>7. ASSUME NEW t \in Threads, Relock(t), UNCHANGED thrVars  PROVE LifeInv'
    <2>1. /\ pc' = pc /\ holder[CvLock[on[t]]] = NoThread
          /\ holder' = [holder EXCEPT ![CvLock[on[t]]] = t]
      BY <1>7 DEF Relock, Regain, Give
    <2>2. \A u \in Threads : holder[TermLock] = u => holder'[TermLock] = u
      BY <2>1, ACvAssumption, ThreadAssumption DEF FrameOK
    <2> QED  BY <1>4, <1>7, <2>1, <2>2
  <1>8. ASSUME NEW t \in Threads, Proceeds(t)  PROVE LifeInv'
    BY <1>1, <1>2, <1>3, <1>6, <1>7, <1>8, PlainKeepsLife DEF Proceeds
  <1>9. ASSUME NEW t \in Threads, Interrupted(t)  PROVE LifeInv'
    BY <1>4, <1>9 DEF Interrupted, InterruptThread, Interrupt
  <1>10. CASE UNCHANGED programVars
    BY <1>4, <1>10 DEF programVars, clientVars, acvVars
  <1> QED  BY <1>5, <1>8, <1>9, <1>10 DEF PrNext

-----------------------------------------------------------------------------
(* The count of user threads.                                              *)

\* Where a thread of the pool does not count, or not any more, ...
GonePcs == {"none", "decrDone", "dead", "recycle"}

\* ... unless a thread that creates it has counted it.
BegunPcs == {"createStart", "failCount"}

CountedThreads ==
  {u \in Pool : \/ pc[u] \notin GonePcs
                \/ \E c \in Threads : pc[c] \in BegunPcs /\ target[c] = u}

\* _pr_userActive counts them, with the primordial thread.
CountInv == /\ userActive = 1 + Cardinality(CountedThreads)
            /\ pc[Main] = "exited" => CountedThreads = {}

LEMMA CountedIsFinite ==
  /\ IsFiniteSet(CountedThreads) /\ Cardinality(CountedThreads) \in Nat
PROOF
  <1>1. CountedThreads \in SUBSET Threads /\ IsFiniteSet(Threads)
    BY ThreadAssumption DEF CountedThreads, Pool
  <1> QED  BY <1>1, FS_Subset, FS_CardinalityType

LEMMA SameCount ==
  ASSUME CountInv, CountedThreads' = CountedThreads, userActive' = userActive,
         pc'[Main] = "exited" => pc[Main] = "exited"
  PROVE  CountInv'
PROOF
  BY DEF CountInv

\* A move that changes nobody's count.
LEMMA MoveKeepsCount ==
  ASSUME FrameOK, LifeInv, CountInv, NEW t \in Threads, NEW from, NEW to \in Labels,
         Moves(t, from, to), userActive' = userActive,
         from \in GonePcs <=> to \in GonePcs, from \in BegunPcs <=> to \in BegunPcs,
         \/ target' = target
         \/ from \notin BegunPcs /\ \E u : target' = [target EXCEPT ![t] = u],
         to # "exited"
  PROVE  CountInv'
PROOF
  <1>1. pc[t] = from /\ pc'[t] = to /\ \A u \in Threads \ {t} : pc'[u] = pc[u]
    <2>1. pc'[t] = to /\ \A u \in Threads \ {t} : pc'[u] = pc[u]
      BY MovesKeepsFrame
    <2> QED  BY <2>1 DEF Moves
  <1>2. \A u \in Pool : pc'[u] \in GonePcs <=> pc[u] \in GonePcs
    BY <1>1 DEF Pool
  <1>3. \A c \in Threads : /\ pc'[c] \in BegunPcs <=> pc[c] \in BegunPcs
                           /\ pc[c] \in BegunPcs => target'[c] = target[c]
    BY <1>1 DEF LifeInv, LifeTypes
  <1>4. CountedThreads' = CountedThreads
    BY <1>2, <1>3 DEF CountedThreads
  <1>5. pc'[Main] = "exited" => pc[Main] = "exited"
    BY <1>1, ThreadAssumption
  <1> QED  BY <1>4, <1>5, SameCount

\* When PR_Cleanup is over nobody is left to act.
LEMMA ActorsCount ==
  ASSUME LifeInv, CountInv, NEW t \in Threads, pc[t] \notin GonePcs, pc[t] # "exited"
  PROVE  pc[Main] # "exited"
PROOF
  BY DEF CountInv, CountedThreads, Pool

LEMMA CountUpKeepsCount ==
  ASSUME FrameOK, LifeInv, CountInv, NEW t \in Threads, CreateCounts(t)
  PROVE  CountInv'
PROOF
  <1> DEFINE u == target[t]
  <1>1. Moves(t, "createCount", "createStart") /\ pc[t] = "createCount"
    BY CreateMoves DEF Moves
  <1>2. pc'[t] = "createStart" /\ \A v \in Threads \ {t} : pc'[v] = pc[v]
    BY <1>1, MovesKeepsFrame DEF Labels, CreatePcs
  <1>3. userActive' = userActive + 1 /\ target' = target
    BY DEF CreateCounts, CountUp
  <1>4. /\ u \in Pool /\ pc[u] = "none"
        /\ \A v \in Threads \ {t} : pc[v] \in CreatePcs => target[v] # u
    BY <1>1 DEF LifeInv, CreateInv, CreatePcs
  <1> HIDE DEF u
  <1>5. u \notin CountedThreads
    BY <1>1, <1>4 DEF CountedThreads, GonePcs, BegunPcs, CreatePcs
  <1>6. CountedThreads' = CountedThreads \cup {u}
    <2>1. \A v \in Pool : pc'[v] \in GonePcs <=> pc[v] \in GonePcs
      BY <1>1, <1>2 DEF Pool, GonePcs
    <2>2. \A c \in Threads : pc'[c] \in BegunPcs <=> pc[c] \in BegunPcs \/ c = t
      BY <1>1, <1>2 DEF BegunPcs
    <2>3. u = target[t]
      BY DEF u
    <2>4. pc[t] \notin BegunPcs
      BY <1>1 DEF BegunPcs
    <2> QED  BY <1>3, <1>4, <2>1, <2>2, <2>3, <2>4 DEF CountedThreads
  <1>7. Cardinality(CountedThreads') = Cardinality(CountedThreads) + 1
    BY <1>5, <1>6, CountedIsFinite, FS_AddElement
  <1>8. pc[Main] # "exited"
    BY <1>1, ActorsCount DEF GonePcs
  <1>9. pc'[Main] # "exited"
    BY <1>2, <1>8, ThreadAssumption
  <1> QED  BY <1>3, <1>7, <1>9, CountedIsFinite DEF CountInv

\* One thread less, because it ends or because its creation has failed.
LEMMA CountDownKeepsCount ==
  ASSUME LifeInv, CountInv, NEW u \in CountedThreads, userActive' = userActive - 1,
         CountedThreads' = CountedThreads \ {u}, pc'[Main] = "exited" => pc[Main] = "exited"
  PROVE  CountInv'
PROOF
  <1>1. Cardinality(CountedThreads') = Cardinality(CountedThreads) - 1
    BY CountedIsFinite, FS_RemoveElement
  <1> QED  BY <1>1, CountedIsFinite DEF CountInv

LEMMA FailCountKeepsCount ==
  ASSUME FrameOK, LifeInv, CountInv, NEW t \in Threads, FailCounts(t)
  PROVE  CountInv'
PROOF
  <1> DEFINE u == target[t]
  <1>1. Moves(t, "failCount", "failDone") /\ pc[t] = "failCount"
    BY CreateMoves DEF Moves
  <1>2. pc'[t] = "failDone" /\ \A v \in Threads \ {t} : pc'[v] = pc[v]
    BY <1>1, MovesKeepsFrame DEF Labels, CreatePcs
  <1>3. userActive' = userActive - 1 /\ target' = target
    BY DEF FailCounts, CountDown
  <1>4. /\ u \in Pool /\ pc[u] = "none"
        /\ \A v \in Threads \ {t} : pc[v] \in CreatePcs => target[v] # u
    BY <1>1 DEF LifeInv, CreateInv, CreatePcs
  <1>5. u = target[t]
    OBVIOUS
  <1> HIDE DEF u
  <1>6. u \in CountedThreads
    BY <1>1, <1>4, <1>5 DEF CountedThreads, BegunPcs
  <1>7. CountedThreads' = CountedThreads \ {u}
    <2>1. \A v \in Pool : pc'[v] \in GonePcs <=> pc[v] \in GonePcs
      BY <1>1, <1>2 DEF Pool, GonePcs
    <2>2. \A c \in Threads : pc'[c] \in BegunPcs <=> pc[c] \in BegunPcs /\ c # t
      BY <1>1, <1>2 DEF BegunPcs
    <2>3. \A c \in Threads \ {t} : pc[c] \in BegunPcs => target[c] # u
      BY <1>4 DEF BegunPcs, CreatePcs
    <2>4. pc[u] \in GonePcs
      BY <1>4 DEF GonePcs
    <2> QED  BY <1>3, <1>4, <1>5, <2>1, <2>2, <2>3, <2>4 DEF CountedThreads
  <1>8. pc'[Main] = "exited" => pc[Main] = "exited"
    BY <1>2, ThreadAssumption
  <1> QED  BY <1>3, <1>6, <1>7, <1>8, CountDownKeepsCount

LEMMA DecrCountKeepsCount ==
  ASSUME FrameOK, LifeInv, CountInv, NEW t \in Threads, DecrCounts(t)
  PROVE  CountInv'
PROOF
  <1>1. Moves(t, "decrCount", "decrDone") /\ pc[t] = "decrCount"
    BY LifeMoves DEF Moves
  <1>2. pc'[t] = "decrDone" /\ \A v \in Threads \ {t} : pc'[v] = pc[v]
    BY <1>1, MovesKeepsFrame DEF Labels, LifePcs
  <1>3. userActive' = userActive - 1 /\ target' = target
    BY DEF DecrCounts, CountDown
  <1>4. t \in Pool
    BY <1>1 DEF LifeInv, LifePcs, Pool
  <1>5. t \in CountedThreads
    BY <1>1, <1>4 DEF CountedThreads, GonePcs
  <1>6. CountedThreads' = CountedThreads \ {t}
    <2>1. \A c \in Threads : pc'[c] \in BegunPcs <=> pc[c] \in BegunPcs
      BY <1>1, <1>2 DEF BegunPcs
    <2>2. \A c \in Threads : pc[c] \in BegunPcs => target[c] # t
      BY <1>1 DEF LifeInv, CreateInv, BegunPcs, CreatePcs
    <2>3. \A v \in Pool \ {t} : pc'[v] = pc[v]
      BY <1>2 DEF Pool
    <2>4. pc'[t] \in GonePcs
      BY <1>2 DEF GonePcs
    <2> QED  BY <1>3, <2>1, <2>2, <2>3, <2>4 DEF CountedThreads
  <1>7. pc'[Main] = "exited" => pc[Main] = "exited"
    BY <1>2, ThreadAssumption
  <1> QED  BY <1>3, <1>5, <1>6, <1>7, CountDownKeepsCount

\* A counted thread begins to live.
LEMMA StartKeepsCount ==
  ASSUME FrameOK, LifeInv, CountInv, NEW t \in Threads, CreateStarts(t)
  PROVE  CountInv'
PROOF
  <1> DEFINE u == target[t]
  <1>1. /\ pc[t] = "createStart" /\ pc' = [pc EXCEPT ![t] = "run", ![u] = "created"]
        /\ target' = [target EXCEPT ![t] = NoThread] /\ userActive' = userActive
    BY DEF CreateStarts, At
  <1>2. /\ u \in Pool /\ pc[u] = "none"
        /\ \A v \in Threads \ {t} : pc[v] \in CreatePcs => target[v] # u
    BY <1>1 DEF LifeInv, CreateInv, CreatePcs
  <1>3. u # t /\ u \in Threads /\ u # Main /\ u = target[t]
    BY <1>1, <1>2 DEF Pool
  <1> HIDE DEF u
  <1>4. /\ pc'[t] = "run" /\ pc'[u] = "created"
        /\ \A v \in Threads \ {t, u} : pc'[v] = pc[v]
    BY <1>1, <1>2, <1>3 DEF FrameOK
  <1>5. CountedThreads' = CountedThreads
    <2>1. \A v \in Pool \ {u} : pc'[v] \in GonePcs <=> pc[v] \in GonePcs
      BY <1>1, <1>4 DEF Pool, GonePcs
    <2>2. \A c \in Threads : /\ pc'[c] \in BegunPcs <=> pc[c] \in BegunPcs /\ c # t
                             /\ c # t => target'[c] = target[c]
      BY <1>1, <1>2, <1>4 DEF BegunPcs, LifeInv, LifeTypes
    <2>3. pc[t] \in BegunPcs /\ pc'[u] \notin GonePcs
      BY <1>1, <1>4 DEF BegunPcs, GonePcs
    <2> QED  BY <1>2, <1>3, <2>1, <2>2, <2>3 DEF CountedThreads
  <1>6. pc'[Main] = "exited" => pc[Main] = "exited"
    BY <1>3, <1>4, ThreadAssumption
  <1> QED  BY <1>1, <1>5, <1>6, SameCount

LEMMA JoinReturnKeepsCount ==
  ASSUME FrameOK, LifeInv, CountInv, NEW t \in Threads, JoinReturns(t)
  PROVE  CountInv'
PROOF
  <1>1. /\ pc[t] = "joined"
        /\ pc' = [v \in Threads |-> CASE v = t -> "run"
                                      [] v = target[t] /\ pc[target[t]] = "parked" -> "decr"
                                      [] OTHER -> pc[v]]
        /\ target' = [target EXCEPT ![t] = NoThread] /\ userActive' = userActive
    BY DEF JoinReturns, At
  <1>2. \A v \in Threads : \/ pc'[v] = pc[v]
                           \/ v = t /\ pc'[v] = "run"
                           \/ pc[v] = "parked" /\ pc'[v] = "decr"
    BY <1>1
  <1>3. \A v \in Threads : /\ pc'[v] \in GonePcs <=> pc[v] \in GonePcs
                           /\ pc'[v] \in BegunPcs <=> pc[v] \in BegunPcs
                           /\ pc[v] \in BegunPcs => target'[v] = target[v]
    BY <1>1, <1>2 DEF GonePcs, BegunPcs, LifeInv, LifeTypes
  <1>4. CountedThreads' = CountedThreads
    BY <1>3 DEF CountedThreads, Pool
  <1>5. pc'[Main] = "exited" => pc[Main] = "exited"
    BY <1>2, ThreadAssumption
  <1> QED  BY <1>1, <1>4, <1>5, SameCount

\* The primordial thread leaves when it is the only one left.
LEMMA MainKeepsCount ==
  ASSUME FrameOK, LifeInv, CountInv, Cleanup \/ MainGoesOn
  PROVE  CountInv'
PROOF
  <1> USE DEF Labels, MainPcs, GonePcs, BegunPcs, thrVars
  <1>0. Main \in Threads /\ userActive' = userActive /\ target' = target
    BY ThreadAssumption DEF Cleanup, MainGoesOn, CleanupLocks, CleanupWaits, CleanupWoken,
                            CleanupReturns
  <1>1. CASE Cleanup \/ CleanupLocks
    BY <1>0, <1>1, LockMoves, QuietMoves, MoveKeepsCount DEF Cleanup, CleanupLocks
  <1>2. CASE CleanupWaits \/ CleanupWoken
    <2>1. PICK from \in {"cleanupTest", "cleanupWait"},
               to \in {"cleanupTest", "cleanupWait"} : Moves(Main, from, to)
      BY <1>0, <1>2, WaitMoves DEF CleanupWaits, CleanupWoken
    <2> QED  BY <1>0, <2>1, MoveKeepsCount
  <1>3. CASE CleanupReturns
    <2>1. Moves(Main, "cleanupTest", "exited") /\ pc[Main] = "cleanupTest"
      BY <1>0, <1>3, LockMoves DEF CleanupReturns, Moves
    <2>2. \A u \in Threads \ {Main} : pc'[u] = pc[u]
      BY <1>0, <2>1, MovesKeepsFrame
    <2>3. pc'[Main] = "exited"
      BY <1>0, <2>1, MovesKeepsFrame
    <2>4. CountedThreads' = CountedThreads
      BY <1>0, <2>1, <2>2, <2>3 DEF CountedThreads, Pool
    <2>5. userActive <= 1
      BY <1>3 DEF CleanupReturns, primordialExitCount
    <2>6. Cardinality(CountedThreads) = 0
      BY <2>5, CountedIsFinite DEF CountInv
    <2>7. CountedThreads = {}
      BY <2>6, CountedIsFinite, FS_EmptySet
    <2> QED  BY <1>0, <2>4, <2>7 DEF CountInv
  <1> QED  BY <1>1, <1>2, <1>3 DEF MainGoesOn

\* The other steps of creations, lives and joins.
LEMMA OneKeepsCount ==
  ASSUME FrameOK, LifeInv, CountInv, NEW t \in Threads,
         \/ \E j : Creates(t, j)
         \/ CreateLocks(t) \/ CreateFails(t) \/ FailReturns(t)
         \/ Begin(t) \/ Enter(t) \/ Exit(t) \/ Leave(t) \/ NobodyJoins(t)
         \/ EndsJoinable(t) \/ NotifyJoiner(t) \/ Park(t)
         \/ DecrLocks(t) \/ DecrUnlocks(t) \/ Die(t) \/ RecycleThread(t)
         \/ Joins(t) \/ JoinLocks(t) \/ JoinWaits(t) \/ JoinWoken(t) \/ JoinUnlocks(t)
  PROVE  CountInv'
PROOF
  <1> USE DEF Labels, CreatePcs, LifePcs, JoinPcs, GonePcs, BegunPcs
  <1>1. CASE \E j : Creates(t, j)
    <2>1. Moves(t, "run", "createLock") /\ userActive' = userActive
      BY <1>1, CreateMoves DEF Creates, CreateRecycled, CreateFresh
    <2>2. \E u : target' = [target EXCEPT ![t] = u]
      BY <1>1 DEF Creates, CreateRecycled, CreateFresh
    <2> QED  BY <2>1, <2>2, MoveKeepsCount
  <1>2. CASE Joins(t)
    <2>1. Moves(t, "run", "join") /\ userActive' = userActive
      BY <1>2, JoinMoves DEF Joins, JoinThread, JoinBegins
    <2>2. \E u : target' = [target EXCEPT ![t] = u]
      BY <1>2 DEF Joins, JoinThread, JoinBegins
    <2> QED  BY <2>1, <2>2, MoveKeepsCount
  <1>3. CASE FailReturns(t)
    <2>1. Moves(t, "failDone", "run") /\ userActive' = userActive
      BY <1>3, CreateMoves DEF FailReturns
    <2>2. \E u : target' = [target EXCEPT ![t] = u]
      BY <1>3 DEF FailReturns
    <2> QED  BY <2>1, <2>2, MoveKeepsCount
  <1>4. CASE CreateLocks(t) \/ CreateFails(t)
    <2>1. userActive' = userActive /\ target' = target
      BY <1>4 DEF CreateLocks, CreateFails, thrVars
    <2> QED  BY <1>4, <2>1, CreateMoves, MoveKeepsCount
  <1>5. CASE \/ Begin(t) \/ Enter(t) \/ Exit(t) \/ Leave(t) \/ NobodyJoins(t)
             \/ EndsJoinable(t) \/ NotifyJoiner(t) \/ Park(t)
             \/ DecrLocks(t) \/ DecrUnlocks(t) \/ Die(t) \/ RecycleThread(t)
    <2>1. userActive' = userActive /\ target' = target
      BY <1>5 DEF Begin, Enter, Exit, Leave, NobodyJoins, EndsJoinable, NotifyJoiner, Park,
                  DecrLocks, DecrUnlocks, Die, RecycleThread, thrVars
    <2>2. PICK from, to \in LifePcs \cup {"run"} :
                 /\ Moves(t, from, to)
                 /\ from \in GonePcs <=> to \in GonePcs
      BY <1>5, LifeMoves
    <2> QED  BY <2>1, <2>2, MoveKeepsCount
  <1>6. CASE JoinLocks(t) \/ JoinWaits(t) \/ JoinWoken(t) \/ JoinUnlocks(t)
    <2>1. userActive' = userActive /\ target' = target
      BY <1>6 DEF JoinLocks, JoinWaits, JoinWoken, JoinUnlocks, thrVars
    <2>2. PICK from, to \in JoinPcs : Moves(t, from, to)
      BY <1>6, JoinMoves
    <2> QED  BY <2>1, <2>2, MoveKeepsCount
  <1> QED  BY <1>1, <1>2, <1>3, <1>4, <1>5, <1>6

LEMMA NextCountInv ==
  FrameOK /\ LifeInv /\ CountInv /\ [PrNext]_programVars => CountInv'
PROOF
  <1> SUFFICES ASSUME FrameOK, LifeInv, CountInv, [PrNext]_programVars  PROVE CountInv'
    OBVIOUS
  <1> USE DEF thrVars
  <1>1. ASSUME NEW t \in Threads, UNCHANGED thrVars,
               NEW from \in SemPcs \cup OncePcs \cup {"run"},
               NEW to \in SemPcs \cup OncePcs \cup {"run"}, Moves(t, from, to)
        PROVE  CountInv'
    BY <1>1, MoveKeepsCount DEF Labels, SemPcs, OncePcs, GonePcs, BegunPcs
  <1>2. ASSUME NEW t \in Threads, WaitSem(t) \/ PostSem(t) \/ SemGoesOn(t),
               UNCHANGED thrVars
        PROVE  CountInv'
    BY <1>1, <1>2, SemMoves
  <1>3. ASSUME NEW t \in Threads, OnceGoesOn(t) \/ \E o \in Onces : OnceBegins(t, o),
               UNCHANGED thrVars
        PROVE  CountInv'
    <2>1. PICK from, to \in OncePcs \cup {"run"} : Moves(t, from, to)
      BY <1>3, OnceMoves DEF OnceGoesOn, OnceBegins, OncePcs
    <2> QED  BY <1>1, <1>3, <2>1
  <1>4. ASSUME UNCHANGED <<pc, userActive, target>>  PROVE CountInv'
    BY <1>4 DEF CountInv, CountedThreads
  <1>5. ASSUME NEW t \in Threads, Starts(t)  PROVE CountInv'
    BY <1>2, <1>3, <1>5, OneKeepsCount, MainKeepsCount DEF Starts
  <1>6. ASSUME NEW t \in Threads, ThrGoesOn(t) \/ Exit(t)  PROVE CountInv'
    BY <1>6, OneKeepsCount, StartKeepsCount, JoinReturnKeepsCount, CountUpKeepsCount,
       FailCountKeepsCount, DecrCountKeepsCount DEF ThrGoesOn
  <1>7. ASSUME NEW t \in Threads, Proceeds(t)  PROVE CountInv'
    <2>1. CASE Relock(t) /\ UNCHANGED <<thrVars, semVars, onceVars>>
      BY <1>4, <2>1 DEF Relock
    <2> QED  BY <1>2, <1>3, <1>6, <1>7, <2>1, MainKeepsCount DEF Proceeds
  <1>8. ASSUME NEW t \in Threads, Interrupted(t)  PROVE CountInv'
    BY <1>4, <1>8 DEF Interrupted, InterruptThread
  <1>9. CASE UNCHANGED programVars
    BY <1>4, <1>9 DEF programVars, clientVars
  <1> QED  BY <1>5, <1>7, <1>8, <1>9 DEF PrNext

-----------------------------------------------------------------------------
(* The semaphore.                                                          *)

CvTypes == /\ on \in [Threads -> CVars \cup {NoCvar}]
           /\ phase \in [Threads -> Phases]

\* The threads in a wait of PR_WaitSem.
InSemWait == {t \in Threads : pc[t] = "semWait"}

SemInv ==
  /\ CvTypes
  /\ count \in Nat /\ swallowed \in Nat /\ posted \subseteq Threads
  /\ \A t \in Threads : on[t] = SemCvar => pc[t] = "semWait"
  /\ waiters = Cardinality(InSemWait)
  /\ posted \cap Waiting(SemCvar) = {}
  /\ UnitsHaveTakers

\* Nobody begins to wait for the semaphore.
Steady == /\ CvTypes'
          /\ \A u \in Threads : on'[u] = SemCvar =>
               on[u] = SemCvar /\ (phase'[u] = "waiting" => phase[u] = "waiting")

LEMMA CallsAreSteady ==
  ASSUME CvTypes, NEW t \in Threads, NEW l, NEW c \in CVars \ {SemCvar}, NEW from, NEW to,
         \/ Lock(t, l, from, to) \/ Unlock(t, l, from, to) \/ Continue(t, from, to)
         \/ Wait(t, c, from, to) \/ WaitEnds(t, from, to)
         \/ Notify(t, c) \/ NotifyAll(t, c) \/ UNCHANGED acvVars
         \/ Relock(t) \/ InterruptThread(t)
  PROVE  Steady
PROOF
  <1> USE DEF CvTypes, Phases
  <1>1. SemCvar \in CVars /\ NoCvar \notin CVars
    BY ACvAssumption, SemAssumption
  <1>2. CASE UNCHANGED <<on, phase>>
    BY <1>2 DEF Steady
  <1>3. CASE Lock(t, l, from, to)
    <2>1. on' = on /\ phase' = [phase EXCEPT ![t] = IF @ = "woken" THEN "back" ELSE @]
      BY <1>3 DEF Lock, Take, Give
    <2> QED  BY <2>1 DEF Steady
  <1>4. CASE Unlock(t, l, from, to) \/ Continue(t, from, to) \/ UNCHANGED acvVars
    BY <1>2, <1>4 DEF Unlock, Release, Continue, acvVars
  <1>5. CASE Wait(t, c, from, to)
    <2>1. on' = [on EXCEPT ![t] = c] /\ phase' = [phase EXCEPT ![t] = "waiting"]
      BY <1>5 DEF Wait, BeginWait
    <2> QED  BY <2>1 DEF Steady
  <1>6. CASE WaitEnds(t, from, to)
    <2>1. on' = [on EXCEPT ![t] = NoCvar] /\ phase' = [phase EXCEPT ![t] = "out"]
      BY <1>6 DEF WaitEnds, EndWait
    <2> QED  BY <1>1, <2>1 DEF Steady
  <1>7. CASE Relock(t)
    <2>1. on' = on /\ phase' = [phase EXCEPT ![t] = IF @ = "woken" THEN "back" ELSE @]
      BY <1>7 DEF Relock, Regain, Give
    <2> QED  BY <2>1 DEF Steady
  <1>8. ASSUME NEW us, Wake(us), on' = on  PROVE Steady
    BY <1>8 DEF Wake, Steady
  <1>9. CASE Notify(t, c)
    BY <1>2, <1>8, <1>9 DEF Notify
  <1>10. CASE NotifyAll(t, c) \/ InterruptThread(t)
    BY <1>8, <1>10 DEF NotifyAll, InterruptThread, Interrupt
  <1> QED  BY <1>3, <1>4, <1>5, <1>6, <1>7, <1>9, <1>10

\* Somebody who need not wait, since the wait fails at once.
LEMMA FailsAreSteady ==
  ASSUME CvTypes, NEW t \in Threads, NEW c, NEW from, NEW to, WaitFails(t, c, from, to)
  PROVE  Steady
PROOF
  BY DEF WaitFails, RefuseWait, CvTypes, Steady

LEMMA SemFinite ==
  ASSUME SemInv
  PROVE  /\ IsFiniteSet(posted) /\ Cardinality(posted) \in Nat
         /\ IsFiniteSet(InSemWait) /\ Cardinality(InSemWait) \in Nat
PROOF
  <1>1. posted \in SUBSET Threads /\ InSemWait \in SUBSET Threads /\ IsFiniteSet(Threads)
    BY ThreadAssumption DEF SemInv, InSemWait
  <1> QED  BY <1>1, FS_Subset, FS_CardinalityType

\* The steps that have nothing to do with the semaphore.
LEMMA OthersKeepSem ==
  ASSUME SemInv, Steady, UNCHANGED semVars,
         \A u \in Threads : pc'[u] = "semWait" <=> pc[u] = "semWait"
  PROVE  SemInv'
PROOF
  <1>1. InSemWait' = InSemWait
    BY DEF InSemWait
  <1>2. Waiting(SemCvar)' \subseteq Waiting(SemCvar)
    BY DEF Waiting, Steady
  <1>3. UnitsHaveTakers'
    BY <1>2 DEF SemInv, UnitsHaveTakers, semVars
  <1> QED  BY <1>1, <1>2, <1>3 DEF SemInv, semVars, Steady

LEMMA MoveKeepsSem ==
  ASSUME FrameOK, SemInv, Steady, UNCHANGED semVars, NEW t \in Threads,
         NEW from, NEW to \in Labels, Moves(t, from, to), from # "semWait", to # "semWait"
  PROVE  SemInv'
PROOF
  <1>1. pc[t] # "semWait"
    BY DEF Moves
  <1>2. pc'[t] = to /\ \A u \in Threads \ {t} : pc'[u] = pc[u]
    BY MovesKeepsFrame
  <1> QED  BY <1>1, <1>2, OthersKeepSem

LEMMA OthersAreSteady ==
  ASSUME LifeInv, CvTypes, NEW t \in Threads,
         \/ \E j : Creates(t, j)
         \/ Joins(t) \/ Exit(t) \/ ThrGoesOn(t) \/ Cleanup \/ MainGoesOn
         \/ \E o : OnceBegins(t, o)
         \/ OnceGoesOn(t) \/ Relock(t) \/ InterruptThread(t)
  PROVE  Steady
PROOF
  <1>1. /\ ExitCvar \in CVars \ {SemCvar} /\ InitCvar \in CVars \ {SemCvar}
        /\ \A u \in Pool : Term[u] \in CVars \ {SemCvar}
    BY ProgramAssumption, ThreadAssumption, OnceAssumption
  <1>2. Main \in Threads
    BY ThreadAssumption
  <1>3. ASSUME NEW l, NEW u \in Threads, NEW from, NEW to,
               \/ Lock(u, l, from, to) \/ Unlock(u, l, from, to) \/ Continue(u, from, to)
               \/ WaitEnds(u, from, to) \/ UNCHANGED acvVars
        PROVE  Steady
    BY <1>1, <1>3, CallsAreSteady
  <1>4. CASE \/ \E j : Creates(t, j)
             \/ CreateLocks(t) \/ CreateCounts(t) \/ CreateStarts(t)
             \/ CreateFails(t) \/ FailReturns(t)
    BY <1>3, <1>4 DEF Creates, CreateRecycled, CreateFresh, CreateLocks, CreateCounts,
                      CreateStarts, CreateFails, FailReturns
  <1>5. CASE \/ Begin(t) \/ Enter(t) \/ Exit(t) \/ Leave(t) \/ NobodyJoins(t)
             \/ EndsJoinable(t) \/ Park(t)
             \/ DecrLocks(t) \/ DecrUnlocks(t) \/ Die(t) \/ RecycleThread(t)
    BY <1>3, <1>5 DEF Begin, Enter, Exit, Leave, NobodyJoins, EndsJoinable, Park, Parks,
                      DecrLocks, DecrUnlocks, Die, RecycleThread
  <1>6. CASE \/ Joins(t) \/ JoinLocks(t) \/ JoinWoken(t) \/ JoinUnlocks(t) \/ JoinReturns(t)
    BY <1>3, <1>6 DEF Joins, JoinThread, JoinBegins, JoinLocks, JoinWoken, JoinUnlocks,
                      JoinSees, JoinReturns
  <1>7. CASE NotifyJoiner(t)
    <2>1. t \in Pool
      BY <1>7 DEF NotifyJoiner, At, LifeInv, LifePcs, Pool
    <2>2. Notify(t, Term[t])
      BY <1>7 DEF NotifyJoiner, TellJoiner
    <2> QED  BY <1>1, <2>1, <2>2, CallsAreSteady
  <1>8. CASE JoinWaits(t)
    <2>1. target[t] \in Pool
      BY <1>8 DEF JoinWaits, At, LifeInv, JoinInv, JoinPcs
    <2>2. \E from, to : \/ Wait(t, Term[target[t]], from, to)
                        \/ WaitFails(t, Term[target[t]], from, to)
      BY <1>8 DEF JoinWaits
    <2> QED  BY <1>1, <2>1, <2>2, CallsAreSteady, FailsAreSteady
  <1>9. CASE FailCounts(t) \/ DecrCounts(t)
    <2>1. Notify(t, ExitCvar) \/ UNCHANGED acvVars
      BY <1>9 DEF FailCounts, DecrCounts, CountDown, NotifyLast
    <2> QED  BY <1>1, <2>1, CallsAreSteady
  <1>10. CASE Cleanup \/ CleanupLocks \/ CleanupWoken \/ CleanupReturns
    BY <1>2, <1>3, <1>10 DEF Cleanup, CleanupLocks, CleanupWoken, CleanupReturns
  <1>11. CASE CleanupWaits
    <2>1. \E from, to : Wait(Main, ExitCvar, from, to) \/ WaitFails(Main, ExitCvar, from, to)
      BY <1>11 DEF CleanupWaits
    <2> QED  BY <1>1, <1>2, <2>1, CallsAreSteady, FailsAreSteady
  <1>12. CASE \/ \E o : OnceBegins(t, o)
              \/ Claim(t) \/ CallFunc(t) \/ PublishLocks(t) \/ AwaitLocks(t)
              \/ AwaitEnds(t) \/ SeeInitialized(t) \/ OnceUnlocks(t) \/ CallOnceReturns(t)
    BY <1>3, <1>12 DEF OnceBegins, CallOnce, CallOnceAgain, Claim, CallFunc, PublishLocks,
                       AwaitLocks, AwaitEnds, SeeInitialized, OnceUnlocks, CallOnceReturns
  <1>13. CASE Publish(t)
    <2>1. NotifyAll(t, InitCvar)
      BY <1>13 DEF Publish, WakeCallers
    <2> QED  BY <1>1, <2>1, CallsAreSteady
  <1>14. CASE Await(t)
    <2>1. \E from, to : Wait(t, InitCvar, from, to) \/ WaitFails(t, InitCvar, from, to)
      BY <1>14 DEF Await
    <2> QED  BY <1>1, <2>1, CallsAreSteady, FailsAreSteady
  <1>15. CASE Relock(t) \/ InterruptThread(t)
    BY <1>1, <1>15, CallsAreSteady
  <1> QED  BY <1>4, <1>5, <1>6, <1>7, <1>8, <1>9, <1>10, <1>11, <1>12, <1>13, <1>14,
              <1>15 DEF ThrGoesOn, MainGoesOn, OnceGoesOn

\* They leave the semaphore alone.
LEMMA OtherStepKeepsSem ==
  ASSUME FrameOK, LifeInv, SemInv, UNCHANGED semVars, NEW t \in Threads,
         \/ \E j : Creates(t, j)
         \/ Joins(t) \/ Exit(t) \/ ThrGoesOn(t) \/ Cleanup \/ MainGoesOn
         \/ \E o : OnceBegins(t, o)
         \/ OnceGoesOn(t) \/ Relock(t) \/ InterruptThread(t)
  PROVE  SemInv'
PROOF
  <1> USE DEF Labels, CreatePcs, LifePcs, JoinPcs, MainPcs, OncePcs
  <1>1. Steady
    BY OthersAreSteady DEF SemInv
  <1>2. CASE Relock(t) \/ InterruptThread(t)
    BY <1>1, <1>2, OthersKeepSem DEF Relock, InterruptThread
  <1>3. CASE CreateStarts(t) \/ JoinReturns(t)
    <2>1. \A u \in Threads : pc[u] = "semWait" => pc'[u] = "semWait"
      <3>1. CASE CreateStarts(t)
        <4>1. /\ pc[t] = "createStart"
              /\ pc' = [pc EXCEPT ![t] = "run", ![target[t]] = "created"]
          BY <3>1 DEF CreateStarts, At
        <4>2. target[t] \in Threads /\ pc[target[t]] = "none"
          BY <4>1 DEF LifeInv, CreateInv, Pool
        <4> QED  BY <4>1, <4>2 DEF FrameOK
      <3>2. CASE JoinReturns(t)
        <4>1. /\ pc[t] = "joined"
              /\ pc' = [v \in Threads |->
                          CASE v = t -> "run"
                            [] v = target[t] /\ pc[target[t]] = "parked" -> "decr"
                            [] OTHER -> pc[v]]
          BY <3>2 DEF JoinReturns, At
        <4> QED  BY <4>1
      <3> QED  BY <1>3, <3>1, <3>2
    <2>2. \A u \in Threads : pc'[u] = "semWait" => pc[u] = "semWait"
      BY <1>3, PairMoves
    <2> QED  BY <1>1, <2>1, <2>2, OthersKeepSem
  <1>4. ASSUME NEW u \in Threads,
               NEW from \in {"run"} \cup CreatePcs \cup LifePcs \cup JoinPcs
                              \cup MainPcs \cup OncePcs,
               NEW to \in {"run"} \cup CreatePcs \cup LifePcs \cup JoinPcs
                              \cup MainPcs \cup OncePcs,
               Moves(u, from, to)
        PROVE  SemInv'
    BY <1>1, <1>4, MoveKeepsSem
  <1>5. CASE \/ \E j : Creates(t, j)
             \/ Joins(t) \/ Exit(t)
             \/ ThrGoesOn(t) /\ ~CreateStarts(t) /\ ~JoinReturns(t)
    <2>1. PICK from, to \in {"run"} \cup CreatePcs \cup LifePcs \cup JoinPcs :
                 Moves(t, from, to)
      BY <1>5, OneThreadMoves
    <2> QED  BY <1>4, <2>1
  <1>6. CASE Cleanup \/ MainGoesOn
    <2>1. PICK from \in MainPcs \cup {"run"}, to \in MainPcs : Moves(Main, from, to)
      BY <1>6, MainMoves
    <2> QED  BY <1>4, <2>1, ThreadAssumption
  <1>7. CASE OnceGoesOn(t) \/ \E o : OnceBegins(t, o)
    <2>1. PICK from, to \in OncePcs \cup {"run"} : Moves(t, from, to)
      BY <1>7, OnceMoves DEF OnceGoesOn, OnceBegins
    <2> QED  BY <1>4, <2>1
  <1> QED  BY <1>2, <1>3, <1>5, <1>6, <1>7

\* One unit is taken, ...
LEMMA TakeKeepsSem ==
  ASSUME FrameOK, SemInv, NEW t \in Threads, TakeCount(t)
  PROVE  SemInv'
PROOF
  <1>1. Moves(t, "semTest", "semDone") /\ pc[t] = "semTest"
    BY QuietMoves DEF TakeCount, Moves
  <1>2. pc'[t] = "semDone" /\ \A u \in Threads \ {t} : pc'[u] = pc[u]
    BY <1>1, MovesKeepsFrame DEF Labels, SemPcs
  <1>3. /\ on' = on /\ phase' = phase /\ waiters' = waiters
        /\ count > 0 /\ count' = count - 1 /\ posted' = posted \ {t}
        /\ swallowed' = IF count' = 0 THEN 0 ELSE swallowed
    BY DEF TakeCount, Continue, acvVars, Swallow
  <1>4. InSemWait' = InSemWait
    BY <1>1, <1>2 DEF InSemWait
  <1>5. Waiting(SemCvar)' = Waiting(SemCvar)
    BY <1>3 DEF Waiting
  <1>6. /\ Cardinality(posted') \in Nat /\ Cardinality(posted) \in Nat
        /\ Cardinality(posted) <= Cardinality(posted') + 1
    <2>1. IsFiniteSet(posted') /\ IsFiniteSet(posted) /\ Cardinality(posted) \in Nat
      BY <1>3, SemFinite, FS_RemoveElement
    <2>2. Cardinality(posted') \in Nat
      BY <2>1, FS_CardinalityType
    <2>3. Cardinality(posted')
            = IF t \in posted THEN Cardinality(posted) - 1 ELSE Cardinality(posted)
      BY <1>3, <2>1, FS_RemoveElement
    <2> QED  BY <2>1, <2>2, <2>3
  <1>7. count \in Nat /\ swallowed \in Nat
    BY DEF SemInv
  <1>8. UnitsHaveTakers'
    <2> SUFFICES ASSUME Waiting(SemCvar)' # {}, count' # 0
                 PROVE  count' <= Cardinality(posted') + swallowed'
      BY <1>3, <1>6, <1>7 DEF UnitsHaveTakers
    <2>1. count <= Cardinality(posted) + swallowed
      BY <1>5 DEF SemInv, UnitsHaveTakers
    <2> QED  BY <1>3, <1>6, <1>7, <2>1
  <1>9. CvTypes' /\ count' \in Nat /\ swallowed' \in Nat /\ posted' \subseteq Threads
    BY <1>3, <1>7 DEF SemInv, CvTypes
  <1>10. \A u \in Threads : on'[u] = SemCvar => pc'[u] = "semWait"
    BY <1>1, <1>2, <1>3 DEF SemInv
  <1>11. posted' \cap Waiting(SemCvar)' = {}
    BY <1>3, <1>5 DEF SemInv
  <1> QED  BY <1>3, <1>4, <1>8, <1>9, <1>10, <1>11 DEF SemInv

\* ... a thread waits, since there is none, ...
LEMMA SemWaitKeepsSem ==
  ASSUME FrameOK, SemInv, NEW t \in Threads, SemWaits(t) \/ SemRefused(t)
  PROVE  SemInv'
PROOF
  <1>1. /\ count = 0 /\ count' = 0 /\ posted' = posted \ {t} /\ swallowed' = swallowed
    BY DEF SemWaits, SemRefused
  <1>2. Cardinality(posted') \in Nat
    <2>1. IsFiniteSet(posted')
      BY <1>1, SemFinite, FS_RemoveElement
    <2> QED  BY <2>1, FS_CardinalityType
  <1>3. /\ UnitsHaveTakers' /\ count' \in Nat /\ swallowed' \in Nat
        /\ posted' \subseteq Threads
    BY <1>1, <1>2 DEF SemInv, UnitsHaveTakers
  <1>4. CASE SemWaits(t)
    <2>1. Moves(t, "semTest", "semWait") /\ pc[t] = "semTest"
      BY <1>4, WaitMoves DEF SemWaits, Moves
    <2>2. pc'[t] = "semWait" /\ \A u \in Threads \ {t} : pc'[u] = pc[u]
      BY <2>1, MovesKeepsFrame DEF Labels, SemPcs
    <2>3. /\ on' = [on EXCEPT ![t] = SemCvar] /\ phase' = [phase EXCEPT ![t] = "waiting"]
          /\ waiters' = waiters + 1
      BY <1>4 DEF SemWaits, Wait, BeginWait
    <2>4. InSemWait' = InSemWait \cup {t} /\ t \notin InSemWait
      BY <2>1, <2>2 DEF InSemWait
    <2>5. waiters' = Cardinality(InSemWait')
      BY <2>3, <2>4, SemFinite, FS_AddElement DEF SemInv
    <2>6. CvTypes'
      BY <2>3, SemAssumption DEF SemInv, CvTypes, Phases
    <2>7. \A u \in Threads : on'[u] = SemCvar => pc'[u] = "semWait"
      BY <2>1, <2>2, <2>3 DEF SemInv, CvTypes
    <2>8. posted' \cap Waiting(SemCvar)' = {}
      BY <1>1, <2>3 DEF SemInv, CvTypes, Waiting
    <2> QED  BY <1>3, <2>5, <2>6, <2>7, <2>8 DEF SemInv
  <1>5. CASE SemRefused(t)
    <2>1. Moves(t, "semTest", "semDone") /\ pc[t] = "semTest"
      BY <1>5, WaitMoves DEF SemRefused, Moves
    <2>2. pc'[t] = "semDone" /\ \A u \in Threads \ {t} : pc'[u] = pc[u]
      BY <2>1, MovesKeepsFrame DEF Labels, SemPcs
    <2>3. on' = on /\ phase' = phase /\ waiters' = waiters
      BY <1>5 DEF SemRefused, WaitFails, RefuseWait
    <2>4. InSemWait' = InSemWait
      BY <2>1, <2>2 DEF InSemWait
    <2>5. Waiting(SemCvar)' = Waiting(SemCvar)
      BY <2>3 DEF Waiting
    <2>6. \A u \in Threads : on'[u] = SemCvar => pc'[u] = "semWait"
      BY <2>1, <2>2, <2>3 DEF SemInv
    <2>7. posted' \cap Waiting(SemCvar)' = {}
      BY <1>1, <2>5 DEF SemInv
    <2>8. CvTypes'
      BY <2>3 DEF SemInv, CvTypes
    <2> QED  BY <1>3, <2>3, <2>4, <2>6, <2>7, <2>8 DEF SemInv
  <1> QED  BY <1>4, <1>5

\* ... a wait ends, and an interrupted thread says what it leaves behind, ...
LEMMA SemEndKeepsSem ==
  ASSUME FrameOK, SemInv, NEW t \in Threads, SemWoken(t) \/ SemInterrupted(t)
  PROVE  SemInv'
PROOF
  <1>1. PICK to \in {"semDone", "semTest"} : WaitEnds(t, "semWait", to)
    BY DEF SemWoken, SemInterrupted, SemWaitEnds
  <1>2. Moves(t, "semWait", to) /\ pc[t] = "semWait"
    BY <1>1, WaitMoves DEF Moves
  <1>3. pc'[t] = to /\ \A u \in Threads \ {t} : pc'[u] = pc[u]
    BY <1>2, MovesKeepsFrame DEF Labels, SemPcs
  <1>4. /\ on' = [on EXCEPT ![t] = NoCvar] /\ phase' = [phase EXCEPT ![t] = "out"]
        /\ phase[t] = "back"
    BY <1>1 DEF WaitEnds, EndWait
  <1>5. waiters' = waiters - 1 /\ count' = count
    BY DEF SemWoken, SemInterrupted, SemWaitEnds
  <1>6. InSemWait' = InSemWait \ {t} /\ t \in InSemWait
    BY <1>2, <1>3 DEF InSemWait
  <1>7. waiters' = Cardinality(InSemWait')
    BY <1>5, <1>6, SemFinite, FS_RemoveElement DEF SemInv
  <1>8. CvTypes'
    BY <1>4 DEF SemInv, CvTypes, Phases
  <1>9. \A u \in Threads : on'[u] = SemCvar => pc'[u] = "semWait"
    <2>1. NoCvar # SemCvar
      BY ACvAssumption, SemAssumption
    <2> QED  BY <1>3, <1>4, <2>1 DEF SemInv, CvTypes
  <1>10. Waiting(SemCvar)' \subseteq Waiting(SemCvar)
    BY <1>4 DEF Waiting, SemInv, CvTypes
  <1>11. count \in Nat /\ swallowed \in Nat /\ posted \subseteq Threads
    BY DEF SemInv
  <1>12. CASE posted' = posted /\ swallowed' = swallowed
    <2>1. UnitsHaveTakers'
      BY <1>5, <1>10, <1>12 DEF SemInv, UnitsHaveTakers
    <2>2. posted' \cap Waiting(SemCvar)' = {}
      BY <1>10, <1>12 DEF SemInv
    <2> QED  BY <1>5, <1>7, <1>8, <1>9, <1>11, <1>12, <2>1, <2>2 DEF SemInv
  <1>13. CASE t \in posted /\ posted' = posted \ {t}
              /\ swallowed' = IF count > 0 THEN swallowed + 1 ELSE swallowed
    <2>1. Cardinality(posted') = Cardinality(posted) - 1 /\ Cardinality(posted) \in Nat
          /\ IsFiniteSet(posted')
      BY <1>13, SemFinite, FS_RemoveElement
    <2>2. Cardinality(posted') \in Nat
      BY <2>1, FS_CardinalityType
    <2>3. UnitsHaveTakers'
      <3>1. CASE count = 0
        BY <1>5, <1>11, <1>13, <2>2, <3>1 DEF UnitsHaveTakers
      <3>2. CASE count # 0
        <4>1. swallowed' = swallowed + 1
          BY <1>11, <1>13, <3>2
        <4> QED  BY <1>5, <1>10, <1>11, <2>1, <4>1 DEF SemInv, UnitsHaveTakers
      <3> QED  BY <3>1, <3>2
    <2>4. posted' \cap Waiting(SemCvar)' = {}
      BY <1>10, <1>13 DEF SemInv
    <2>5. posted' \subseteq Threads /\ swallowed' \in Nat /\ count' \in Nat
      BY <1>5, <1>11, <1>13
    <2> QED  BY <1>7, <1>8, <1>9, <2>3, <2>4, <2>5 DEF SemInv
  <1>14. CASE SemWoken(t)
    BY <1>12, <1>14 DEF SemWoken
  <1>15. CASE SemInterrupted(t)
    <2>1. CASE t \in posted
      BY <1>13, <1>15, <2>1 DEF SemInterrupted
    <2>2. CASE t \notin posted
      BY <1>12, <1>15, <2>2 DEF SemInterrupted
    <2> QED  BY <2>1, <2>2
  <1> QED  BY <1>14, <1>15

\* ... and a post wakes a thread for its unit, if one waits.
LEMMA PostKeepsSem ==
  ASSUME FrameOK, SemInv, NEW t \in Threads, PostCounts(t)
  PROVE  SemInv'
PROOF
  <1>1. Moves(t, "post", "postDone") /\ pc[t] = "post"
    BY QuietMoves DEF PostCounts, Moves
  <1>2. pc'[t] = "postDone" /\ \A u \in Threads \ {t} : pc'[u] = pc[u]
    BY <1>1, MovesKeepsFrame DEF Labels, SemPcs
  <1>3. /\ count' = count + 1 /\ posted' = posted \cup Woken
        /\ waiters' = waiters /\ swallowed' = swallowed
        /\ IF waiters > 0 THEN Notify(t, SemCvar) ELSE UNCHANGED acvVars
    BY DEF PostCounts, MustNotify
  <1>4. InSemWait' = InSemWait
    BY <1>1, <1>2 DEF InSemWait
  <1>5. count \in Nat /\ swallowed \in Nat /\ posted \subseteq Threads /\ CvTypes
    BY DEF SemInv
  <1>6. on' = on
    BY <1>3 DEF Notify, acvVars
  <1>7. \A u \in Threads : on'[u] = SemCvar => pc'[u] = "semWait"
    BY <1>1, <1>2, <1>6 DEF SemInv
  <1>8. CASE Waiting(SemCvar) = {}
    <2>1. phase' = phase
      BY <1>3, <1>8 DEF Notify, acvVars
    <2>2. Waiting(SemCvar)' = {} /\ Woken = {}
      BY <1>6, <1>8, <2>1 DEF Waiting, Woken
    <2>3. CvTypes' /\ UnitsHaveTakers'
      BY <1>5, <1>6, <2>1, <2>2 DEF CvTypes, UnitsHaveTakers
    <2> QED  BY <1>3, <1>4, <1>5, <1>7, <2>2, <2>3 DEF SemInv
  <1>9. CASE Waiting(SemCvar) # {}
    <2>1. PICK v \in Threads : on[v] = SemCvar /\ phase[v] = "waiting"
      BY <1>9 DEF Waiting
    <2>2. v \in InSemWait
      BY <2>1 DEF SemInv, InSemWait
    <2>3. waiters > 0
      <3>1. InSemWait # {}
        BY <2>2
      <3>2. Cardinality(InSemWait) # 0
        BY <3>1, SemFinite, FS_EmptySet
      <3> QED  BY <3>2, SemFinite DEF SemInv
    <2>4. PICK u \in Waiting(SemCvar) : Wake({u})
      BY <1>3, <1>9, <2>3 DEF Notify
    <2>5. phase' = [w \in Threads |-> IF w = u THEN "woken" ELSE phase[w]]
      BY <2>4 DEF Wake
    <2>6. u \in Threads /\ on[u] = SemCvar /\ phase[u] = "waiting"
      BY <2>4 DEF Waiting
    <2>7. Waiting(SemCvar)' = Waiting(SemCvar) \ {u}
      BY <1>6, <2>5 DEF Waiting
    <2>8. Woken = {u}
      BY <2>4, <2>5, <2>6 DEF Woken, Waiting
    <2>9. posted' = posted \cup {u} /\ u \notin posted
      BY <1>3, <2>4, <2>8 DEF SemInv
    <2>10. Cardinality(posted') = Cardinality(posted) + 1 /\ Cardinality(posted) \in Nat
      BY <2>9, SemFinite, FS_AddElement
    <2>11. count <= Cardinality(posted) + swallowed
      BY <1>9 DEF SemInv, UnitsHaveTakers
    <2>12. UnitsHaveTakers'
      BY <1>3, <1>5, <2>10, <2>11 DEF UnitsHaveTakers
    <2>13. posted' \cap Waiting(SemCvar)' = {} /\ posted' \subseteq Threads
      BY <1>5, <2>6, <2>7, <2>9 DEF SemInv
    <2>14. CvTypes'
      BY <1>5, <1>6, <2>5 DEF CvTypes, Phases
    <2> QED  BY <1>3, <1>4, <1>5, <1>7, <2>12, <2>13, <2>14 DEF SemInv
  <1> QED  BY <1>8, <1>9

LEMMA NextSemInv == FrameOK /\ LifeInv /\ SemInv /\ [PrNext]_programVars => SemInv'
PROOF
  <1> SUFFICES ASSUME FrameOK, LifeInv, SemInv, [PrNext]_programVars  PROVE SemInv'
    OBVIOUS
  <1>1. ASSUME NEW t \in Threads, WaitSem(t) \/ PostSem(t) \/ WaitSemReturns(t)
                                    \/ PostSemReturns(t)
        PROVE  SemInv'
    <2>1. PICK from, to \in {"run", "semTest", "semDone", "post", "postDone"} :
                 Lock(t, SemLock, from, to) \/ Unlock(t, SemLock, from, to)
      BY <1>1 DEF WaitSem, PostSem, WaitSemReturns, PostSemReturns
    <2>2. Moves(t, from, to)
      BY <2>1, LockMoves
    <2>3. InitCvar \in CVars \ {SemCvar}
      BY OnceAssumption, ProgramAssumption
    <2>4. Steady
      BY <2>1, <2>3, CallsAreSteady DEF SemInv
    <2>5. UNCHANGED semVars
      BY <1>1 DEF WaitSem, PostSem, WaitSemReturns, PostSemReturns
    <2> QED  BY <2>2, <2>4, <2>5, MoveKeepsSem DEF Labels, SemPcs
  <1>2. ASSUME NEW t \in Threads, SemGoesOn(t)  PROVE SemInv'
    BY <1>1, <1>2, TakeKeepsSem, SemWaitKeepsSem, SemEndKeepsSem, PostKeepsSem DEF SemGoesOn
  <1>3. ASSUME NEW t \in Threads, Starts(t)  PROVE SemInv'
    BY <1>1, <1>3, OtherStepKeepsSem DEF Starts
  <1>4. ASSUME NEW t \in Threads, Proceeds(t)  PROVE SemInv'
    BY <1>2, <1>4, OtherStepKeepsSem DEF Proceeds
  <1>5. ASSUME NEW t \in Threads, Interrupted(t)  PROVE SemInv'
    BY <1>5, OtherStepKeepsSem DEF Interrupted
  <1>6. CASE UNCHANGED programVars
    <2>1. UNCHANGED <<on, phase, pc>> /\ UNCHANGED semVars
      BY <1>6 DEF programVars, clientVars, acvVars
    <2>2. Steady
      BY <2>1 DEF SemInv, CvTypes, Steady
    <2> QED  BY <2>1, <2>2, OthersKeepSem
  <1> QED  BY <1>3, <1>4, <1>5, <1>6 DEF PrNext

-----------------------------------------------------------------------------
(* The types of the rest.                                                  *)

RestTypes == /\ interrupted \in [Threads -> BOOLEAN]
             /\ active \subseteq Threads
             /\ recycling \in {0, RecycleThreads}

LEMMA CallsKeepInterrupts ==
  ASSUME interrupted \in [Threads -> BOOLEAN], NEW t, NEW l, NEW c, NEW from, NEW to,
         \/ Lock(t, l, from, to) \/ Unlock(t, l, from, to) \/ Continue(t, from, to)
         \/ Wait(t, c, from, to) \/ WaitFails(t, c, from, to) \/ WaitEnds(t, from, to)
         \/ Notify(t, c) \/ NotifyAll(t, c) \/ UNCHANGED acvVars
         \/ Relock(t) \/ InterruptThread(t)
  PROVE  interrupted' \in [Threads -> BOOLEAN]
PROOF
  <1>1. \/ interrupted' = interrupted
        \/ \E b \in BOOLEAN : interrupted' = [interrupted EXCEPT ![t] = b]
    BY DEF Lock, Take, Give, Unlock, Release, Continue, Wait, BeginWait, WaitFails, RefuseWait,
           WaitEnds, EndWait, Notify, NotifyAll, acvVars, Relock, Regain, InterruptThread,
           Interrupt
  <1> QED  BY <1>1

LEMMA StepKeepsRestTypes ==
  ASSUME RestTypes, NEW t \in Threads, Starts(t) \/ Proceeds(t) \/ Interrupted(t)
  PROVE  RestTypes'
PROOF
  <1>1. interrupted' \in [Threads -> BOOLEAN]
    <2>1. ASSUME NEW l, NEW c, NEW u, NEW from, NEW to,
                 \/ Lock(u, l, from, to) \/ Unlock(u, l, from, to) \/ Continue(u, from, to)
                 \/ Wait(u, c, from, to) \/ WaitFails(u, c, from, to) \/ WaitEnds(u, from, to)
                 \/ Notify(u, c) \/ NotifyAll(u, c) \/ UNCHANGED acvVars
                 \/ Relock(u) \/ InterruptThread(u)
          PROVE  interrupted' \in [Threads -> BOOLEAN]
      BY <2>1, CallsKeepInterrupts DEF RestTypes
    <2>2. CASE \/ \E j : Creates(t, j)
               \/ CreateLocks(t) \/ CreateCounts(t) \/ CreateStarts(t)
               \/ CreateFails(t) \/ FailReturns(t)
      BY <2>1, <2>2 DEF Creates, CreateRecycled, CreateFresh, CreateLocks, CreateCounts,
                        CreateStarts, CreateFails, FailReturns
    <2>3. CASE \/ Begin(t) \/ Enter(t) \/ Exit(t) \/ Leave(t) \/ NobodyJoins(t)
               \/ EndsJoinable(t) \/ NotifyJoiner(t) \/ Park(t)
               \/ DecrLocks(t) \/ DecrUnlocks(t) \/ Die(t) \/ RecycleThread(t)
      BY <2>1, <2>3 DEF Begin, Enter, Exit, Leave, NobodyJoins, EndsJoinable, NotifyJoiner,
                        TellJoiner, Park, Parks, DecrLocks, DecrUnlocks, Die, RecycleThread
    <2>4. CASE \/ Joins(t) \/ JoinLocks(t) \/ JoinWaits(t) \/ JoinWoken(t)
               \/ JoinUnlocks(t) \/ JoinReturns(t)
      BY <2>1, <2>4 DEF Joins, JoinThread, JoinBegins, JoinLocks, JoinWaits, JoinWoken,
                        JoinUnlocks, JoinSees, JoinReturns
    <2>5. CASE FailCounts(t) \/ DecrCounts(t)
      BY <2>1, <2>5 DEF FailCounts, DecrCounts, CountDown, NotifyLast
    <2>6. CASE Cleanup \/ MainGoesOn
      BY <2>1, <2>6 DEF Cleanup, MainGoesOn, CleanupLocks, CleanupWaits, CleanupWoken,
                        CleanupReturns
    <2>7. CASE OnceGoesOn(t) \/ \E o : OnceBegins(t, o)
      BY <2>1, <2>7 DEF OnceGoesOn, OnceBegins, CallOnce, CallOnceAgain, Claim, CallFunc,
                        PublishLocks, Publish, WakeCallers, AwaitLocks, Await, AwaitEnds,
                        SeeInitialized, OnceUnlocks, CallOnceReturns
    <2>8. CASE WaitSem(t) \/ PostSem(t) \/ SemGoesOn(t)
      BY <2>1, <2>8 DEF WaitSem, PostSem, SemGoesOn, TakeCount, SemWaits, SemRefused, SemWoken,
                        SemInterrupted, SemWaitEnds, WaitSemReturns, PostCounts, PostSemReturns
    <2>9. CASE Relock(t) \/ Interrupted(t)
      BY <2>1, <2>9 DEF Interrupted
    <2> QED  BY <2>2, <2>3, <2>4, <2>5, <2>6, <2>7, <2>8, <2>9 DEF Starts, Proceeds, ThrGoesOn
  <1>2. active' = active \/ active' = active \cup {t} \/ active' = active \ {t}
    BY DEF Starts, Proceeds, Interrupted, thrVars, ThrGoesOn, MainGoesOn, Creates,
           CreateRecycled, CreateFresh, CreateLocks, CreateCounts, CreateStarts, CreateFails,
           FailCounts, FailReturns, CountDown, Begin, Enter, Exit, Leave, Delist, NobodyJoins,
           EndsJoinable, NotifyJoiner, Park, DecrLocks, DecrCounts, DecrUnlocks, Die,
           RecycleThread, Joins, JoinThread, JoinBegins, JoinLocks, JoinWaits, JoinWoken,
           JoinUnlocks, JoinReturns, Cleanup, CleanupLocks, CleanupWaits, CleanupWoken,
           CleanupReturns
  <1>3. recycling' = recycling \/ recycling' = 0
    BY DEF Starts, Proceeds, Interrupted, thrVars, ThrGoesOn, MainGoesOn, Creates,
           CreateRecycled, CreateFresh, CreateLocks, CreateCounts, CreateStarts, CreateFails,
           FailCounts, FailReturns, CountDown, Begin, Enter, Exit, Leave, NobodyJoins,
           EndsJoinable, NotifyJoiner, Park, DecrLocks, DecrCounts, DecrUnlocks, Die,
           RecycleThread, Joins, JoinThread, JoinBegins, JoinLocks, JoinWaits, JoinWoken,
           JoinUnlocks, JoinReturns, Cleanup, CleanupLocks, CleanupWaits, CleanupWoken,
           CleanupReturns
  <1> QED  BY <1>1, <1>2, <1>3 DEF RestTypes

\* Who is about to count up has the lock of the semaphore, and room for a unit.
PostInv == /\ count <= MaxCount
           /\ \A t \in Threads : pc[t] = "post" => holder[SemLock] = t /\ count < MaxCount

LEMMA MoveKeepsPost ==
  ASSUME FrameOK, SemInv, PostInv, NEW t \in Threads, NEW from, NEW to \in Labels,
         Moves(t, from, to), to # "post", count' \in Nat, count' <= count
  PROVE  PostInv'
PROOF
  <1>1. SemLock \in Locks
    BY ACvAssumption, SemAssumption
  <1>2. count \in Nat /\ MaxCount \in Nat
    BY SemAssumption DEF SemInv
  <1>3. pc'[t] = to /\ \A u \in Threads \ {t} : pc'[u] = pc[u]
    BY MovesKeepsFrame
  <1>4. \A u \in Threads \ {t} : holder[SemLock] = u => holder'[SemLock] = u
    BY <1>1 DEF Moves
  <1> QED  BY <1>2, <1>3, <1>4 DEF PostInv

LEMMA NextPostInv == FrameOK /\ SemInv /\ PostInv /\ [PrNext]_programVars => PostInv'
PROOF
  <1> SUFFICES ASSUME FrameOK, SemInv, PostInv, [PrNext]_programVars  PROVE PostInv'
    OBVIOUS
  <1> USE DEF Labels, CreatePcs, LifePcs, JoinPcs, MainPcs, OncePcs, SemPcs
  <1>0. /\ SemLock \in Locks /\ NoThread \notin Threads /\ count \in Nat /\ MaxCount \in Nat
        /\ Main \in Threads
    BY ACvAssumption, SemAssumption, ThreadAssumption DEF SemInv
  <1>1. ASSUME NEW t \in Threads,
               NEW from \in {"run"} \cup CreatePcs \cup LifePcs \cup JoinPcs
                              \cup MainPcs \cup OncePcs,
               NEW to \in {"run"} \cup CreatePcs \cup LifePcs \cup JoinPcs
                              \cup MainPcs \cup OncePcs,
               Moves(t, from, to), UNCHANGED semVars
        PROVE  PostInv'
    BY <1>0, <1>1, MoveKeepsPost DEF semVars
  <1>2. ASSUME UNCHANGED semVars,
               \A u \in Threads : pc'[u] = "post" => pc[u] = "post",
               \A u \in Threads : holder[SemLock] = u => holder'[SemLock] = u
        PROVE  PostInv'
    BY <1>2 DEF PostInv, semVars
  <1>3. ASSUME NEW t \in Threads, UNCHANGED semVars,
               \/ \E j : Creates(t, j)
               \/ Joins(t) \/ Exit(t) \/ ThrGoesOn(t) \/ Cleanup \/ MainGoesOn
               \/ \E o : OnceBegins(t, o)
               \/ OnceGoesOn(t)
        PROVE  PostInv'
    <2>1. CASE CreateStarts(t) \/ JoinReturns(t)
      BY <1>2, <1>3, <2>1, PairMoves
    <2>2. CASE \/ \E j : Creates(t, j)
               \/ Joins(t) \/ Exit(t)
               \/ ThrGoesOn(t) /\ ~CreateStarts(t) /\ ~JoinReturns(t)
      <3>1. PICK from, to \in {"run"} \cup CreatePcs \cup LifePcs \cup JoinPcs :
                   Moves(t, from, to)
        BY <2>2, OneThreadMoves
      <3> QED  BY <1>1, <1>3, <3>1
    <2>3. CASE Cleanup \/ MainGoesOn
      <3>1. PICK from \in MainPcs \cup {"run"}, to \in MainPcs : Moves(Main, from, to)
        BY <2>3, MainMoves
      <3> QED  BY <1>0, <1>1, <1>3, <3>1
    <2>4. CASE OnceGoesOn(t) \/ \E o : OnceBegins(t, o)
      <3>1. PICK from, to \in OncePcs \cup {"run"} : Moves(t, from, to)
        BY <2>4, OnceMoves DEF OnceGoesOn, OnceBegins
      <3> QED  BY <1>1, <1>3, <3>1
    <2> QED  BY <1>3, <2>1, <2>2, <2>3, <2>4
  <1>4. ASSUME NEW t \in Threads, Relock(t), UNCHANGED semVars  PROVE PostInv'
    <2>1. /\ pc' = pc /\ holder[CvLock[on[t]]] = NoThread
          /\ holder' = [holder EXCEPT ![CvLock[on[t]]] = t]
      BY <1>4 DEF Relock, Regain, Give
    <2>2. \A u \in Threads : holder[SemLock] = u => holder'[SemLock] = u
      BY <1>0, <2>1 DEF FrameOK
    <2> QED  BY <1>2, <1>4, <2>1, <2>2
  <1>5. ASSUME NEW t \in Threads, Interrupted(t)  PROVE PostInv'
    BY <1>2, <1>5 DEF Interrupted, InterruptThread, Interrupt
  <1>6. CASE UNCHANGED programVars
    BY <1>2, <1>6 DEF programVars, clientVars, acvVars
  <1>7. ASSUME NEW t \in Threads, PostSem(t)  PROVE PostInv'
    <2>1. /\ count < MaxCount /\ count' = count
          /\ pc' = [pc EXCEPT ![t] = "post"]
          /\ holder[SemLock] = NoThread /\ holder' = [holder EXCEPT ![SemLock] = t]
      BY <1>7 DEF PostSem, Lock, Take, Give, GoTo, semVars
    <2> QED  BY <1>0, <2>1 DEF FrameOK, PostInv
  <1>8. ASSUME NEW t \in Threads, PostCounts(t)  PROVE PostInv'
    <2>1. count' = count + 1 /\ pc[t] = "post" /\ pc' = [pc EXCEPT ![t] = "postDone"]
      BY <1>8 DEF PostCounts, At, GoTo
    <2>2. count < MaxCount /\ \A u \in Threads \ {t} : pc[u] # "post"
      BY <2>1 DEF PostInv
    <2>3. \A u \in Threads : pc'[u] # "post"
      BY <2>1, <2>2 DEF FrameOK
    <2> QED  BY <1>0, <2>1, <2>2, <2>3 DEF PostInv
  <1>9. ASSUME NEW t \in Threads, WaitSem(t) \/ (SemGoesOn(t) /\ ~PostCounts(t))
        PROVE  PostInv'
    <2>1. PICK from, to \in (SemPcs \cup {"run"}) \ {"post"} : Moves(t, from, to)
      <3>1. CASE WaitSem(t) \/ WaitSemReturns(t) \/ PostSemReturns(t)
        BY <3>1, LockMoves DEF WaitSem, WaitSemReturns, PostSemReturns
      <3>2. CASE SemWaits(t) \/ SemRefused(t)
        BY <3>2, WaitMoves DEF SemWaits, SemRefused
      <3>3. CASE SemWoken(t) \/ SemInterrupted(t)
        BY <3>3, WaitMoves DEF SemWoken, SemInterrupted, SemWaitEnds
      <3>4. CASE TakeCount(t)
        BY <3>4, QuietMoves DEF TakeCount
      <3> QED  BY <1>9, <3>1, <3>2, <3>3, <3>4 DEF SemGoesOn
    <2>2. count' \in Nat /\ count' <= count
      <3>1. count' = count \/ (count > 0 /\ count' = count - 1)
        BY <1>9 DEF WaitSem, SemGoesOn, TakeCount, SemWaits, SemRefused, SemWoken,
                    SemInterrupted, WaitSemReturns, PostSemReturns, semVars
      <3> QED  BY <1>0, <3>1
    <2> QED  BY <2>1, <2>2, MoveKeepsPost
  <1> QED
    BY <1>3, <1>4, <1>5, <1>6, <1>7, <1>8, <1>9 DEF PrNext, Starts, Proceeds

-----------------------------------------------------------------------------
(* The results.                                                            *)

\* The inductive invariant.
ProgramInv == /\ program \in Programs
              /\ FrameOK /\ OnceInv /\ LifeInv /\ CountInv /\ SemInv
              /\ RestTypes /\ PostInv

LEMMA InitProgramInv == PrInit => ProgramInv
PROOF
  <1> SUFFICES ASSUME PrInit  PROVE ProgramInv
    OBVIOUS
  <1> USE DEF PrInit, ACvInit, ThrInit, SemInit, OnceInit
  <1>1. /\ NoThread \notin Threads /\ NoCvar \notin CVars /\ SemCvar \in CVars
        /\ Main \in Threads /\ SemValue \in Nat
    BY ACvAssumption, ThreadAssumption, SemAssumption
  <1>2. FrameOK
    BY DEF FrameOK, Labels, LifePcs
  <1>3. \A t \in Threads : /\ pc[t] \in {"run", "none"} /\ joiner[t] = NoThread
                           /\ state[t] # "JOIN_WAIT" /\ on[t] = NoCvar
    OBVIOUS
  <1>4. OnceInv
    BY <1>3 DEF OnceInv, OnceTypeOK, OncePcs, RunPcs
  <1>5. LifeInv
    <2>1. LifeTypes /\ DeadInv
      BY DEF LifeTypes, DeadInv, States
    <2>2. pc[Main] \notin LifePcs
      BY <1>1 DEF LifePcs
    <2>3. ASSUME NEW t \in Threads
          PROVE  CreateInv(t) /\ JoinableInv(t) /\ ParkInv(t) /\ JoinInv(t)
      BY <1>3 DEF CreateInv, JoinableInv, ParkInv, JoinInv, CreatePcs, JoinPcs
    <2> QED  BY <2>1, <2>2, <2>3 DEF LifeInv
  <1>6. CountInv
    <2>1. CountedThreads = {}
      BY <1>3 DEF CountedThreads, GonePcs, BegunPcs, Pool
    <2> QED  BY <2>1, FS_EmptySet DEF CountInv
  <1>7. SemInv
    <2>1. InSemWait = {} /\ Waiting(SemCvar) = {}
      BY <1>1, <1>3 DEF InSemWait, Waiting
    <2>2. CvTypes
      BY DEF CvTypes, Phases
    <2> QED  BY <1>1, <1>3, <2>1, <2>2, FS_EmptySet DEF SemInv, UnitsHaveTakers
  <1>8. RestTypes /\ PostInv
    BY <1>1, <1>3, SemAssumption DEF RestTypes, PostInv
  <1> QED  BY <1>2, <1>4, <1>5, <1>6, <1>7, <1>8 DEF ProgramInv

LEMMA NextProgramInv == ProgramInv /\ [PrNext]_programVars => ProgramInv'
PROOF
  <1>1. program \in Programs /\ [PrNext]_programVars => program' \in Programs
    BY DEF PrNext, programVars
  <1>2. RestTypes /\ [PrNext]_programVars => RestTypes'
    BY StepKeepsRestTypes DEF PrNext, programVars, clientVars, acvVars, thrVars, RestTypes
  <1> QED
    BY <1>1, <1>2, NextOnceInv, NextLifeInv, NextCountInv, NextSemInv, NextPostInv
       DEF ProgramInv

\* What the threads, the objects of PR_CallOnce, the count of user threads and the
\* semaphore record agrees with the places of the threads, at all times.
THEOREM SpecProgramInv == PrSpec => []ProgramInv
PROOF
  BY InitProgramInv, NextProgramInv, PTL DEF PrSpec

\* Every variable keeps its type; in particular the count of user threads never
\* passes the number of threads, nor the waiters of a semaphore.
THEOREM SpecPrTypeOK == PrSpec => []PrTypeOK
PROOF
  <1>1. ProgramInv => PrTypeOK
    <2> SUFFICES ASSUME ProgramInv  PROVE PrTypeOK
      OBVIOUS
    <2>1. IsFiniteSet(Threads) /\ Main \in Threads
      BY ThreadAssumption
    <2>2. userActive \in 0..Cardinality(Threads)
      <3>1. Cardinality(Pool) = Cardinality(Threads) - 1 /\ IsFiniteSet(Pool)
        BY <2>1, FS_RemoveElement DEF Pool
      <3>2. Cardinality(CountedThreads) <= Cardinality(Pool)
        BY <3>1, FS_Subset DEF CountedThreads
      <3>3. Cardinality(CountedThreads) \in Nat /\ Cardinality(Threads) \in Nat
        BY <2>1, CountedIsFinite, FS_CardinalityType
      <3> QED  BY <3>1, <3>2, <3>3 DEF ProgramInv, CountInv
    <2>3. waiters \in 0..Cardinality(Threads)
      <3>1. Cardinality(InSemWait) <= Cardinality(Threads)
        BY <2>1, FS_Subset DEF InSemWait
      <3>2. Cardinality(InSemWait) \in Nat /\ Cardinality(Threads) \in Nat
        BY <2>1, SemFinite, FS_CardinalityType DEF ProgramInv
      <3> QED  BY <3>1, <3>2 DEF ProgramInv, SemInv
    <2>4. count \in 0..MaxCount
      BY SemAssumption DEF ProgramInv, SemInv, PostInv
    <2>5. ACvTypeOK
      BY DEF ProgramInv, FrameOK, SemInv, CvTypes, RestTypes, ACvTypeOK
    <2>6. ThrTypeOK
      BY <2>2 DEF ProgramInv, LifeInv, LifeTypes, RestTypes, ThrTypeOK
    <2>7. SemTypeOK
      BY <2>3, <2>4 DEF ProgramInv, SemInv, SemTypeOK
    <2> QED  BY <2>5, <2>6, <2>7 DEF ProgramInv, FrameOK, OnceInv, PrTypeOK
  <1> QED  BY <1>1, SpecProgramInv, PTL

\* PR_CallOnce runs the function of an object in one thread only, whichever threads
\* call it at once, and everybody who returns finds the status that it set.
THEOREM SpecFuncRunsOnce == PrSpec => []FuncRunsOnce
PROOF
  <1>1. ProgramInv => FuncRunsOnce
    <2> SUFFICES ASSUME OnceInv  PROVE FuncRunsOnce
      BY DEF ProgramInv
    <2>1. ASSUME NEW o \in Onces  PROVE Cardinality(ran[o]) <= 1
      <3>1. CASE ran[o] = {}
        BY <3>1, FS_EmptySet
      <3>2. CASE ran[o] # {}
        <4>1. PICK t \in ran[o] : TRUE
          BY <3>2
        <4>2. ran[o] = {t}
          BY <4>1 DEF OnceInv
        <4>3. Cardinality({t}) = 1
          BY FS_Singleton
        <4> QED  BY <4>2, <4>3
      <3> QED  BY <3>1, <3>2
    <2> QED  BY <2>1 DEF FuncRunsOnce, OnceInv, RunPcs
  <1> QED  BY <1>1, SpecProgramInv, PTL

\* As long as a thread is in PR_JoinThread the thread it joins exists: it has not
\* ended, is not destroyed, and is not reused for another.
THEOREM SpecJoinedThreadsExist == PrSpec => []JoinedThreadsExist
PROOF
  <1>1. ProgramInv => JoinedThreadsExist
    <2> SUFFICES ASSUME LifeInv, NEW me \in Threads, pc[me] \in JoinPcs
                 PROVE  /\ pc[target[me]] \notin EndPcs
                        /\ pc[me] = "joined" => pc[target[me]] = "parked"
      BY DEF ProgramInv, JoinedThreadsExist, EndPcs
    <2>1. target[me] \in Threads /\ joiner[target[me]] # NoThread
      BY ACvAssumption DEF LifeInv, JoinInv, Pool
    <2> QED  BY <2>1 DEF LifeInv, JoinableInv, JoinInv
  <1> QED  BY <1>1, SpecProgramInv, PTL

\* When PR_Cleanup has returned no other thread runs or can start to run, although
\* threads create others, and creations fail, while it waits.
THEOREM SpecCleanupIsLast == PrSpec => []CleanupIsLast
PROOF
  <1>1. ProgramInv => CleanupIsLast
    BY DEF ProgramInv, CountInv, CountedThreads, CleanupIsLast, GonePcs
  <1> QED  BY <1>1, SpecProgramInv, PTL

\* As long as a thread waits for a semaphore, each unit of its count has a thread on
\* its way to take it, except those whose thread was interrupted.
THEOREM SpecUnitsHaveTakers == PrSpec => []UnitsHaveTakers
PROOF
  <1>1. ProgramInv => UnitsHaveTakers
    BY DEF ProgramInv, SemInv
  <1> QED  BY <1>1, SpecProgramInv, PTL
=============================================================================
