----------------------------- MODULE JsThinLock -----------------------------
(***************************************************************************)
(* The thin locks of the JavaScript engine, jslock.c: a word that holds the  *)
(* owner and a wait bit, changed by compare-and-swap, and a fat lock, taken   *)
(* from a free list under contention, in which threads suspend.             *)
(***************************************************************************)
EXTENDS CvClient, Integers, Sequences

CONSTANTS ThinLocks,    \* the JSThinLocks
          GlobalLock,   \* _global_lock
          FatLocks,     \* the JSFatLocks; a fat lock names its slock, too
          Svar,         \* fl->svar
          FreeFats,     \* _fl_table.free after js_SetupLocks
          NoThin,       \* "has no thin lock in hand"
          NoFat         \* NULL

ASSUME ThinAssumption ==
  /\ FatLocks \subseteq Locks /\ GlobalLock \in Locks \ FatLocks
  /\ Svar \in [FatLocks -> CVars] /\ \A f \in FatLocks : CvLock[Svar[f]] = f
  /\ FreeFats \in Seq(FatLocks)
  \* so that the free list is never down to its last fat lock
  /\ Len(FreeFats) > Cardinality(ThinLocks)
  /\ NoThin \notin ThinLocks /\ NoFat \notin FatLocks

\* js_SetupLocks puts every fat lock into the free list once.
ASSUME FreeFatsAssumption ==
  \A i, j \in DOMAIN FreeFats : FreeFats[i] = FreeFats[j] => i = j

VARIABLES owner,      \* Thin_RemoveWait(p->owner)
          waitBit,    \* Thin_GetWait(p->owner)
          fat,        \* p->fat
          susp,       \* fl->susp
          freeFats,   \* _fl_table.free
          thin,       \* the lock a thread is busy with
          meWait,     \* whether me has the wait bit in js_Enqueue
          fl          \* fl in js_SuspendThread, js_ResumeThread, emptyFatlock

wordVars == <<owner, waitBit>>
fatVars  == <<fat, susp, freeFats>>
thinVars == <<wordVars, fatVars, thin, meWait, fl>>

EnqueuePcs == {"enqueue", "enq", "enqUnlock", "suspend", "suspLock", "suspCount",
               "suspWait", "suspUnlock", "relock", "empty", "emptying",
               "emptyUnlock"}
LockPcs    == {"lock", "enqGot"} \cup EnqueuePcs
DequeuePcs == {"dequeue", "release", "resume", "resLock", "resNotify",
               "resUnlock", "deqUnlock"}
ThinPcs    == {"held", "unlock", "unlocked"} \cup LockPcs \cup DequeuePcs

ThinInit == /\ owner = [p \in ThinLocks |-> NoThread]
            /\ waitBit = [p \in ThinLocks |-> FALSE]
            /\ fat = [p \in ThinLocks |-> NoFat]
            /\ susp = [f \in FatLocks |-> 0]
            /\ freeFats = FreeFats
            /\ thin = [t \in Threads |-> NoThin]
            /\ meWait = [t \in Threads |-> FALSE]
            /\ fl = [t \in Threads |-> NoFat]

-----------------------------------------------------------------------------
(* Slips.                                                                  *)

\* js_SuspendThread does not look at fl->susp.
SlipSuspendAnyway(t) == fat[thin[t]] = NoFat

\* js_Unlock stores 0 into the word, whatever has become of the wait bit.
SlipStoreZero(p) == FALSE

\* js_Enqueue gives me the wait bit whatever emptyFatlock has returned.
SlipAlwaysWait(f) == TRUE

-----------------------------------------------------------------------------
\* js_CompareAndSwap(&p->owner, 0, w): w is t, with or without the wait bit.
SetWord(p, t, bit) == /\ owner' = [owner EXCEPT ![p] = t]
                      /\ waitBit' = [waitBit EXCEPT ![p] = bit]

SwapSucceeds(p) == owner[p] = NoThread

\* js_Lock of thin[t], from "lock" to "held".
LockFast(t) == /\ Continue(t, "lock", "held")
               /\ SwapSucceeds(thin[t])
               /\ SetWord(thin[t], t, FALSE)
               /\ UNCHANGED <<fatVars, thin, meWait, fl>>

\* js_Enqueue starts: me has no wait bit.
LockSlow(t) == /\ Continue(t, "lock", "enqueue")
               /\ owner[thin[t]] # NoThread
               /\ meWait' = [meWait EXCEPT ![t] = FALSE]
               /\ UNCHANGED <<wordVars, fatVars, thin, fl>>

EnqueueLocks(t) == /\ Lock(t, GlobalLock, "enqueue", "enq")
                   /\ UNCHANGED thinVars

\* The owner is told of a waiter, which needs a fat lock.
SetWait(t) == LET p == thin[t] IN
  /\ Continue(t, "enq", "enqUnlock")
  /\ owner[p] # NoThread
  /\ waitBit' = [waitBit EXCEPT ![p] = TRUE]
  /\ IF fat[p] = NoFat
     THEN /\ Len(freeFats) > 1   \* bound: not the last one
          /\ fat' = [fat EXCEPT ![p] = Head(freeFats)]
          /\ susp' = [susp EXCEPT ![Head(freeFats)] = 0]
          /\ freeFats' = Tail(freeFats)
     ELSE UNCHANGED fatVars
  /\ UNCHANGED <<owner, thin, meWait, fl>>

\* The lock has been released: me takes it, with its wait bit.
EnqueueTakes(t) == /\ Continue(t, "enq", "enqGot")
                   /\ owner[thin[t]] = NoThread
                   /\ SetWord(thin[t], t, meWait[t])
                   /\ UNCHANGED <<fatVars, thin, meWait, fl>>

EnqueueReturns(t) == /\ Unlock(t, GlobalLock, "enqGot", "held")
                     /\ UNCHANGED thinVars

EnqueueUnlocks(t) == /\ Unlock(t, GlobalLock, "enqUnlock", "suspend")
                     /\ UNCHANGED thinVars

-----------------------------------------------------------------------------
(* js_SuspendThread: p->fat is read without a lock.                        *)

ReadFat(t) == fl' = [fl EXCEPT ![t] = fat[thin[t]]]

SuspendThread(t) ==
  /\ Continue(t, "suspend", IF fat[thin[t]] = NoFat THEN "relock" ELSE "suspLock")
  /\ ReadFat(t)
  /\ UNCHANGED <<wordVars, fatVars, thin, meWait>>

SuspendLocks(t) == /\ Lock(t, fl[t], "suspLock", "suspCount")
                   /\ UNCHANGED thinVars

\* The fat lock is gone, or js_ResumeThread came first and left susp negative.
NoSuspension(t) == fat[thin[t]] = NoFat \/ susp[fl[t]] + 1 < 1

SuspendCounts(t) ==
  /\ At(t, "suspCount")
  /\ IF NoSuspension(t) THEN Continue(t, "suspCount", "suspUnlock")
                        ELSE Wait(t, Svar[fl[t]], "suspCount", "suspWait")
  /\ susp' = [susp EXCEPT ![fl[t]] = @ + 1]
  /\ UNCHANGED <<wordVars, fat, freeFats, thin, meWait, fl>>

SuspendWoken(t) == WaitEnds(t, "suspWait", "suspUnlock") /\ UNCHANGED thinVars

SuspendReturns(t) == /\ Unlock(t, fl[t], "suspUnlock", "relock")
                     /\ UNCHANGED thinVars

-----------------------------------------------------------------------------
(* emptyFatlock, with the global lock.                                     *)

EnqueueRelocks(t) == /\ Lock(t, GlobalLock, "relock", "empty")
                     /\ UNCHANGED thinVars

NothingToEmpty(t) == /\ Continue(t, "empty", "enq")
                     /\ fat[thin[t]] = NoFat
                     /\ meWait' = [meWait EXCEPT ![t] = FALSE]
                     /\ UNCHANGED <<wordVars, fatVars, thin, fl>>

EmptyLocks(t) == /\ At(t, "empty")
                 /\ fat[thin[t]] # NoFat
                 /\ Lock(t, fat[thin[t]], "empty", "emptying")
                 /\ ReadFat(t)
                 /\ UNCHANGED <<wordVars, fatVars, thin, meWait>>

NobodySuspended(f) == susp[f] < 1

OthersWait(f) == ~NobodySuspended(f)

\* me gets a wait bit if others are suspended; if not, the fat lock is free.
EmptyFatlock(t) ==
  LET f == fl[t] IN
  /\ Continue(t, "emptying", "emptyUnlock")
  /\ meWait' = [meWait EXCEPT ![t] = OthersWait(f)]
  /\ IF NobodySuspended(f)
     THEN /\ susp' = [susp EXCEPT ![f] = -1]
          /\ freeFats' = <<f>> \o freeFats
          /\ fat' = [fat EXCEPT ![thin[t]] = NoFat]
     ELSE UNCHANGED fatVars
  /\ UNCHANGED <<wordVars, thin, fl>>

EmptyReturns(t) == /\ Unlock(t, fl[t], "emptyUnlock", "enq")
                   /\ UNCHANGED thinVars

-----------------------------------------------------------------------------
(* js_Unlock of thin[t], from "unlock" to "unlocked".                       *)

Contended(p) == waitBit[p]

UnlockFast(t) == /\ Continue(t, "unlock", "unlocked")
                 /\ ~Contended(thin[t])
                 /\ SetWord(thin[t], NoThread, FALSE)
                 /\ UNCHANGED <<fatVars, thin, meWait, fl>>

UnlockSlow(t) == /\ At(t, "unlock")
                 /\ Contended(thin[t])
                 /\ Continue(t, "unlock", "dequeue")
                 /\ UNCHANGED thinVars

DequeueLocks(t) == /\ Lock(t, GlobalLock, "dequeue", "release")
                   /\ UNCHANGED thinVars

\* From here on js_Lock of another thread may succeed.
Release0(t) == /\ Continue(t, "release", "resume")
               /\ SetWord(thin[t], NoThread, FALSE)
               /\ UNCHANGED <<fatVars, thin, meWait, fl>>

\* js_ResumeThread, for a fat lock that must be there.
ResumeThread(t) == /\ Continue(t, "resume", "resLock")
                   /\ fat[thin[t]] # NoFat
                   /\ ReadFat(t)
                   /\ UNCHANGED <<wordVars, fatVars, thin, meWait>>

ResumeLocks(t) == /\ Lock(t, fl[t], "resLock", "resNotify")
                  /\ UNCHANGED thinVars

ResumeNotifies(t) == /\ At(t, "resNotify")
                     /\ Notify(t, Svar[fl[t]])
                     /\ susp' = [susp EXCEPT ![fl[t]] = @ - 1]
                     /\ GoTo(t, "resUnlock")
                     /\ UNCHANGED <<wordVars, fat, freeFats, thin, meWait, fl>>

ResumeReturns(t) == /\ Unlock(t, fl[t], "resUnlock", "deqUnlock")
                    /\ UNCHANGED thinVars

DequeueReturns(t) == /\ Unlock(t, GlobalLock, "deqUnlock", "unlocked")
                     /\ UNCHANGED thinVars

-----------------------------------------------------------------------------
ThinGoesOn(t) ==
  \/ LockFast(t) \/ LockSlow(t)
  \/ EnqueueLocks(t) \/ SetWait(t) \/ EnqueueTakes(t) \/ EnqueueReturns(t)
  \/ EnqueueUnlocks(t) \/ SuspendThread(t) \/ SuspendLocks(t) \/ SuspendCounts(t)
  \/ SuspendWoken(t) \/ SuspendReturns(t)
  \/ EnqueueRelocks(t) \/ NothingToEmpty(t) \/ EmptyLocks(t) \/ EmptyFatlock(t)
  \/ EmptyReturns(t)
  \/ UnlockFast(t) \/ UnlockSlow(t) \/ DequeueLocks(t) \/ Release0(t)
  \/ ResumeThread(t) \/ ResumeLocks(t) \/ ResumeNotifies(t) \/ ResumeReturns(t)
  \/ DequeueReturns(t)
  \/ Relock(t) /\ UNCHANGED thinVars

ThinTypeOK == /\ owner \in [ThinLocks -> Threads \cup {NoThread}]
              /\ waitBit \in [ThinLocks -> BOOLEAN]
              /\ fat \in [ThinLocks -> FatLocks \cup {NoFat}]
              /\ susp \in [FatLocks -> Int]
              /\ freeFats \in Seq(FatLocks)
              /\ thin \in [Threads -> ThinLocks \cup {NoThin}]
              /\ meWait \in [Threads -> BOOLEAN]
              /\ fl \in [Threads -> FatLocks \cup {NoFat}]

\* The asserts of js_Dequeue: whoever finds the wait bit set finds the fat lock
\* to resume a thread from, although others may have allocated it, emptied it
\* and put it back in the meantime.
DequeuersHaveFatLock ==
  \A t \in Threads : pc[t] \in {"release", "resume"} => fat[thin[t]] # NoFat

\* A released lock is not left to suspended threads: one of those that want it
\* is awake, or somebody is on the way to resume one.
FreeLockIsWanted ==
  \A p \in ThinLocks :
    LET wanting == {t \in Threads : thin[t] = p /\ pc[t] \in LockPcs}
    IN  owner[p] = NoThread /\ wanting # {} =>
          \/ \E t \in wanting : pc[t] # "suspWait" \/ phase[t] # "waiting"
          \/ \E t \in Threads : thin[t] = p /\ pc[t] \in DequeuePcs
=============================================================================
