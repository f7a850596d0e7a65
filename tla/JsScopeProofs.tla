---------------------------- MODULE JsScopeProofs ----------------------------
(***************************************************************************)
(* Proofs about JsScope, for any threads, objects and programs: whoever has   *)
(* locked an object has it alone; whoever finds the wait bit of a thin lock   *)
(* finds its fat lock; and, unless a suspension comes so late that the fat    *)
(* lock serves another thin lock, no released lock is left to those suspended. *)
(***************************************************************************)
EXTENDS JsScope, FiniteSetTheorems, SequenceTheorems, TLAPS

-----------------------------------------------------------------------------
(* Ownership of the words and the counts of the scopes.                    *)

Pcs == ScopePcs \cup ThinPcs

\* A thread in js_Lock that does not have thin[t] yet.
Wanting == {"lock"} \cup EnqueuePcs

\* It has the word of thin[t], which counts nothing, ...
Bare == {"held", "enqGot", "slotHeld", "unlock", "dequeue", "release"}

\* ... or that of a scope which counts it once more than depth[t] says.
Counted == {"check", "unlockScope"}

\* It has given the word up.
Past == {"unlocked", "resume", "resLock", "resNotify", "resUnlock", "deqUnlock"}

\* What the proof needs to know of types.
Types == /\ pc \in [Threads -> Pcs]
         /\ owner \in [ThinLocks -> Threads \cup {NoThread}]
         /\ thin \in [Threads -> ThinLocks \cup {NoThin}]
         /\ map \in [Objects -> ThinLocks]
         /\ count \in [ThinLocks -> Int]
         /\ obj \in [Threads -> Objects \cup {NoObject}]
         /\ depth \in [Threads -> Nat]
         /\ next \in [Threads -> {"run", "lockObj", "inside"}]

\* The scopes whose word t has.
HasWord(t, p) == \/ pc[t] \in Bare \cup Counted /\ thin[t] = p
                 \/ depth[t] > 0 /\ map[obj[t]] = p
                 \/ pc[t] = "mutated" /\ p = Shared

\* Where a thread is says what it has in hand, ...
InHand(t) ==
  /\ pc[t] # "run" => obj[t] \in Objects
  /\ pc[t] \in Wanting \cup Bare \cup Counted \cup Past \cup {"lockScope", "slot"}
       => thin[t] \in ThinLocks
  /\ \A o \in Objects : thin[t] = OwnScope[o] => map[o] = OwnScope[o]

\* ... how often it has locked its object, ...
Depths(t) ==
  /\ pc[t] \in Wanting \cup {"run", "slot", "slotHeld", "held", "enqGot"}
       => depth[t] = 0
  /\ pc[t] \in {"inside", "mutated"} => depth[t] > 0
  /\ pc[t] \in {"unlockScope", "unlock", "dequeue", "release"} \cup Past
       => (next[t] = "inside" <=> depth[t] > 0)

\* ... which scope it is busy with, ...
Scopes(t) ==
  /\ depth[t] > 0 /\ pc[t] \in Counted \cup {"lockScope"} => thin[t] = map[obj[t]]
  /\ depth[t] > 0 /\ pc[t] \in Bare => thin[t] # map[obj[t]]
  /\ pc[t] = "mutated" => map[obj[t]] = OwnScope[obj[t]]

\* ... and what the scopes it has locked count.
Counts(t) ==
  /\ pc[t] \in Bare => count[thin[t]] = 0
  /\ pc[t] \in Counted => count[thin[t]] = depth[t] + 1
  /\ pc[t] = "mutated" => count[Shared] = depth[t]
  /\ depth[t] > 0 /\ pc[t] \notin Counted \cup {"mutated"}
       => count[map[obj[t]]] = depth[t]

ThreadInv(t) == /\ InHand(t) /\ Depths(t) /\ Scopes(t) /\ Counts(t)
                /\ \A p \in ThinLocks : owner[p] = t <=> HasWord(t, p)

\* The inductive invariant.
OwnInv == /\ Types
          /\ \A o \in Objects : map[o] \in {Shared, OwnScope[o]}
          /\ \A p \in ThinLocks : owner[p] = NoThread => count[p] = 0
          /\ \A t \in Threads : ThreadInv(t)

\* The other threads keep their places, and what is in hand there.
OthersStay(t) == \A u \in Threads \ {t} :
  /\ pc'[u] = pc[u] /\ thin'[u] = thin[u]
  /\ obj'[u] = obj[u] /\ depth'[u] = depth[u] /\ next'[u] = next[u]

\* They keep the words they have, whose scopes count as before.
OthersOwn(t) == \A u \in Threads \ {t} : \A p \in ThinLocks :
  /\ owner'[p] = u <=> owner[p] = u
  /\ owner[p] = u => count'[p] = count[p]

\* A thread that has locked its object has the word of the object's scope.
LEMMA HasItsScope ==
  ASSUME OwnInv, NEW t \in Threads, depth[t] > 0
  PROVE  /\ obj[t] \in Objects /\ map[obj[t]] \in ThinLocks
         /\ owner[map[obj[t]]] = t
PROOF
  <1>1. ThreadInv(t) /\ pc[t] # "run"
    BY DEF OwnInv, ThreadInv, Depths, Types
  <1> QED  BY <1>1 DEF OwnInv, Types, ThreadInv, InHand, HasWord

\* What t does between its own scopes leaves what holds of u as it is.
LEMMA OthersKeepInv ==
  ASSUME OwnInv, NEW t \in Threads, OthersStay(t), OthersOwn(t), UNCHANGED map,
         NEW u \in Threads \ {t}
  PROVE  ThreadInv(u)'
PROOF
  <1>1. /\ ThreadInv(u)
        /\ pc'[u] = pc[u] /\ thin'[u] = thin[u]
        /\ obj'[u] = obj[u] /\ depth'[u] = depth[u] /\ next'[u] = next[u]
        /\ map' = map
    BY DEF OwnInv, OthersStay
  <1>2. InHand(u)' /\ Depths(u)' /\ Scopes(u)'
    BY <1>1 DEF ThreadInv, InHand, Depths, Scopes
  <1>3. \A p \in ThinLocks : HasWord(u, p) => count'[p] = count[p]
    BY <1>1 DEF ThreadInv, OthersOwn
  <1>4. Counts(u)'
    <2>1. pc[u] \in Bare \cup Counted => count'[thin[u]] = count[thin[u]]
      BY <1>1, <1>3 DEF ThreadInv, InHand, HasWord
    <2>2. pc[u] = "mutated" => count'[Shared] = count[Shared]
      BY <1>3, ScopeAssumption DEF HasWord
    <2>3. depth[u] > 0 => count'[map[obj[u]]] = count[map[obj[u]]]
      BY <1>3, HasItsScope DEF HasWord
    <2> QED  BY <1>1, <2>1, <2>2, <2>3 DEF ThreadInv, Counts
  <1>5. \A p \in ThinLocks : owner'[p] = u <=> HasWord(u, p)'
    BY <1>1 DEF ThreadInv, OthersOwn, HasWord
  <1> QED  BY <1>2, <1>4, <1>5 DEF ThreadInv

LEMMA StepKeepsOwnInv ==
  ASSUME OwnInv, NEW t \in Threads, OthersStay(t), OthersOwn(t), UNCHANGED map,
         Types', ThreadInv(t)',
         \A p \in ThinLocks : owner'[p] = NoThread => count'[p] = 0
  PROVE  OwnInv'
PROOF
  <1>1. \A u \in Threads : ThreadInv(u)'
    BY OthersKeepInv
  <1> QED  BY <1>1 DEF OwnInv

\* Steps on the way to a lock, to its release, or after that.
LEMMA QuietStep ==
  ASSUME OwnInv, NEW t \in Threads, NEW to, pc' = [pc EXCEPT ![t] = to],
         UNCHANGED <<owner, thin, scopeVars>>,
         \/ pc[t] \in Wanting /\ to \in Wanting
         \/ pc[t] = "enqGot" /\ to = "held"
         \/ pc[t] \in {"unlock", "dequeue"} /\ to \in {"dequeue", "release"}
         \/ pc[t] \in Past /\ to \in Past
  PROVE  OwnInv'
PROOF
  <1>1. /\ owner' = owner /\ thin' = thin /\ map' = map /\ count' = count
        /\ obj' = obj /\ depth' = depth /\ next' = next
    BY DEF scopeVars
  <1>2. to \in Pcs /\ pc'[t] = to /\ Types'
    BY <1>1 DEF OwnInv, Types, Pcs, ScopePcs, ThinPcs, LockPcs, EnqueuePcs, DequeuePcs,
                Wanting, Past
  <1>3. OthersStay(t) /\ OthersOwn(t)
    BY <1>1 DEF OthersStay, OthersOwn, OwnInv, Types
  <1>4. ThreadInv(t)
    BY DEF OwnInv
  <1>5. InHand(t)' /\ Depths(t)' /\ Scopes(t)' /\ Counts(t)'
    BY <1>1, <1>2, <1>4 DEF ThreadInv, InHand, Depths, Scopes, Counts, Wanting, Bare,
                            Counted, Past, EnqueuePcs
  <1>6. \A p \in ThinLocks : owner'[p] = t <=> HasWord(t, p)'
    BY <1>1, <1>2, <1>4 DEF ThreadInv, HasWord, Wanting, Bare, Counted, Past, EnqueuePcs
  <1> QED  BY <1>1, <1>2, <1>3, <1>5, <1>6, StepKeepsOwnInv DEF OwnInv, ThreadInv

\* A free word is taken, with a count of 0, by a thread that has locked nothing.
LEMMA TakeStep ==
  ASSUME OwnInv, NEW t \in Threads, NEW to \in {"held", "enqGot", "slotHeld"},
         pc[t] \in {"lock", "enq", "slot"}, pc' = [pc EXCEPT ![t] = to],
         owner[thin[t]] = NoThread, owner' = [owner EXCEPT ![thin[t]] = t],
         UNCHANGED <<thin, scopeVars>>
  PROVE  OwnInv'
PROOF
  <1>1. /\ thin' = thin /\ map' = map /\ count' = count
        /\ obj' = obj /\ depth' = depth /\ next' = next
    BY DEF scopeVars
  <1>2. ThreadInv(t) /\ t # NoThread
    BY ACvAssumption DEF OwnInv
  <1>3. thin[t] \in ThinLocks /\ depth[t] = 0 /\ count[thin[t]] = 0
    BY <1>2 DEF OwnInv, ThreadInv, InHand, Depths, Wanting, EnqueuePcs
  <1>4. pc'[t] = to /\ Types'
    BY <1>1, <1>3 DEF OwnInv, Types, Pcs, ScopePcs, ThinPcs, LockPcs
  <1>5. OthersStay(t) /\ OthersOwn(t)
    BY <1>1, <1>2, <1>3, ACvAssumption DEF OthersStay, OthersOwn, OwnInv, Types
  <1>6. InHand(t)' /\ Depths(t)' /\ Scopes(t)' /\ Counts(t)'
    BY <1>1, <1>2, <1>3, <1>4 DEF ThreadInv, InHand, Depths, Scopes, Counts, Wanting,
                                  Bare, Counted, Past, EnqueuePcs
  <1>7. \A p \in ThinLocks : owner'[p] = t <=> HasWord(t, p)'
    BY <1>1, <1>2, <1>3, <1>4 DEF OwnInv, Types, ThreadInv, HasWord, Wanting, Bare,
                                  Counted, EnqueuePcs
  <1>8. \A p \in ThinLocks : owner'[p] = NoThread => count'[p] = 0
    BY <1>1, <1>2, <1>3 DEF OwnInv, Types
  <1> QED  BY <1>1, <1>4, <1>5, <1>6, <1>7, <1>8, StepKeepsOwnInv DEF ThreadInv

\* A word whose scope counts nothing is given up.
LEMMA GiveUpStep ==
  ASSUME OwnInv, NEW t \in Threads, NEW to \in {"unlocked", "resume"},
         pc[t] \in {"unlock", "release"}, pc' = [pc EXCEPT ![t] = to],
         owner' = [owner EXCEPT ![thin[t]] = NoThread], UNCHANGED <<thin, scopeVars>>
  PROVE  OwnInv'
PROOF
  <1>1. /\ thin' = thin /\ map' = map /\ count' = count
        /\ obj' = obj /\ depth' = depth /\ next' = next
    BY DEF scopeVars
  <1>2. ThreadInv(t) /\ t # NoThread
    BY ACvAssumption DEF OwnInv
  <1>3. thin[t] \in ThinLocks /\ owner[thin[t]] = t /\ count[thin[t]] = 0
    BY <1>2 DEF ThreadInv, InHand, Counts, HasWord, Bare
  <1>4. pc'[t] = to /\ Types'
    BY <1>1, <1>3 DEF OwnInv, Types, Pcs, ScopePcs, ThinPcs, DequeuePcs
  <1>5. OthersStay(t) /\ OthersOwn(t)
    BY <1>1, <1>3, ACvAssumption DEF OthersStay, OthersOwn, OwnInv, Types
  <1>6. InHand(t)' /\ Depths(t)' /\ Scopes(t)' /\ Counts(t)'
    BY <1>1, <1>2, <1>3, <1>4 DEF ThreadInv, InHand, Depths, Scopes, Counts, Wanting,
                                  Bare, Counted, Past, EnqueuePcs
  <1>7. \A p \in ThinLocks : owner'[p] = t <=> HasWord(t, p)'
    BY <1>1, <1>2, <1>3, <1>4 DEF OwnInv, Types, ThreadInv, Scopes, HasWord, Bare,
                                  Counted
  <1>8. \A p \in ThinLocks : owner'[p] = NoThread => count'[p] = 0
    BY <1>1, <1>3 DEF OwnInv, Types
  <1> QED  BY <1>1, <1>4, <1>5, <1>6, <1>7, <1>8, StepKeepsOwnInv DEF ThreadInv

LEMMA ThinStepKeepsOwnInv ==
  ASSUME OwnInv, NEW t \in Threads, ThinGoesOn(t), UNCHANGED scopeVars
  PROVE  OwnInv'
PROOF
  <1>1. CASE LockFast(t) \/ EnqueueTakes(t)
    <2>1. PICK to \in {"held", "enqGot", "slotHeld"} :
            pc[t] \in {"lock", "enq", "slot"} /\ pc' = [pc EXCEPT ![t] = to]
      BY <1>1 DEF LockFast, EnqueueTakes, Continue, At, GoTo
    <2>2. owner[thin[t]] = NoThread /\ owner' = [owner EXCEPT ![thin[t]] = t] /\ thin' = thin
      BY <1>1 DEF LockFast, EnqueueTakes, SwapSucceeds, SetWord
    <2> QED  BY <2>1, <2>2, TakeStep
  <1>2. CASE UnlockFast(t) \/ Release0(t)
    <2>1. PICK to \in {"unlocked", "resume"} :
            pc[t] \in {"unlock", "release"} /\ pc' = [pc EXCEPT ![t] = to]
      BY <1>2 DEF UnlockFast, Release0, Continue, At, GoTo
    <2>2. owner' = [owner EXCEPT ![thin[t]] = NoThread] /\ thin' = thin
      BY <1>2 DEF UnlockFast, Release0, SetWord
    <2> QED  BY <2>1, <2>2, GiveUpStep
  <1>3. CASE Relock(t) /\ UNCHANGED thinVars
    <2>1. UNCHANGED <<pc, owner, thin, map, count, obj, depth, next>>
      BY <1>3 DEF Relock, thinVars, wordVars, scopeVars
    <2> QED  BY <2>1 DEF OwnInv, Types, ThreadInv, InHand, Depths, Scopes, Counts, HasWord
  <1>4. CASE \/ LockSlow(t) \/ EnqueueLocks(t) \/ SetWait(t) \/ EnqueueUnlocks(t)
             \/ SuspendThread(t) \/ SuspendLocks(t) \/ SuspendCounts(t)
             \/ SuspendWoken(t) \/ SuspendReturns(t) \/ EnqueueRelocks(t)
             \/ NothingToEmpty(t) \/ EmptyLocks(t) \/ EmptyFatlock(t) \/ EmptyReturns(t)
    <2>1. UNCHANGED <<owner, thin>>
      BY <1>4 DEF LockSlow, EnqueueLocks, SetWait, EnqueueUnlocks, SuspendThread, SuspendLocks,
                  SuspendCounts, SuspendWoken, SuspendReturns, EnqueueRelocks, NothingToEmpty,
                  EmptyLocks, EmptyFatlock, EmptyReturns, thinVars, wordVars
    <2>2. PICK to \in Wanting : pc[t] \in Wanting /\ pc' = [pc EXCEPT ![t] = to]
      BY <1>4 DEF LockSlow, EnqueueLocks, SetWait, EnqueueUnlocks, SuspendThread, SuspendLocks,
                  SuspendCounts, SuspendWoken, SuspendReturns, EnqueueRelocks, NothingToEmpty,
                  EmptyLocks, EmptyFatlock, EmptyReturns, Continue, Lock, Unlock, Wait, WaitEnds,
                  At, GoTo, Wanting, EnqueuePcs
    <2> QED  BY <2>1, <2>2, QuietStep
  <1>5. CASE EnqueueReturns(t)
    <2>1. UNCHANGED <<owner, thin>> /\ pc[t] = "enqGot" /\ pc' = [pc EXCEPT ![t] = "held"]
      BY <1>5 DEF EnqueueReturns, Unlock, At, GoTo, thinVars, wordVars
    <2> QED  BY <2>1, QuietStep
  <1>6. CASE UnlockSlow(t) \/ DequeueLocks(t)
    <2>1. UNCHANGED <<owner, thin>>
      BY <1>6 DEF UnlockSlow, DequeueLocks, thinVars, wordVars
    <2>2. PICK to \in {"dequeue", "release"} :
            pc[t] \in {"unlock", "dequeue"} /\ pc' = [pc EXCEPT ![t] = to]
      BY <1>6 DEF UnlockSlow, DequeueLocks, Continue, Lock, At, GoTo
    <2> QED  BY <2>1, <2>2, QuietStep
  <1>7. CASE \/ ResumeThread(t) \/ ResumeLocks(t) \/ ResumeNotifies(t)
             \/ ResumeReturns(t) \/ DequeueReturns(t)
    <2>1. UNCHANGED <<owner, thin>>
      BY <1>7 DEF ResumeThread, ResumeLocks, ResumeNotifies, ResumeReturns, DequeueReturns,
                  thinVars, wordVars
    <2>2. PICK to \in Past : pc[t] \in Past /\ pc' = [pc EXCEPT ![t] = to]
      BY <1>7 DEF ResumeThread, ResumeLocks, ResumeNotifies, ResumeReturns, DequeueReturns,
                  Continue, Lock, Unlock, At, GoTo, Past
    <2> QED  BY <2>1, <2>2, QuietStep
  <1> QED  BY <1>1, <1>2, <1>3, <1>4, <1>5, <1>6, <1>7 DEF ThinGoesOn

\* Steps that change nothing but where a thread is and what it has in hand.
LEMMA HandStepKeepsOwnInv ==
  ASSUME OwnInv, NEW t \in Threads,
         \/ \E o \in Objects : LockObj(t, o) \/ GetSlot(t, o)
         \/ LockObjAgain(t) \/ ReadScope(t) \/ LockScope(t) \/ LockObjReturns(t)
         \/ LockObjRetries(t) \/ UnlockObj(t) \/ Unlocked(t)
         \/ SlotReturns(t) \/ SlotSlow(t)
  PROVE  OwnInv'
PROOF
  <1>1. /\ owner' = owner /\ map' = map /\ count' = count
        /\ OthersStay(t) /\ OthersOwn(t)
    <2>1. owner' = owner /\ map' = map /\ count' = count
      BY DEF LockObj, GetSlot, LockObjAgain, ReadScope, LockScope, LockObjReturns,
             LockObjRetries, UnlockObj, Unlocked, SlotReturns, SlotSlow, NoThinStep,
             scopeVars, thinVars, wordVars
    <2>2. OthersStay(t)
      BY DEF LockObj, GetSlot, LockObjAgain, ReadScope, LockScope, LockObjReturns,
             LockObjRetries, UnlockObj, Unlocked, SlotReturns, SlotSlow, NoThinStep,
             scopeVars, thinVars, OthersStay, Continue, GoTo, Becomes, ChooseLock, OwnInv,
             Types
    <2> QED  BY <2>1, <2>2 DEF OthersOwn
  <1>2. ThreadInv(t) /\ Types
    BY DEF OwnInv
  <1>3. depth[t] > 0 => owner[map[obj[t]]] = t /\ map[obj[t]] \in ThinLocks
    BY HasItsScope
  <1>4. Types' /\ ThreadInv(t)'
    <2>1. ASSUME NEW o \in Objects, LockObj(t, o) PROVE Types' /\ ThreadInv(t)'
      BY <1>1, <1>2, <2>1
      DEF LockObj, Continue, GoTo, At, thinVars, Types, Pcs, ScopePcs, ThreadInv, InHand, Depths,
          Scopes, Counts, HasWord, Wanting, EnqueuePcs, Bare, Counted, Past
    <2>2. ASSUME NEW o \in Objects, GetSlot(t, o) PROVE Types' /\ ThreadInv(t)'
      BY <1>1, <1>2, <2>2, ScopeAssumption
      DEF GetSlot, Continue, GoTo, At, ChooseLock, Types, Pcs, ScopePcs, ThreadInv, InHand, Depths,
          Scopes, Counts, HasWord, Wanting, EnqueuePcs, Bare, Counted, Past, OwnInv
    <2>3. CASE LockObjAgain(t)
      BY <1>1, <1>2, <2>3
      DEF LockObjAgain, Continue, GoTo, At, thinVars, scopeVars, Types, Pcs, ScopePcs, ThreadInv,
          InHand, Depths, Scopes, Counts, HasWord, Wanting, EnqueuePcs, Bare, Counted, Past
    <2>4. CASE ReadScope(t)
      BY <1>1, <1>2, <2>4, ScopeAssumption
      DEF ReadScope, Continue, GoTo, At, ChooseLock, scopeVars, Types, Pcs, ScopePcs, ThreadInv,
          InHand, Depths, Scopes, Counts, HasWord, Wanting, EnqueuePcs, Bare, Counted, Past, OwnInv
    <2>5. CASE LockScope(t)
      BY <1>1, <1>2, <1>3, <2>5
      DEF LockScope, Continue, GoTo, At, thinVars, scopeVars, Types, Pcs, ThinPcs, LockPcs, ThreadInv,
          InHand, Depths, Scopes, Counts, HasWord, Wanting, EnqueuePcs, Bare, Counted, Past
    <2>6. CASE LockObjReturns(t)
      BY <1>1, <1>2, <2>6
      DEF LockObjReturns, StillItsScope, Continue, GoTo, At, thinVars, Types, Pcs, ScopePcs, ThreadInv,
          InHand, Depths, Scopes, Counts, HasWord, Wanting, EnqueuePcs, Bare, Counted, Past
    <2>7. CASE LockObjRetries(t)
      BY <1>1, <1>2, <2>7
      DEF LockObjRetries, StillItsScope, Continue, GoTo, At, Becomes, thinVars, Types, Pcs, ScopePcs, ThreadInv,
          InHand, Depths, Scopes, Counts, HasWord, Wanting, EnqueuePcs, Bare, Counted, Past
    <2>8. CASE UnlockObj(t)
      BY <1>1, <1>2, <1>3, <2>8, ScopeAssumption
      DEF UnlockObj, Continue, GoTo, At, Becomes, ChooseLock, Types, Pcs, ScopePcs, ThreadInv,
          InHand, Depths, Scopes, Counts, HasWord, Wanting, EnqueuePcs, Bare, Counted, Past, OwnInv
    <2>9. CASE Unlocked(t)
      BY <1>1, <1>2, <2>9
      DEF Unlocked, Continue, GoTo, At, thinVars, Types, Pcs, ScopePcs, ThreadInv,
          InHand, Depths, Scopes, Counts, HasWord, Wanting, EnqueuePcs, Bare, Counted, Past
    <2>10. CASE SlotReturns(t)
      BY <1>1, <1>2, <2>10
      DEF SlotReturns, Continue, GoTo, At, Becomes, thinVars, Types, Pcs, ThinPcs, ThreadInv,
          InHand, Depths, Scopes, Counts, HasWord, Wanting, EnqueuePcs, Bare, Counted, Past
    <2>11. CASE SlotSlow(t)
      BY <1>1, <1>2, <2>11
      DEF SlotSlow, Continue, GoTo, At, thinVars, scopeVars, Types, Pcs, ScopePcs, ThreadInv,
          InHand, Depths, Scopes, Counts, HasWord, Wanting, EnqueuePcs, Bare, Counted, Past
    <2> QED  BY <2>1, <2>2, <2>3, <2>4, <2>5, <2>6, <2>7, <2>8, <2>9, <2>10, <2>11
  <1> QED  BY <1>1, <1>4, StepKeepsOwnInv DEF OwnInv

\* Steps that count.
LEMMA CountStepKeepsOwnInv ==
  ASSUME OwnInv, NEW t \in Threads,
         ReenterScope(t) \/ ScopeLocked(t) \/ UnlockScope(t) \/ TransferScopeLock(t)
  PROVE  OwnInv'
PROOF
  <1>1. ThreadInv(t) /\ Types /\ t # NoThread
    BY ACvAssumption DEF OwnInv
  <1>2. depth[t] > 0 => owner[map[obj[t]]] = t /\ map[obj[t]] \in ThinLocks
    BY HasItsScope
  <1>3. owner' = owner /\ map' = map /\ OthersStay(t)
    BY <1>1 DEF ReenterScope, ScopeLocked, UnlockScope, TransferScopeLock, NoThinStep, thinVars, wordVars,
           OthersStay, Continue, GoTo, Becomes, ChooseLock, Types
  <1>4. \A p \in ThinLocks : count'[p] = count[p] \/ owner[p] = t
    <2>1. CASE TransferScopeLock(t)
      BY <1>1, <2>1 DEF TransferScopeLock, Continue, At, Types, ThreadInv, Scopes, Depths, HasWord
    <2>2. CASE ReenterScope(t)
      BY <1>1, <2>2 DEF ReenterScope, Types
    <2>3. CASE ScopeLocked(t) \/ UnlockScope(t)
      BY <1>1, <2>3 DEF ScopeLocked, UnlockScope, Continue, At, Types, ThreadInv, HasWord, Bare, Counted
    <2> QED  BY <2>1, <2>2, <2>3
  <1>5. OthersOwn(t) /\ \A p \in ThinLocks : owner'[p] = NoThread => count'[p] = 0
    BY <1>1, <1>3, <1>4 DEF OthersOwn, OwnInv
  <1>6. Types' /\ ThreadInv(t)'
    <2>1. CASE ReenterScope(t)
      BY <1>1, <1>2, <1>3, <2>1
      DEF ReenterScope, Continue, GoTo, At, thinVars, Types, Pcs, ScopePcs, ThreadInv,
          InHand, Depths, Scopes, Counts, HasWord, Wanting, EnqueuePcs, Bare, Counted, Past
    <2>2. CASE ScopeLocked(t)
      BY <1>1, <1>2, <1>3, <2>2
      DEF ScopeLocked, Continue, GoTo, At, thinVars, Types, Pcs, ScopePcs, ThreadInv,
          InHand, Depths, Scopes, Counts, HasWord, Wanting, EnqueuePcs, Bare, Counted, Past
    <2>3. CASE UnlockScope(t)
      BY <1>1, <1>2, <1>3, <2>3
      DEF UnlockScope, Continue, GoTo, At, thinVars, Types, Pcs, ThinPcs, ThreadInv,
          InHand, Depths, Scopes, Counts, HasWord, Wanting, EnqueuePcs, Bare, Counted, Past
    <2>4. CASE TransferScopeLock(t)
      BY <1>1, <1>2, <1>3, <2>4, ScopeAssumption
      DEF TransferScopeLock, OldCount, Continue, GoTo, At, Becomes, ChooseLock, Types, Pcs, ThinPcs, ThreadInv,
          InHand, Depths, Scopes, Counts, HasWord, Wanting, EnqueuePcs, Bare, Counted, Past
    <2> QED  BY <2>1, <2>2, <2>3, <2>4
  <1> QED  BY <1>3, <1>5, <1>6, StepKeepsOwnInv

\* The scope GetMutableScope makes is nobody's.
LEMMA NewScopeIsFree ==
  ASSUME OwnInv, NEW t \in Threads, GetMutableScope(t)
  PROVE  /\ OwnScope[obj[t]] \in ThinLocks /\ owner[OwnScope[obj[t]]] = NoThread
         /\ \A u \in Threads : ~HasWord(u, OwnScope[obj[t]])
PROOF
  <1> DEFINE o == obj[t]
             s == OwnScope[o]
  <1>1. ThreadInv(t) /\ pc[t] = "inside" /\ map[o] = Shared
    BY DEF OwnInv, GetMutableScope, At
  <1>2. o \in Objects /\ s \in ThinLocks /\ s # Shared
    BY <1>1, ScopeAssumption DEF ThreadInv, InHand
  <1>3. \A u \in Threads : ~HasWord(u, s)
    <2> SUFFICES ASSUME NEW u \in Threads, HasWord(u, s)  PROVE FALSE
      OBVIOUS
    <2>1. ThreadInv(u)
      BY DEF OwnInv
    <2>2. thin[u] # s
      BY <1>1, <1>2, <2>1 DEF ThreadInv, InHand
    <2>3. depth[u] > 0 /\ map[obj[u]] = s
      BY <1>2, <2>2 DEF HasWord
    <2>4. obj[u] = o
      BY <1>2, <2>3, HasItsScope, ScopeAssumption DEF OwnInv
    <2> QED  BY <1>1, <1>2, <2>3, <2>4
  <1>4. owner[s] = NoThread
    BY <1>2, <1>3 DEF OwnInv, ThreadInv, Types
  <1> QED  BY <1>2, <1>3, <1>4

\* Nobody else has locked the object that gets it.
LEMMA MutateKeepsOwnInv ==
  ASSUME OwnInv, NEW t \in Threads, GetMutableScope(t)
  PROVE  OwnInv'
PROOF
  <1> DEFINE o == obj[t]
             s == OwnScope[o]
  <1>1. /\ ThreadInv(t) /\ Types /\ t # NoThread
        /\ pc[t] = "inside" /\ map[o] = Shared
        /\ pc' = [pc EXCEPT ![t] = "mutated"]
        /\ owner' = [owner EXCEPT ![s] = t]
        /\ count' = [count EXCEPT ![s] = 1]
        /\ map' = [map EXCEPT ![o] = s]
        /\ UNCHANGED <<thin, obj, depth, next>>
    BY ACvAssumption DEF OwnInv, GetMutableScope, Continue, At, GoTo, SetWord
  <1>2. /\ o \in Objects /\ s \in ThinLocks /\ s # Shared
        /\ depth[t] > 0 /\ owner[Shared] = t /\ count[Shared] = depth[t]
    BY <1>1, HasItsScope, ScopeAssumption
    DEF ThreadInv, InHand, Depths, Counts, Counted
  <1>3. \A u \in Threads : ~HasWord(u, s)
    BY NewScopeIsFree
  <1>4. owner[s] = NoThread
    BY NewScopeIsFree
  <1>5. \A u \in Threads \ {t} : depth[u] > 0 => obj[u] # o /\ map'[obj[u]] = map[obj[u]]
    BY <1>1, <1>2, HasItsScope DEF Types
  <1>6. Types'
    BY <1>1, <1>2 DEF Types, Pcs, ScopePcs
  <1>7. ASSUME NEW u \in Threads \ {t}  PROVE ThreadInv(u)'
    <2>1. /\ ThreadInv(u)
          /\ pc'[u] = pc[u] /\ thin'[u] = thin[u]
          /\ obj'[u] = obj[u] /\ depth'[u] = depth[u] /\ next'[u] = next[u]
      BY <1>1 DEF OwnInv, Types
    <2>2. InHand(u)' /\ Depths(u)'
      BY <1>1, <1>2, <2>1 DEF ThreadInv, InHand, Depths, Types
    <2>3. Scopes(u)'
      BY <1>1, <1>5, <2>1 DEF ThreadInv, Scopes, Depths
    <2>4. \A p \in ThinLocks : HasWord(u, p)' <=> HasWord(u, p)
      BY <1>5, <2>1 DEF HasWord
    <2>5. \A p \in ThinLocks : owner'[p] = u <=> HasWord(u, p)'
      BY <1>1, <1>3, <1>4, <2>1, <2>4, ACvAssumption DEF ThreadInv, Types
    <2>6. Counts(u)'
      <3>1. \A p \in ThinLocks : HasWord(u, p) => count'[p] = count[p]
        BY <1>1, <1>3 DEF Types
      <3>2. pc[u] \in Bare \cup Counted => count'[thin[u]] = count[thin[u]]
        BY <2>1, <3>1 DEF ThreadInv, InHand, HasWord
      <3>3. pc[u] = "mutated" => count'[Shared] = count[Shared]
        BY <3>1, ScopeAssumption DEF HasWord
      <3>4. depth[u] > 0 => count'[map[obj[u]]] = count[map[obj[u]]]
        BY <3>1, HasItsScope DEF HasWord
      <3> QED  BY <1>5, <2>1, <3>2, <3>3, <3>4 DEF ThreadInv, Counts
    <2> QED  BY <2>2, <2>3, <2>5, <2>6 DEF ThreadInv
  <1>8. ThreadInv(t)'
    <2>1. pc'[t] = "mutated" /\ map'[o] = s /\ owner'[s] = t /\ count'[Shared] = count[Shared]
      BY <1>1, <1>2, ScopeAssumption DEF Types
    <2>2. InHand(t)' /\ Depths(t)' /\ Scopes(t)' /\ Counts(t)'
      BY <1>1, <1>2, <2>1
      DEF Types, ThreadInv, InHand, Depths, Scopes, Counts, Wanting, EnqueuePcs, Bare, Counted, Past
    <2>3. \A p \in ThinLocks : owner'[p] = t <=> HasWord(t, p)'
      BY <1>1, <1>2, <2>1 DEF Types, ThreadInv, HasWord, Bare, Counted
    <2> QED  BY <2>2, <2>3 DEF ThreadInv
  <1>9. /\ \A q \in Objects : map'[q] \in {Shared, OwnScope[q]}
        /\ \A p \in ThinLocks : owner'[p] = NoThread => count'[p] = 0
    BY <1>1, <1>2 DEF OwnInv, Types
  <1> QED  BY <1>6, <1>7, <1>8, <1>9 DEF OwnInv

LEMMA InitOwnInv == ScopeInit => OwnInv
PROOF
  <1> SUFFICES ASSUME ScopeInit  PROVE OwnInv
    OBVIOUS
  <1>1. Types
    BY ScopeAssumption, ThinAssumption DEF ScopeInit, ThinInit, Types, Pcs, ScopePcs
  <1>2. ASSUME NEW t \in Threads  PROVE ThreadInv(t)
    BY ScopeAssumption, ThinAssumption, ACvAssumption
    DEF ScopeInit, ThinInit, ThreadInv, InHand, Depths, Scopes, Counts, HasWord,
        Wanting, EnqueuePcs, Bare, Counted, Past
  <1> QED  BY <1>1, <1>2 DEF ScopeInit, OwnInv

\* The program that runs is one of the programs.
ProgramKnown == program \in Programs

LEMMA SpecProgramKnown == ScopeSpec => []ProgramKnown
PROOF
  <1>1. ScopeInit => ProgramKnown
    BY DEF ScopeInit, ProgramKnown
  <1>2. ProgramKnown /\ [ScopeNext]_vars => ProgramKnown'
    BY DEF ProgramKnown, ScopeNext, ScopeBegins, ScopeWrites, ScopeGoesOn, vars, progVars
  <1> QED  BY <1>1, <1>2, PTL DEF ScopeSpec

LEMMA NextOwnInv == ProgramKnown /\ OwnInv /\ [ScopeNext]_vars => OwnInv'
PROOF
  <1> SUFFICES ASSUME ProgramKnown, OwnInv, [ScopeNext]_vars  PROVE OwnInv'
    OBVIOUS
  <1>1. CASE UNCHANGED vars
    BY <1>1 DEF vars, clientVars, thinVars, wordVars, scopeVars, OwnInv, Types, ThreadInv,
                InHand, Depths, Scopes, Counts, HasWord
  <1>2. ASSUME NEW t \in Threads, ScopeBegins(t)  PROVE OwnInv'
    <2>1. program.objects \subseteq Objects
      BY ScopeAssumption DEF ProgramKnown
    <2> QED  BY <1>2, <2>1, HandStepKeepsOwnInv DEF ScopeBegins
  <1>3. ASSUME NEW t \in Threads, ScopeWrites(t)  PROVE OwnInv'
    BY <1>3, HandStepKeepsOwnInv, MutateKeepsOwnInv DEF ScopeWrites
  <1>4. ASSUME NEW t \in Threads, ScopeGoesOn(t)  PROVE OwnInv'
    <2>1. CASE SlotFast(t)
      BY <2>1, TakeStep DEF SlotFast, Continue, At, GoTo, SetWord
    <2>2. CASE ThinGoesOn(t) /\ UNCHANGED scopeVars
      BY <2>2, ThinStepKeepsOwnInv
    <2>3. CASE ReenterScope(t) \/ ScopeLocked(t) \/ UnlockScope(t) \/ TransferScopeLock(t)
      BY <2>3, CountStepKeepsOwnInv
    <2> QED  BY <1>4, <2>1, <2>2, <2>3, HandStepKeepsOwnInv DEF ScopeGoesOn
  <1> QED  BY <1>1, <1>2, <1>3, <1>4 DEF ScopeNext

\* Words are owned, and scopes count, as the threads' places in js_LockObj,
\* js_UnlockObj and js_TransferScopeLock say.
THEOREM SpecOwnInv == ScopeSpec => []OwnInv
PROOF
  BY InitOwnInv, NextOwnInv, SpecProgramKnown, PTL DEF ScopeSpec

\* Whoever has locked an object has it alone, however often its scope changed
\* on the way, and owns the scope the object has now, as often as it locked it.
THEOREM SpecObjectsAreLocked == ScopeSpec => []ObjectsAreLocked
PROOF
  <1>1. OwnInv => ObjectsAreLocked
    <2> SUFFICES ASSUME OwnInv, NEW t \in Threads, NEW o \in Objects, InObject(t, o)
                 PROVE  /\ \A u \in Threads \ {t} : ~InObject(u, o)
                        /\ owner[map[o]] = t /\ count[map[o]] = depth[t]
      BY DEF ObjectsAreLocked
    <2>1. ASSUME NEW u \in Threads, InObject(u, o)
          PROVE  owner[map[o]] = u /\ count[map[o]] = depth[u]
      <3>1. ThreadInv(u) /\ Types
        BY DEF OwnInv
      <3> QED  BY <2>1, <3>1, HasItsScope
               DEF InObject, StillItsScope, Types, ThreadInv, InHand, Depths, Counts, HasWord,
                   Bare, Counted, Wanting, EnqueuePcs
    <2> QED  BY <2>1
  <1> QED  BY <1>1, SpecOwnInv, PTL

-----------------------------------------------------------------------------
(* Wait bits, fat locks and the global lock.                               *)

\* Where a thread has the global lock, ...
Global == {"enq", "enqUnlock", "enqGot", "empty", "emptying", "emptyUnlock",
           "release", "resume", "resLock", "resNotify", "resUnlock", "deqUnlock"}

\* ... and, of those, where it is inside a fat lock or about to enter it.
InFat == {"emptying", "emptyUnlock", "resLock", "resNotify", "resUnlock"}

FatTypes == /\ waitBit \in [ThinLocks -> BOOLEAN]
            /\ fat \in [ThinLocks -> FatLocks \cup {NoFat}]
            /\ freeFats \in Seq(FatLocks)
            /\ meWait \in [Threads -> BOOLEAN]
            /\ fl \in [Threads -> FatLocks \cup {NoFat}]
            /\ holder \in [Locks -> Threads \cup {NoThread}]

FatThreadInv(t) ==
  /\ pc[t] = "enqueue" => meWait[t] = FALSE
  /\ pc[t] \in Global => holder[GlobalLock] = t
  /\ pc[t] \in InFat => fl[t] \in FatLocks
  /\ pc[t] \in {"dequeue", "release"} => waitBit[thin[t]] = TRUE
  /\ pc[t] \in {"emptying", "resume"} => fat[thin[t]] # NoFat
  /\ pc[t] \in {"emptyUnlock", "enq"} /\ meWait[t] = TRUE => fat[thin[t]] # NoFat

\* A wait bit without a fat lock is one that js_Enqueue is about to deal with.
BitInv(p) ==
  waitBit[p] = TRUE =>
    /\ owner[p] # NoThread
    /\ \/ fat[p] # NoFat
       \/ \E t \in Threads : pc[t] \in {"emptyUnlock", "enq"} /\ thin[t] = p

FatInv == /\ FatTypes
          /\ \A t \in Threads : FatThreadInv(t)
          /\ \A p \in ThinLocks : BitInv(p)

\* The other threads keep their places, locks and what they have read, ...
OthersRemain(t) == \A u \in Threads \ {t} :
  /\ pc'[u] = pc[u] /\ thin'[u] = thin[u]
  /\ meWait'[u] = meWait[u] /\ fl'[u] = fl[u]

\* ... and a step moves at most one lock, from nobody to t or back.
LockMoves(t) ==
  \/ holder' = holder
  \/ \E l : holder[l] = NoThread /\ holder' = [holder EXCEPT ![l] = t]
  \/ \E l : holder[l] = t /\ holder' = [holder EXCEPT ![l] = NoThread]

\* Only the thread in emptyFatlock takes a fat lock away, and only the owner of
\* a word clears its wait bit.
FatsStay(t) == \A p \in ThinLocks :
  fat[p] # NoFat => fat'[p] # NoFat \/ pc[t] = "emptying"

BitsStay(t) == \A u \in Threads \ {t} : \A p \in ThinLocks :
  owner[p] = u /\ waitBit[p] = TRUE => waitBit'[p] = TRUE

LEMMA LockMovesKeepHolders ==
  ASSUME FatTypes, NEW t \in Threads, LockMoves(t)
  PROVE  /\ holder' \in [Locks -> Threads \cup {NoThread}]
         /\ \A u \in Threads \ {t} : holder[GlobalLock] = u => holder'[GlobalLock] = u
PROOF
  BY ACvAssumption, ThinAssumption DEF FatTypes, LockMoves

LEMMA OthersKeepFatInv ==
  ASSUME OwnInv, FatInv, NEW t \in Threads, OthersRemain(t), LockMoves(t), FatsStay(t),
         BitsStay(t), NEW u \in Threads \ {t}
  PROVE  FatThreadInv(u)'
PROOF
  <1>1. /\ FatThreadInv(u) /\ FatThreadInv(t) /\ ThreadInv(u)
        /\ pc'[u] = pc[u] /\ thin'[u] = thin[u]
        /\ meWait'[u] = meWait[u] /\ fl'[u] = fl[u]
    BY DEF OwnInv, FatInv, OthersRemain
  <1>2. pc[u] \in Global => holder'[GlobalLock] = u /\ pc[t] \notin Global
    BY <1>1, LockMovesKeepHolders DEF FatInv, FatThreadInv
  <1>3. pc[u] \in {"dequeue", "release"} => waitBit'[thin[u]] = TRUE
    BY <1>1 DEF FatThreadInv, ThreadInv, InHand, HasWord, BitsStay, Bare
  <1>4. pc[u] \in {"emptying", "resume", "emptyUnlock", "enq"} /\ fat[thin[u]] # NoFat
          => fat'[thin[u]] # NoFat
    <2>1. pc[u] \in {"emptying", "resume", "emptyUnlock", "enq"} => thin[u] \in ThinLocks
      BY <1>1 DEF ThreadInv, InHand, Wanting, Past, EnqueuePcs
    <2> QED  BY <1>2, <2>1 DEF FatsStay, Global
  <1> QED  BY <1>1, <1>2, <1>3, <1>4 DEF FatThreadInv

\* A step that leaves the words and the fat locks alone, outside the global lock
\* or on the way out of it.
LEMMA OutsideStep ==
  ASSUME OwnInv, FatInv, NEW t \in Threads, NEW to, pc' = [pc EXCEPT ![t] = to],
         pc[t] \notin {"emptyUnlock", "enq"},
         to \notin Global \cup {"dequeue"}, to = "enqueue" => meWait'[t] = FALSE,
         OthersRemain(t), LockMoves(t), UNCHANGED <<owner, waitBit, fat, freeFats>>,
         meWait' \in [Threads -> BOOLEAN], fl' \in [Threads -> FatLocks \cup {NoFat}]
  PROVE  FatInv'
PROOF
  <1>1. FatsStay(t) /\ BitsStay(t)
    BY DEF FatsStay, BitsStay
  <1>2. \A u \in Threads \ {t} : FatThreadInv(u)'
    BY <1>1, OthersKeepFatInv
  <1>3. pc'[t] = to
    BY DEF OwnInv, Types
  <1>4. FatThreadInv(t)'
    BY <1>3 DEF FatThreadInv, Global, InFat
  <1>5. FatTypes'
    BY LockMovesKeepHolders DEF FatInv, FatTypes
  <1>6. \A p \in ThinLocks : BitInv(p)'
    BY DEF FatInv, BitInv, OthersRemain
  <1> QED  BY <1>2, <1>4, <1>5, <1>6 DEF FatInv

\* Any other step, by what it does to t and the thin lock it is busy with.
LEMMA FatStep ==
  ASSUME OwnInv, FatInv, NEW t \in Threads, OthersRemain(t), LockMoves(t), FatsStay(t),
         BitsStay(t), FatTypes', FatThreadInv(t)', NEW q \in ThinLocks, BitInv(q)',
         pc[t] \in {"emptyUnlock", "enq"} => thin[t] = q,
         \A p \in ThinLocks \ {q} :
            waitBit'[p] = waitBit[p] /\ owner'[p] = owner[p] /\ fat'[p] = fat[p]
  PROVE  FatInv'
PROOF
  <1>1. \A u \in Threads : FatThreadInv(u)'
    BY OthersKeepFatInv
  <1>2. \A p \in ThinLocks \ {q} : BitInv(p)'
    BY DEF FatInv, BitInv, OthersRemain
  <1> QED  BY <1>1, <1>2 DEF FatInv

\* What moves a lock.
LEMMA MoveLock ==
  ASSUME NEW t \in Threads,
         \/ UNCHANGED acvVars
         \/ \E l : Take(t, l) \/ Release(t, l)
         \/ \E c : BeginWait(t, c) \/ Notify(t, c)
         \/ EndWait(t) \/ Regain(t)
  PROVE  LockMoves(t)
PROOF
  BY DEF LockMoves, acvVars, Take, Give, Release, BeginWait, Holds, Notify, EndWait, Regain

LEMMA HandStepKeepsFatInv ==
  ASSUME OwnInv, FatInv, NEW t \in Threads,
         \/ \E o \in Objects : LockObj(t, o) \/ GetSlot(t, o)
         \/ LockObjAgain(t) \/ ReadScope(t) \/ LockScope(t) \/ LockObjReturns(t)
         \/ LockObjRetries(t) \/ UnlockObj(t) \/ Unlocked(t)
         \/ SlotReturns(t) \/ SlotSlow(t)
         \/ ReenterScope(t) \/ ScopeLocked(t) \/ UnlockScope(t) \/ TransferScopeLock(t)
  PROVE  FatInv'
PROOF
  <1>1. UNCHANGED acvVars
    BY DEF LockObj, GetSlot, LockObjAgain, ReadScope, LockScope, LockObjReturns,
           LockObjRetries, UnlockObj, Unlocked, SlotReturns, SlotSlow, ReenterScope,
           ScopeLocked, UnlockScope, TransferScopeLock, Continue
  <1>2. PICK to \in {"lockObj", "slot", "lockScope", "lock", "inside", "unlockScope", "run",
                     "unlock", "check", "unlocked"} :
          pc' = [pc EXCEPT ![t] = to] /\ pc[t] \notin Global
    BY DEF LockObj, GetSlot, LockObjAgain, ReadScope, LockScope, LockObjReturns,
           LockObjRetries, UnlockObj, Unlocked, SlotReturns, SlotSlow, ReenterScope,
           ScopeLocked, UnlockScope, TransferScopeLock, Continue, At, GoTo, Global,
           OwnInv, Types
  <1>3. UNCHANGED <<owner, waitBit, fat, freeFats, meWait, fl>>
    BY DEF LockObj, GetSlot, LockObjAgain, ReadScope, LockScope, LockObjReturns,
           LockObjRetries, UnlockObj, Unlocked, SlotReturns, SlotSlow, ReenterScope,
           ScopeLocked, UnlockScope, TransferScopeLock, NoThinStep, thinVars, wordVars, fatVars
  <1>4. \A u \in Threads \ {t} : thin'[u] = thin[u]
    BY DEF LockObj, GetSlot, LockObjAgain, ReadScope, LockScope, LockObjReturns,
           LockObjRetries, UnlockObj, Unlocked, SlotReturns, SlotSlow, ReenterScope,
           ScopeLocked, UnlockScope, TransferScopeLock, NoThinStep, thinVars, scopeVars,
           ChooseLock, OwnInv, Types
  <1>5. OthersRemain(t)
    BY <1>2, <1>3, <1>4 DEF OthersRemain, OwnInv, Types
  <1> QED  BY <1>1, <1>2, <1>3, <1>5, MoveLock, OutsideStep DEF FatInv, FatTypes, Global

\* Steps of js_Lock and js_Unlock outside the global lock, or on the way out.
LEMMA OutsideThinStep ==
  ASSUME OwnInv, FatInv, NEW t \in Threads,
         \/ LockSlow(t) \/ EnqueueReturns(t) \/ EnqueueUnlocks(t) \/ SuspendThread(t)
         \/ SuspendLocks(t) \/ SuspendCounts(t) \/ SuspendWoken(t) \/ SuspendReturns(t)
         \/ DequeueReturns(t)
  PROVE  FatInv'
PROOF
  <1>1. LockMoves(t)
    BY MoveLock
    DEF LockSlow, EnqueueReturns, EnqueueUnlocks, SuspendThread, SuspendLocks, SuspendCounts,
        SuspendWoken, SuspendReturns, DequeueReturns, Continue, Lock, Unlock, Wait, WaitEnds
  <1>2. PICK to \in {"enqueue", "held", "suspend", "relock", "suspLock", "suspCount",
                     "suspUnlock", "suspWait", "unlocked"} :
          pc' = [pc EXCEPT ![t] = to] /\ pc[t] \notin {"emptyUnlock", "enq"}
    BY DEF LockSlow, EnqueueReturns, EnqueueUnlocks, SuspendThread, SuspendLocks, SuspendCounts,
           SuspendWoken, SuspendReturns, DequeueReturns, Continue, Lock, Unlock, Wait, WaitEnds,
           At, GoTo
  <1>3. UNCHANGED <<owner, waitBit, fat, freeFats, thin>>
    BY DEF LockSlow, EnqueueReturns, EnqueueUnlocks, SuspendThread, SuspendLocks, SuspendCounts,
           SuspendWoken, SuspendReturns, DequeueReturns, thinVars, wordVars, fatVars
  <1>4. /\ thin[t] \in ThinLocks
        /\ meWait \in [Threads -> BOOLEAN] /\ fl \in [Threads -> FatLocks \cup {NoFat}]
        /\ fat \in [ThinLocks -> FatLocks \cup {NoFat}]
    BY DEF LockSlow, EnqueueReturns, EnqueueUnlocks, SuspendThread, SuspendLocks, SuspendCounts,
           SuspendWoken, SuspendReturns, DequeueReturns, Continue, Lock, Unlock, Wait, WaitEnds,
           At, OwnInv, FatInv, FatTypes, ThreadInv, InHand, Wanting, EnqueuePcs, Bare, Past
  <1>5. /\ meWait' = meWait \/ meWait' = [meWait EXCEPT ![t] = FALSE]
        /\ fl' = fl \/ fl' = [fl EXCEPT ![t] = fat[thin[t]]]
    BY DEF LockSlow, EnqueueReturns, EnqueueUnlocks, SuspendThread, SuspendLocks, SuspendCounts,
           SuspendWoken, SuspendReturns, DequeueReturns, ReadFat, thinVars
  <1>6. OthersRemain(t)
    BY <1>2, <1>3, <1>4, <1>5 DEF OthersRemain, OwnInv, Types
  <1>7. /\ meWait' \in [Threads -> BOOLEAN]
        /\ fl' \in [Threads -> FatLocks \cup {NoFat}]
    BY <1>4, <1>5
  <1>8. to = "enqueue" => meWait'[t] = FALSE
    BY <1>2, <1>4
    DEF LockSlow, EnqueueReturns, EnqueueUnlocks, SuspendThread, SuspendLocks, SuspendCounts,
        SuspendWoken, SuspendReturns, DequeueReturns, Continue, Lock, Unlock, Wait, WaitEnds,
        GoTo, OwnInv, Types
  <1> QED  BY <1>1, <1>2, <1>3, <1>6, <1>7, <1>8, OutsideStep DEF Global

\* Words taken and given up outside the global lock.
LEMMA WordStepKeepsFatInv ==
  ASSUME OwnInv, FatInv, NEW t \in Threads,
         LockFast(t) \/ SlotFast(t) \/ UnlockFast(t) \/ GetMutableScope(t)
  PROVE  FatInv'
PROOF
  <1>1. PICK q \in ThinLocks : /\ owner[q] \in {t, NoThread}
                                /\ waitBit' = [waitBit EXCEPT ![q] = FALSE]
                                /\ \E w : owner' = [owner EXCEPT ![q] = w]
    <2>1. CASE GetMutableScope(t)
      BY <2>1, NewScopeIsFree DEF GetMutableScope, SetWord
    <2>2. CASE LockFast(t) \/ SlotFast(t)
      <3>1. pc[t] \in {"lock", "slot"} /\ SetWord(thin[t], t, FALSE)
        BY <2>2 DEF LockFast, SlotFast, Continue, At
      <3>2. thin[t] \in ThinLocks
        BY <3>1 DEF OwnInv, ThreadInv, InHand, Wanting
      <3> QED  BY <2>2, <3>1, <3>2 DEF LockFast, SlotFast, SwapSucceeds, SetWord
    <2>3. CASE UnlockFast(t)
      <3>1. pc[t] = "unlock" /\ SetWord(thin[t], NoThread, FALSE)
        BY <2>3 DEF UnlockFast, Continue, At
      <3>2. thin[t] \in ThinLocks /\ owner[thin[t]] = t
        BY <3>1 DEF OwnInv, ThreadInv, InHand, HasWord, Bare
      <3> QED  BY <3>1, <3>2 DEF SetWord
    <2> QED  BY <2>1, <2>2, <2>3
  <1>2. PICK to \in {"held", "slotHeld", "unlocked", "mutated"} :
          pc' = [pc EXCEPT ![t] = to] /\ pc[t] \notin Global
    BY DEF LockFast, SlotFast, UnlockFast, GetMutableScope, Continue, At, GoTo, Global
  <1>3. UNCHANGED <<acvVars, fat, freeFats, thin, meWait, fl>>
    BY DEF LockFast, SlotFast, UnlockFast, GetMutableScope, Continue, fatVars
  <1>4. OthersRemain(t) /\ LockMoves(t) /\ FatsStay(t)
    BY <1>2, <1>3, MoveLock DEF OthersRemain, FatsStay, OwnInv, Types
  <1>5. BitsStay(t)
    BY <1>1, ACvAssumption DEF BitsStay, FatInv, FatTypes
  <1>6. FatTypes'
    BY <1>1, <1>3, <1>4, LockMovesKeepHolders DEF FatInv, FatTypes
  <1>7. FatThreadInv(t)'
    BY <1>2 DEF FatThreadInv, Global, InFat, OwnInv, Types
  <1>8. BitInv(q)'
    <2>1. waitBit'[q] = FALSE
      BY <1>1 DEF FatInv, FatTypes
    <2> QED  BY <2>1 DEF BitInv
  <1>9. \A p \in ThinLocks \ {q} :
          waitBit'[p] = waitBit[p] /\ owner'[p] = owner[p] /\ fat'[p] = fat[p]
    <2>1. PICK w : owner' = [owner EXCEPT ![q] = w]
      BY <1>1
    <2> QED  BY <1>1, <1>3, <2>1 DEF FatInv, FatTypes, OwnInv, Types
  <1> QED  BY <1>1, <1>2, <1>4, <1>5, <1>6, <1>7, <1>8, <1>9, FatStep DEF Global

\* Steps up to and with the global lock, with the fat locks as they are.
LEMMA LockedStep ==
  ASSUME OwnInv, FatInv, NEW t \in Threads, NEW to, pc' = [pc EXCEPT ![t] = to],
         thin[t] \in ThinLocks, OthersRemain(t), LockMoves(t), UNCHANGED <<wordVars, fat, freeFats, thin>>,
         meWait' \in [Threads -> BOOLEAN], fl' \in [Threads -> FatLocks \cup {NoFat}],
         FatThreadInv(t)',
         pc[t] \in {"emptyUnlock", "enq"} => to \in {"emptyUnlock", "enq"}
  PROVE  FatInv'
PROOF
  <1>1. /\ owner' = owner /\ waitBit' = waitBit /\ fat' = fat /\ freeFats' = freeFats
        /\ thin' = thin /\ pc'[t] = to
    BY DEF wordVars, OwnInv, Types
  <1>2. FatsStay(t) /\ BitsStay(t) /\ FatTypes'
    BY <1>1, LockMovesKeepHolders DEF FatsStay, BitsStay, FatInv, FatTypes
  <1>3. BitInv(thin[t])'
    BY <1>1 DEF FatInv, BitInv, OthersRemain
  <1> QED  BY <1>1, <1>2, <1>3, FatStep

LEMMA LockedStepKeepsFatInv ==
  ASSUME OwnInv, FatInv, NEW t \in Threads,
         \/ UnlockSlow(t) \/ EnqueueLocks(t) \/ EnqueueRelocks(t) \/ NothingToEmpty(t)
         \/ EmptyLocks(t) \/ EmptyReturns(t) \/ DequeueLocks(t) \/ ResumeThread(t)
         \/ ResumeLocks(t) \/ ResumeNotifies(t) \/ ResumeReturns(t)
  PROVE  FatInv'
PROOF
  <1>1. LockMoves(t)
    BY MoveLock
    DEF UnlockSlow, EnqueueLocks, EnqueueRelocks, NothingToEmpty, EmptyLocks, EmptyReturns,
        DequeueLocks, ResumeThread, ResumeLocks, ResumeNotifies, ResumeReturns, Continue,
        Lock, Unlock
  <1>2. UNCHANGED <<wordVars, fat, freeFats, thin>>
    BY DEF UnlockSlow, EnqueueLocks, EnqueueRelocks, NothingToEmpty, EmptyLocks, EmptyReturns,
        DequeueLocks, ResumeThread, ResumeLocks, ResumeNotifies, ResumeReturns, thinVars, fatVars
  <1>3. PICK to \in {"dequeue", "enq", "empty", "emptying", "release", "resLock", "resNotify",
                     "resUnlock", "deqUnlock"} :
          pc' = [pc EXCEPT ![t] = to] /\ pc[t] # "enq" /\ (pc[t] = "emptyUnlock" => to = "enq")
    BY DEF UnlockSlow, EnqueueLocks, EnqueueRelocks, NothingToEmpty, EmptyLocks, EmptyReturns,
        DequeueLocks, ResumeThread, ResumeLocks, ResumeNotifies, ResumeReturns, Continue, Lock,
        Unlock, At, GoTo
  <1>4. /\ thin[t] \in ThinLocks
        /\ meWait \in [Threads -> BOOLEAN] /\ fl \in [Threads -> FatLocks \cup {NoFat}]
        /\ fat \in [ThinLocks -> FatLocks \cup {NoFat}]
        /\ FatThreadInv(t) /\ FatTypes
    BY DEF UnlockSlow, EnqueueLocks, EnqueueRelocks, NothingToEmpty, EmptyLocks, EmptyReturns,
        DequeueLocks, ResumeThread, ResumeLocks, ResumeNotifies, ResumeReturns, Continue, Lock,
        Unlock, At, OwnInv, FatInv, FatTypes, ThreadInv, InHand, Wanting, EnqueuePcs, Bare, Past
  <1>5. /\ meWait' = meWait \/ meWait' = [meWait EXCEPT ![t] = FALSE]
        /\ fl' = fl \/ fl' = [fl EXCEPT ![t] = fat[thin[t]]]
    BY DEF UnlockSlow, EnqueueLocks, EnqueueRelocks, NothingToEmpty, EmptyLocks, EmptyReturns,
        DequeueLocks, ResumeThread, ResumeLocks, ResumeNotifies, ResumeReturns, ReadFat, thinVars
  <1>6. OthersRemain(t)
    BY <1>2, <1>3, <1>4, <1>5 DEF OthersRemain, OwnInv, Types
  <1>7. /\ meWait' \in [Threads -> BOOLEAN]
        /\ fl' \in [Threads -> FatLocks \cup {NoFat}]
    BY <1>4, <1>5
  <1>8. FatThreadInv(t)'
    <2>1. pc \in [Threads -> Pcs] /\ thin' = thin /\ fat' = fat /\ waitBit' = waitBit
      BY <1>2 DEF OwnInv, Types, wordVars
    <2>2. CASE UnlockSlow(t)
      BY <1>4, <2>1, <2>2 DEF UnlockSlow, Continue, GoTo, Contended, FatTypes, FatThreadInv,
                              Global, InFat
    <2>3. CASE EnqueueLocks(t) \/ EnqueueRelocks(t) \/ DequeueLocks(t)
      BY <1>4, <2>1, <2>3, ThinAssumption
      DEF EnqueueLocks, EnqueueRelocks, DequeueLocks, Lock, Take, Give, GoTo, At, FatTypes,
          FatThreadInv, Global, InFat, thinVars
    <2>4. CASE NothingToEmpty(t)
      BY <1>4, <2>1, <2>4 DEF NothingToEmpty, Continue, GoTo, At, acvVars, FatTypes,
                              FatThreadInv, Global, InFat
    <2>5. CASE EmptyLocks(t)
      BY <1>4, <2>1, <2>5, ACvAssumption DEF EmptyLocks, ReadFat, Lock, Take, Give, GoTo, At, FatTypes,
                              FatThreadInv, Global, InFat
    <2>6. CASE EmptyReturns(t) \/ ResumeReturns(t)
      BY <1>4, <2>1, <2>6, ThinAssumption
      DEF EmptyReturns, ResumeReturns, Unlock, Release, GoTo, At, FatTypes, thinVars,
          FatThreadInv, Global, InFat
    <2>7. CASE ResumeThread(t)
      BY <1>4, <2>1, <2>7 DEF ResumeThread, ReadFat, Continue, GoTo, At, acvVars, FatTypes,
                              FatThreadInv, Global, InFat
    <2>8. CASE ResumeLocks(t)
      BY <1>4, <2>1, <2>8, ACvAssumption DEF ResumeLocks, Lock, Take, Give, GoTo, At, FatTypes,
                              FatThreadInv, Global, InFat, thinVars
    <2>9. CASE ResumeNotifies(t)
      BY <1>4, <2>1, <2>9 DEF ResumeNotifies, Notify, GoTo, At, FatTypes,
                              FatThreadInv, Global, InFat
    <2> QED  BY <2>2, <2>3, <2>4, <2>5, <2>6, <2>7, <2>8, <2>9
  <1> QED  BY <1>1, <1>2, <1>3, <1>4, <1>6, <1>7, <1>8, LockedStep

\* With the global lock: the waiter's mark, ...
LEMMA SetWaitKeepsFatInv ==
  ASSUME OwnInv, FatInv, NEW t \in Threads, SetWait(t)
  PROVE  FatInv'
PROOF
  <1>1. PICK p \in ThinLocks : p = thin[t] /\ pc[t] = "enq" /\ owner[p] # NoThread
    BY DEF SetWait, Continue, At, OwnInv, ThreadInv, InHand, Wanting, EnqueuePcs
  <1>2. /\ pc' = [pc EXCEPT ![t] = "enqUnlock"]
        /\ waitBit' = [waitBit EXCEPT ![p] = TRUE]
        /\ UNCHANGED <<acvVars, owner, thin, meWait, fl>>
    BY <1>1 DEF SetWait, Continue, GoTo
  <1>3. /\ fat' \in [ThinLocks -> FatLocks \cup {NoFat}]
        /\ fat'[p] # NoFat /\ \A r \in ThinLocks \ {p} : fat'[r] = fat[r]
        /\ freeFats' \in Seq(FatLocks)
    <2>1. CASE fat[p] = NoFat
      <3>1. /\ Head(freeFats) \in FatLocks /\ Tail(freeFats) \in Seq(FatLocks)
        BY <1>1, <2>1 DEF SetWait, FatInv, FatTypes
      <3>2. fat' = [fat EXCEPT ![p] = Head(freeFats)] /\ freeFats' = Tail(freeFats)
        BY <1>1, <2>1 DEF SetWait
      <3> QED  BY <3>1, <3>2, ThinAssumption DEF FatInv, FatTypes
    <2>2. CASE fat[p] # NoFat
      BY <1>1, <2>2 DEF SetWait, fatVars, FatInv, FatTypes
    <2> QED  BY <2>1, <2>2
  <1>4. OthersRemain(t) /\ LockMoves(t) /\ FatsStay(t)
    BY <1>2, <1>3, MoveLock DEF OthersRemain, FatsStay, OwnInv, Types
  <1>5. BitsStay(t) /\ waitBit' \in [ThinLocks -> BOOLEAN]
    BY <1>2 DEF BitsStay, FatInv, FatTypes
  <1>6. FatTypes'
    BY <1>2, <1>3, <1>5, <1>4, LockMovesKeepHolders DEF FatInv, FatTypes
  <1>7. FatThreadInv(t)'
    BY <1>1, <1>2 DEF FatThreadInv, Global, InFat, FatInv, OwnInv, Types, acvVars
  <1>8. BitInv(p)'
    BY <1>1, <1>2, <1>3 DEF BitInv
  <1>9. \A r \in ThinLocks \ {p} :
          waitBit'[r] = waitBit[r] /\ owner'[r] = owner[r] /\ fat'[r] = fat[r]
    BY <1>2, <1>3 DEF FatInv, FatTypes
  <1> QED  BY <1>1, <1>4, <1>5, <1>6, <1>7, <1>8, <1>9, FatStep

\* ... the word, taken or given up, ...
LEMMA LockedWordStepKeepsFatInv ==
  ASSUME OwnInv, FatInv, NEW t \in Threads, EnqueueTakes(t) \/ Release0(t)
  PROVE  FatInv'
PROOF
  <1>1. PICK p \in ThinLocks : p = thin[t]
    BY DEF EnqueueTakes, Release0, Continue, At, OwnInv, ThreadInv, InHand, Wanting,
           EnqueuePcs, Bare
  <1>2. /\ UNCHANGED <<acvVars, fat, freeFats, thin, meWait, fl>>
        /\ FatThreadInv(t) /\ BitInv(p) /\ t # NoThread
    BY ACvAssumption DEF EnqueueTakes, Release0, Continue, fatVars, FatInv
  <1>3. PICK to \in {"enqGot", "resume"} :
          /\ pc' = [pc EXCEPT ![t] = to]
          /\ owner[p] \in {t, NoThread}
          /\ to = "resume" => fat[p] # NoFat
          /\ owner' = [owner EXCEPT ![p] = IF to = "resume" THEN NoThread ELSE t]
          /\ waitBit' = [waitBit EXCEPT ![p] = IF to = "resume" THEN FALSE ELSE meWait[t]]
          /\ to = "enqGot" => pc[t] = "enq"
          /\ pc[t] \in Global
    <2>1. CASE EnqueueTakes(t)
      BY <1>1, <2>1 DEF EnqueueTakes, Continue, At, GoTo, SetWord, Global
    <2>2. CASE Release0(t)
      <3>1. pc[t] = "release" /\ waitBit[p] = TRUE /\ owner[p] = t
        BY <1>1, <1>2, <2>2 DEF Release0, Continue, At, FatThreadInv, OwnInv, ThreadInv,
                                HasWord, Bare
      <3>2. fat[p] # NoFat
        <4>1. ASSUME NEW u \in Threads, pc[u] \in {"emptyUnlock", "enq"}  PROVE FALSE
          BY <3>1, <4>1 DEF FatInv, FatThreadInv, Global
        <4> QED  BY <1>2, <3>1, <4>1 DEF BitInv
      <3> QED  BY <1>1, <2>2, <3>1, <3>2 DEF Release0, Continue, GoTo, SetWord, Global
    <2> QED  BY <2>1, <2>2
  <1>4. OthersRemain(t) /\ LockMoves(t) /\ FatsStay(t)
    BY <1>2, <1>3, MoveLock DEF OthersRemain, FatsStay, OwnInv, Types
  <1>5. BitsStay(t) /\ waitBit' \in [ThinLocks -> BOOLEAN]
    BY <1>3, ACvAssumption DEF BitsStay, FatInv, FatTypes
  <1>6. FatTypes'
    BY <1>2, <1>5, <1>4, LockMovesKeepHolders DEF FatInv, FatTypes
  <1>7. FatThreadInv(t)'
    BY <1>1, <1>2, <1>3 DEF FatThreadInv, Global, InFat, OwnInv, Types, acvVars
  <1>8. BitInv(p)'
    <2>1. waitBit'[p] = TRUE => to = "enqGot" /\ meWait[t] = TRUE
      BY <1>3 DEF FatInv, FatTypes
    <2>2. to = "enqGot" /\ meWait[t] = TRUE => fat[p] # NoFat /\ owner'[p] = t
      BY <1>1, <1>2, <1>3 DEF FatThreadInv, OwnInv, Types
    <2> QED  BY <1>2, <2>1, <2>2 DEF BitInv
  <1>9. \A r \in ThinLocks \ {p} :
          waitBit'[r] = waitBit[r] /\ owner'[r] = owner[r] /\ fat'[r] = fat[r]
    BY <1>2, <1>3 DEF FatInv, FatTypes, OwnInv, Types
  <1> QED  BY <1>1, <1>4, <1>5, <1>6, <1>7, <1>8, <1>9, FatStep

\* ... and the fat lock, put back when nobody is suspended.
LEMMA EmptyFatlockKeepsFatInv ==
  ASSUME OwnInv, FatInv, NEW t \in Threads, EmptyFatlock(t)
  PROVE  FatInv'
PROOF
  <1>1. PICK p \in ThinLocks : p = thin[t] /\ pc[t] = "emptying"
    BY DEF EmptyFatlock, Continue, At, OwnInv, ThreadInv, InHand, Wanting, EnqueuePcs
  <1>2. /\ pc' = [pc EXCEPT ![t] = "emptyUnlock"]
        /\ UNCHANGED <<acvVars, owner, waitBit, thin, fl>>
        /\ FatThreadInv(t) /\ BitInv(p) /\ fl[t] \in FatLocks
    BY <1>1 DEF EmptyFatlock, Continue, GoTo, wordVars, FatInv, FatThreadInv, InFat
  <1>3. /\ meWait' = [meWait EXCEPT ![t] = OthersWait(fl[t])]
        /\ \A r \in ThinLocks \ {p} : fat'[r] = fat[r]
        /\ OthersWait(fl[t]) => fat'[p] # NoFat
        /\ fat' \in [ThinLocks -> FatLocks \cup {NoFat}]
        /\ freeFats' \in Seq(FatLocks)
    <2>1. CASE NobodySuspended(fl[t])
      <3>1. <<fl[t]>> \o freeFats \in Seq(FatLocks)
        BY <1>2 DEF FatInv, FatTypes
      <3> QED  BY <1>1, <2>1, <3>1 DEF EmptyFatlock, OthersWait, FatInv, FatTypes
    <2>2. CASE ~NobodySuspended(fl[t])
      BY <1>1, <1>2, <2>2 DEF EmptyFatlock, OthersWait, fatVars, FatInv, FatTypes, FatThreadInv
    <2> QED  BY <2>1, <2>2
  <1>4. OthersRemain(t) /\ LockMoves(t) /\ FatsStay(t) /\ BitsStay(t)
    BY <1>1, <1>2, <1>3, MoveLock DEF OthersRemain, FatsStay, BitsStay, FatInv, FatTypes, OwnInv, Types
  <1>5. meWait' \in [Threads -> BOOLEAN] /\ meWait'[t] = OthersWait(fl[t])
    BY <1>3 DEF FatInv, FatTypes, OthersWait, NobodySuspended
  <1>6. FatTypes'
    BY <1>2, <1>3, <1>4, <1>5, LockMovesKeepHolders DEF FatInv, FatTypes
  <1>7. FatThreadInv(t)'
    BY <1>1, <1>2, <1>3, <1>5 DEF FatThreadInv, Global, InFat, OwnInv, Types, acvVars
  <1>8. BitInv(p)'
    BY <1>1, <1>2 DEF BitInv, OwnInv, Types
  <1> QED  BY <1>1, <1>2, <1>3, <1>4, <1>6, <1>7, <1>8, FatStep

LEMMA InitFatInv == ScopeInit => FatInv
PROOF
  BY ThinAssumption
  DEF ScopeInit, ThinInit, ACvInit, FatInv, FatTypes, FatThreadInv, BitInv, Global, InFat

LEMMA NextFatInv == ProgramKnown /\ OwnInv /\ FatInv /\ [ScopeNext]_vars => FatInv'
PROOF
  <1> SUFFICES ASSUME ProgramKnown, OwnInv, FatInv, [ScopeNext]_vars  PROVE FatInv'
    OBVIOUS
  <1>1. CASE UNCHANGED vars
    BY <1>1 DEF vars, clientVars, acvVars, thinVars, wordVars, fatVars, FatInv, FatTypes,
                FatThreadInv, BitInv
  <1>2. ASSUME NEW t \in Threads, ScopeBegins(t)  PROVE FatInv'
    <2>1. program.objects \subseteq Objects
      BY ScopeAssumption DEF ProgramKnown
    <2> QED  BY <1>2, <2>1, HandStepKeepsFatInv DEF ScopeBegins
  <1>3. ASSUME NEW t \in Threads, ScopeWrites(t)  PROVE FatInv'
    BY <1>3, HandStepKeepsFatInv, WordStepKeepsFatInv DEF ScopeWrites
  <1>4. ASSUME NEW t \in Threads, ScopeGoesOn(t)  PROVE FatInv'
    <2>1. CASE ThinGoesOn(t)
      <3>1. CASE Relock(t) /\ UNCHANGED thinVars
        <4>1. LockMoves(t) /\ UNCHANGED <<pc, waitBit, owner, fat, freeFats, thin, meWait, fl>>
          BY <3>1, MoveLock DEF Relock, thinVars, wordVars, fatVars
        <4>2. holder' \in [Locks -> Threads \cup {NoThread}]
          BY <4>1, LockMovesKeepHolders DEF FatInv
        <4>3. \A u \in Threads : holder[GlobalLock] = u => holder'[GlobalLock] = u
          BY <3>1, ACvAssumption, ThinAssumption
          DEF Relock, Regain, Give, FatInv, FatTypes
        <4> QED  BY <4>1, <4>2, <4>3 DEF FatInv, FatTypes, FatThreadInv, BitInv
      <3> QED  BY <2>1, <3>1, OutsideThinStep, WordStepKeepsFatInv, LockedStepKeepsFatInv,
                  SetWaitKeepsFatInv, LockedWordStepKeepsFatInv, EmptyFatlockKeepsFatInv
               DEF ThinGoesOn
    <2> QED  BY <1>4, <2>1, HandStepKeepsFatInv, WordStepKeepsFatInv DEF ScopeGoesOn
  <1> QED  BY <1>1, <1>2, <1>3, <1>4 DEF ScopeNext

\* The global lock is that of the thread in js_Enqueue or js_Dequeue, and a set
\* wait bit has a fat lock, or an enqueuer that will see to it.
THEOREM SpecFatInv == ScopeSpec => []FatInv
PROOF
  BY InitFatInv, NextFatInv, SpecProgramKnown, SpecOwnInv, PTL DEF ScopeSpec

\* js_Dequeue finds the fat lock that its asserts require, whatever the others
\* have allocated, emptied and put back since the wait bit was set.
THEOREM SpecDequeuersHaveFatLock == ScopeSpec => []DequeuersHaveFatLock
PROOF
  <1>1. OwnInv /\ FatInv => DequeuersHaveFatLock
    <2> SUFFICES ASSUME OwnInv, FatInv, NEW t \in Threads, pc[t] \in {"release", "resume"}
                 PROVE  fat[thin[t]] # NoFat
      BY DEF DequeuersHaveFatLock
    <2>1. CASE pc[t] = "release"
      <3>1. waitBit[thin[t]] = TRUE /\ thin[t] \in ThinLocks /\ holder[GlobalLock] = t
        BY <2>1 DEF OwnInv, ThreadInv, InHand, Bare, FatInv, FatThreadInv, Global
      <3>2. ASSUME NEW u \in Threads, pc[u] \in {"emptyUnlock", "enq"}  PROVE FALSE
        BY <2>1, <3>1, <3>2 DEF FatInv, FatThreadInv, Global
      <3> QED  BY <3>1, <3>2 DEF FatInv, BitInv
    <2>2. CASE pc[t] = "resume"
      BY <2>2 DEF FatInv, FatThreadInv
    <2> QED  BY <2>1, <2>2
  <1> QED  BY <1>1, SpecOwnInv, SpecFatInv, PTL

-----------------------------------------------------------------------------
(* Types and bounds.                                                       *)

\* Where a thread is inside the fat lock it read in js_SuspendThread, or about to
\* enter it.
SuspendPcs == {"suspLock", "suspCount", "suspWait", "suspUnlock"}

\* Where a thread counts its object's scope once more than depth says, or will.
Deeper == {"lockObj", "lockScope"} \cup Counted

RestThreadInv(t) == /\ pc[t] \in SuspendPcs => fl[t] \in FatLocks
                    /\ depth[t] <= MaxDepth
                    /\ pc[t] \in Deeper => depth[t] < MaxDepth

CvTypes == /\ on \in [Threads -> CVars \cup {NoCvar}]
           /\ phase \in [Threads -> Phases]
           /\ interrupted \in [Threads -> BOOLEAN]

RestInv == /\ CvTypes
           /\ susp \in [FatLocks -> Int]
           /\ left \in [Threads -> Nat]
           /\ \A t \in Threads : RestThreadInv(t)

\* js_NewScope has locked the scope once.
NewInv == \A t \in Threads : pc[t] = "mutated" => count[map[obj[t]]] = 1

LEMMA CallsKeepCvTypes ==
  ASSUME CvTypes, NEW t \in Threads, NEW c \in CVars, NEW l, NEW from, NEW to,
         \/ Continue(t, from, to) \/ Lock(t, l, from, to) \/ Unlock(t, l, from, to)
         \/ Wait(t, c, from, to) \/ WaitEnds(t, from, to) \/ Notify(t, c) \/ Relock(t)
  PROVE  CvTypes'
PROOF
  <1> USE DEF CvTypes, Phases
  <1>1. CASE Continue(t, from, to) \/ Unlock(t, l, from, to)
    BY <1>1 DEF Continue, acvVars, Unlock, Release
  <1>2. CASE Lock(t, l, from, to) \/ Relock(t)
    <2>1. /\ phase' = [phase EXCEPT ![t] = IF @ = "woken" THEN "back" ELSE @]
          /\ UNCHANGED <<on, interrupted>>
      BY <1>2 DEF Lock, Take, Relock, Regain, Give
    <2> QED  BY <2>1
  <1>3. CASE Wait(t, c, from, to) \/ WaitEnds(t, from, to)
    BY <1>3 DEF Wait, BeginWait, WaitEnds, EndWait
  <1>4. CASE Notify(t, c)
    BY <1>4 DEF Notify, Wake
  <1> QED  BY <1>1, <1>2, <1>3, <1>4

\* The others keep what the invariant says of them.
LEMMA OwnStepKeepsRestInv ==
  ASSUME RestInv, NEW t \in Threads, CvTypes', susp' \in [FatLocks -> Int],
         left' \in [Threads -> Nat], RestThreadInv(t)',
         \A u \in Threads \ {t} : pc'[u] = pc[u] /\ fl'[u] = fl[u] /\ depth'[u] = depth[u]
  PROVE  RestInv'
BY DEF RestInv, RestThreadInv

LEMMA ThinStepKeepsRestInv ==
  ASSUME OwnInv, FatInv, RestInv, NEW t \in Threads, ThinGoesOn(t),
         UNCHANGED <<scopeVars, progVars>>
  PROVE  RestInv'
PROOF
  <1>1. depth' = depth /\ left' = left
    BY DEF scopeVars, progVars
  <1>2. /\ RestThreadInv(t) /\ CvTypes /\ susp \in [FatLocks -> Int]
        /\ left \in [Threads -> Nat] /\ pc \in [Threads -> Pcs]
        /\ fl \in [Threads -> FatLocks \cup {NoFat}]
    BY DEF RestInv, OwnInv, Types, FatInv, FatTypes
  <1>3. \A f \in FatLocks : Svar[f] \in CVars
    BY ThinAssumption
  <1>4. ASSUME NEW to \in ThinPcs, pc' = [pc EXCEPT ![t] = to], CvTypes',
               susp' \in [FatLocks -> Int],
               to \in SuspendPcs => fl'[t] \in FatLocks,
               \A u \in Threads \ {t} : fl'[u] = fl[u]
        PROVE  RestInv'
    <2>1. pc'[t] = to /\ \A u \in Threads \ {t} : pc'[u] = pc[u]
      BY <1>2, <1>4
    <2>2. to \notin Deeper
      BY DEF Deeper, Counted, ThinPcs, LockPcs, EnqueuePcs, DequeuePcs
    <2>3. RestThreadInv(t)'
      BY <1>1, <1>2, <1>4, <2>1, <2>2 DEF RestThreadInv
    <2> QED  BY <1>1, <1>2, <1>4, <2>1, <2>3, OwnStepKeepsRestInv
  <1>5. CASE Relock(t) /\ UNCHANGED thinVars
    <2>1. /\ UNCHANGED <<pc, fl, susp, depth>> /\ left' = left
      BY <1>1, <1>5 DEF Relock, thinVars, fatVars
    <2>2. CvTypes'
      BY <1>2, <1>5, ACvAssumption, ThinAssumption, CallsKeepCvTypes DEF Relock, Regain, Give,
         CvTypes, Phases
    <2> QED  BY <2>1, <2>2 DEF RestInv, RestThreadInv
  <1>6. CASE \/ LockFast(t) \/ LockSlow(t) \/ SetWait(t) \/ EnqueueTakes(t) \/ NothingToEmpty(t)
             \/ EmptyFatlock(t) \/ UnlockFast(t) \/ UnlockSlow(t) \/ Release0(t)
             \/ ResumeThread(t) \/ SuspendThread(t)
    <2>1. PICK to \in ThinPcs :
            /\ pc' = [pc EXCEPT ![t] = to] /\ UNCHANGED acvVars
            /\ to \in SuspendPcs => SuspendThread(t) /\ fat[thin[t]] # NoFat
      <3> USE DEF ThinPcs, LockPcs, EnqueuePcs, DequeuePcs, SuspendPcs
      <3>1. CASE SuspendThread(t)
        <4>1. CASE fat[thin[t]] = NoFat
          <5>1. pc' = [pc EXCEPT ![t] = "relock"] /\ UNCHANGED acvVars
            BY <3>1, <4>1 DEF SuspendThread, Continue, GoTo
          <5> QED  BY <5>1
        <4>2. CASE fat[thin[t]] # NoFat
          <5>1. pc' = [pc EXCEPT ![t] = "suspLock"] /\ UNCHANGED acvVars
            BY <3>1, <4>2 DEF SuspendThread, Continue, GoTo
          <5> QED  BY <3>1, <4>2, <5>1
        <4> QED  BY <4>1, <4>2
      <3>2. CASE ~SuspendThread(t)
        <4>1. PICK from \in {"lock", "enq", "empty", "emptying", "unlock", "release", "resume"},
                     to \in {"held", "enqueue", "enqUnlock", "enqGot", "enq", "emptyUnlock",
                                 "unlocked", "dequeue", "resume", "resLock"} :
                Continue(t, from, to)
          BY <1>6, <3>2
          DEF LockFast, LockSlow, SetWait, EnqueueTakes, NothingToEmpty, EmptyFatlock,
              UnlockFast, UnlockSlow, Release0, ResumeThread
        <4>2. to \in ThinPcs /\ to \notin SuspendPcs
          BY <4>1
        <4> HIDE DEF ThinPcs, SuspendPcs
        <4> QED  BY <4>1, <4>2 DEF Continue, GoTo
      <3> QED  BY <3>1, <3>2
    <2>2. CvTypes'
      BY <1>2, <2>1 DEF CvTypes, acvVars
    <2>3. susp' = susp \/ \E f : susp' = [susp EXCEPT ![f] = 0] \/ susp' = [susp EXCEPT ![f] = -1]
      BY <1>6 DEF LockFast, LockSlow, SetWait, EnqueueTakes, NothingToEmpty, EmptyFatlock,
                  UnlockFast, UnlockSlow, Release0, ResumeThread, SuspendThread, fatVars, thinVars
    <2>4. fl' = fl \/ fl' = [fl EXCEPT ![t] = fat[thin[t]]]
      BY <1>6 DEF LockFast, LockSlow, SetWait, EnqueueTakes, NothingToEmpty, EmptyFatlock,
                  UnlockFast, UnlockSlow, Release0, ResumeThread, SuspendThread, thinVars, ReadFat
    <2>5. SuspendThread(t) => fl'[t] = fat[thin[t]] /\ fat[thin[t]] \in FatLocks \cup {NoFat}
      <3>1. pc[t] = "suspend" => thin[t] \in ThinLocks
        BY DEF OwnInv, ThreadInv, InHand, Wanting, EnqueuePcs
      <3> QED  BY <1>2, <3>1 DEF SuspendThread, ReadFat, Continue, At, FatInv, FatTypes
    <2>6. susp' \in [FatLocks -> Int]
      BY <1>2, <2>3
    <2>7. \A u \in Threads \ {t} : fl'[u] = fl[u]
      BY <1>2, <2>4
    <2> QED  BY <1>4, <2>1, <2>2, <2>5, <2>6, <2>7
  <1>7. CASE \/ EnqueueLocks(t) \/ EnqueueReturns(t) \/ EnqueueUnlocks(t) \/ EnqueueRelocks(t)
             \/ EmptyLocks(t) \/ EmptyReturns(t) \/ DequeueLocks(t) \/ ResumeLocks(t)
             \/ ResumeReturns(t) \/ DequeueReturns(t) \/ SuspendLocks(t) \/ SuspendReturns(t)
    <2>1. PICK l, from, to :
            /\ Lock(t, l, from, to) \/ Unlock(t, l, from, to)
            /\ to \in ThinPcs /\ (to \in SuspendPcs => from \in SuspendPcs /\ fl' = fl)
      BY <1>7 DEF EnqueueLocks, EnqueueReturns, EnqueueUnlocks, EnqueueRelocks, EmptyLocks,
                  EmptyReturns, DequeueLocks, ResumeLocks, ResumeReturns, DequeueReturns,
                  SuspendLocks, SuspendReturns, thinVars,
                  ThinPcs, LockPcs, EnqueuePcs, DequeuePcs, SuspendPcs
    <2>2. CvTypes'
      <3>1. CASE Lock(t, l, from, to)
        BY <1>2, <3>1 DEF Lock, Take, Give, CvTypes, Phases
      <3>2. CASE Unlock(t, l, from, to)
        BY <1>2, <3>2 DEF Unlock, Release, CvTypes
      <3> QED  BY <2>1, <3>1, <3>2
    <2>3. pc[t] = from /\ pc' = [pc EXCEPT ![t] = to]
      BY <2>1 DEF Lock, Unlock, At, GoTo
    <2>4. susp' = susp /\ (fl' = fl \/ fl' = [fl EXCEPT ![t] = fat[thin[t]]])
      BY <1>7 DEF EnqueueLocks, EnqueueReturns, EnqueueUnlocks, EnqueueRelocks, EmptyLocks,
                  EmptyReturns, DequeueLocks, ResumeLocks, ResumeReturns, DequeueReturns,
                  SuspendLocks, SuspendReturns, thinVars, fatVars, ReadFat
    <2>5. to \in SuspendPcs => fl'[t] \in FatLocks
      BY <1>2, <2>1, <2>3 DEF RestThreadInv
    <2>6. \A u \in Threads \ {t} : fl'[u] = fl[u]
      BY <1>2, <2>4
    <2> QED  BY <1>2, <1>4, <2>1, <2>2, <2>3, <2>4, <2>5, <2>6
  <1>8. CASE SuspendCounts(t) \/ SuspendWoken(t) \/ ResumeNotifies(t)
    <2>1. fl[t] \in FatLocks /\ fl' = fl
      <3>1. pc[t] \in SuspendPcs \/ pc[t] = "resNotify"
        BY <1>8 DEF SuspendCounts, SuspendWoken, ResumeNotifies, WaitEnds, At, SuspendPcs
      <3>2. pc[t] = "resNotify" => fl[t] \in FatLocks
        BY DEF FatInv, FatThreadInv, InFat
      <3>3. fl' = fl
        BY <1>8 DEF SuspendCounts, SuspendWoken, ResumeNotifies, thinVars
      <3> QED  BY <1>2, <3>1, <3>2, <3>3 DEF RestThreadInv
    <2>2. PICK to \in ThinPcs : pc' = [pc EXCEPT ![t] = to]
      BY <1>8 DEF SuspendCounts, SuspendWoken, ResumeNotifies, Continue, Wait, WaitEnds, GoTo,
                  ThinPcs, LockPcs, EnqueuePcs, DequeuePcs
    <2>3. susp' \in [FatLocks -> Int]
      <3>1. susp' = susp \/ \E n \in Int : susp' = [susp EXCEPT ![fl[t]] = n]
        BY <1>2, <1>8, <2>1 DEF SuspendCounts, SuspendWoken, ResumeNotifies, thinVars, fatVars
      <3> QED  BY <1>2, <3>1
    <2>4. CvTypes'
      <3> DEFINE c == Svar[fl[t]]
      <3>1. c \in CVars
        BY <1>3, <2>1
      <3> HIDE DEF c
      <3>2. \E from, to2 : Continue(t, from, to2) \/ Wait(t, c, from, to2)
                             \/ WaitEnds(t, from, to2) \/ Notify(t, c)
        BY <1>8 DEF SuspendCounts, SuspendWoken, ResumeNotifies, c
      <3> QED  BY <1>2, <3>1, <3>2, CallsKeepCvTypes
    <2> QED  BY <1>4, <2>1, <2>2, <2>3, <2>4
  <1> QED  BY <1>5, <1>6, <1>7, <1>8 DEF ThinGoesOn

LEMMA ScopeStepKeepsRestInv ==
  ASSUME OwnInv, FatInv, RestInv, NEW t \in Threads,
         left' = left \/ (left[t] > 0 /\ left' = [left EXCEPT ![t] = @ - 1]),
         \/ \E o \in Objects : LockObj(t, o) \/ GetSlot(t, o)
         \/ LockObjAgain(t) \/ ReadScope(t) \/ LockScope(t) \/ LockObjReturns(t)
         \/ LockObjRetries(t) \/ UnlockObj(t) \/ Unlocked(t)
         \/ SlotFast(t) \/ SlotReturns(t) \/ SlotSlow(t)
         \/ ReenterScope(t) \/ ScopeLocked(t) \/ UnlockScope(t)
         \/ GetMutableScope(t) \/ TransferScopeLock(t)
  PROVE  RestInv'
PROOF
  <1>1. /\ RestThreadInv(t) /\ CvTypes /\ susp \in [FatLocks -> Int]
        /\ left \in [Threads -> Nat] /\ pc \in [Threads -> Pcs]
        /\ depth \in [Threads -> Nat] /\ Depths(t) /\ Scopes(t)
        /\ MaxDepth \in Nat \ {0}
    BY ScopeAssumption DEF RestInv, OwnInv, Types, ThreadInv
  <1>2. fl' = fl /\ susp' = susp /\ UNCHANGED acvVars
    BY DEF LockObj, GetSlot, LockObjAgain, ReadScope, LockScope, LockObjReturns, LockObjRetries,
           UnlockObj, Unlocked, SlotFast, SlotReturns, SlotSlow, ReenterScope, ScopeLocked,
           UnlockScope, GetMutableScope, TransferScopeLock, NoThinStep, thinVars, fatVars,
           Continue
  <1>3. CvTypes' /\ left' \in [Threads -> Nat]
    BY <1>1, <1>2 DEF CvTypes, acvVars
  <1>4. ASSUME NEW to \in Pcs \ SuspendPcs, pc' = [pc EXCEPT ![t] = to],
               NEW d \in Nat, depth' = [depth EXCEPT ![t] = d] \/ (depth' = depth /\ d = depth[t]),
               d <= MaxDepth, to \in Deeper => d < MaxDepth
        PROVE  RestInv'
    <2>1. /\ pc'[t] = to /\ depth'[t] = d
          /\ \A u \in Threads \ {t} : pc'[u] = pc[u] /\ depth'[u] = depth[u]
      BY <1>1, <1>4
    <2>2. RestThreadInv(t)'
      BY <1>4, <2>1 DEF RestThreadInv
    <2> QED  BY <1>1, <1>2, <1>3, <2>1, <2>2, OwnStepKeepsRestInv
  <1> USE DEF Pcs, ScopePcs, ThinPcs, LockPcs, EnqueuePcs, DequeuePcs, SuspendPcs
  <1>5. ASSUME NEW to \in Pcs \ SuspendPcs, pc' = [pc EXCEPT ![t] = to], depth' = depth,
               to \in Deeper => depth[t] < MaxDepth
        PROVE  RestInv'
    BY <1>1, <1>4, <1>5 DEF RestThreadInv
  <1>6. CASE LockObjReturns(t)
    <2>1. pc[t] = "check" /\ pc' = [pc EXCEPT ![t] = "inside"]
          /\ depth' = [depth EXCEPT ![t] = depth[t] + 1]
      BY <1>6 DEF LockObjReturns, Continue, At, GoTo
    <2>2. depth[t] + 1 \in Nat /\ depth[t] + 1 <= MaxDepth
      BY <1>1, <2>1 DEF RestThreadInv, Deeper, Counted
    <2>3. "inside" \in Pcs \ SuspendPcs /\ "inside" \notin Deeper
      BY DEF Deeper, Counted
    <2> HIDE DEF Pcs, SuspendPcs
    <2> QED  BY <1>4, <2>1, <2>2, <2>3
  <1>7. CASE UnlockObj(t)
    <2>1. pc[t] = "inside" /\ pc' = [pc EXCEPT ![t] = "unlockScope"]
          /\ depth' = [depth EXCEPT ![t] = depth[t] - 1]
      BY <1>7 DEF UnlockObj, Continue, At, GoTo
    <2>2. depth[t] - 1 \in Nat /\ depth[t] - 1 < MaxDepth
      BY <1>1, <2>1 DEF Depths, RestThreadInv
    <2>3. "unlockScope" \in Pcs \ SuspendPcs /\ depth[t] - 1 <= MaxDepth
      BY <1>1, <2>2
    <2> HIDE DEF Pcs, SuspendPcs
    <2> QED  BY <1>4, <2>1, <2>2, <2>3
  <1>8. CASE \/ \E o \in Objects : LockObj(t, o)
             \/ LockObjAgain(t) \/ ReadScope(t) \/ LockObjRetries(t) \/ SlotSlow(t)
             \/ ReenterScope(t) \/ ScopeLocked(t)
    <2>1. PICK to \in Deeper :
            /\ pc' = [pc EXCEPT ![t] = to]
            /\ pc[t] \in Deeper \cup {"run", "slot", "held"} \/ depth[t] < MaxDepth
      BY <1>8 DEF LockObj, LockObjAgain, ReadScope, LockObjRetries, SlotSlow, ReenterScope,
                  ScopeLocked, Continue, At, GoTo, Deeper, Counted
    <2>2. depth' = depth
      BY <1>8 DEF LockObj, LockObjAgain, ReadScope, LockObjRetries, SlotSlow, ReenterScope,
                  ScopeLocked, scopeVars
    <2>3. depth[t] < MaxDepth
      BY <1>1, <2>1 DEF Depths, RestThreadInv
    <2>4. to \in Pcs \ SuspendPcs
      BY <2>1 DEF Deeper, Counted
    <2> QED  BY <1>5, <2>1, <2>2, <2>3, <2>4
  <1>9. CASE \/ \E o \in Objects : GetSlot(t, o)
             \/ LockScope(t) \/ SlotFast(t) \/ SlotReturns(t) \/ UnlockScope(t)
             \/ GetMutableScope(t) \/ TransferScopeLock(t)
    <2>1. PICK to \in {"slot", "lock", "slotHeld", "unlock", "unlocked", "mutated"} :
            pc' = [pc EXCEPT ![t] = to]
      BY <1>9 DEF GetSlot, LockScope, SlotFast, SlotReturns, UnlockScope, GetMutableScope,
                  TransferScopeLock, Continue, GoTo
    <2>2. depth' = depth
      BY <1>9 DEF GetSlot, LockScope, SlotFast, SlotReturns, UnlockScope, GetMutableScope,
                  TransferScopeLock, scopeVars
    <2> QED  BY <1>5, <2>1, <2>2 DEF Deeper, Counted
  <1>10. CASE Unlocked(t)
    <2>1. /\ pc[t] = "unlocked" /\ pc' = [pc EXCEPT ![t] = next[t]] /\ depth' = depth
          /\ next[t] \in {"run", "lockObj", "inside"}
      BY <1>10 DEF Unlocked, Continue, At, GoTo, OwnInv, Types
    <2>2. next[t] = "lockObj" => depth[t] < MaxDepth
      BY <1>1, <2>1 DEF Depths, Past
    <2>3. next[t] \in Pcs \ SuspendPcs /\ (next[t] \in Deeper => next[t] = "lockObj")
      BY <2>1 DEF Deeper, Counted
    <2> HIDE DEF Pcs, SuspendPcs
    <2> QED  BY <1>5, <2>1, <2>2, <2>3
  <1> QED  BY <1>6, <1>7, <1>8, <1>9, <1>10

\* Nobody else counts a scope that has just been made.
LEMMA ScopeStepKeepsNewInv ==
  ASSUME OwnInv, NewInv, NEW t \in Threads,
         \/ \E o \in Objects : LockObj(t, o) \/ GetSlot(t, o)
         \/ LockObjAgain(t) \/ ReadScope(t) \/ LockScope(t) \/ LockObjReturns(t)
         \/ LockObjRetries(t) \/ UnlockObj(t) \/ Unlocked(t)
         \/ SlotFast(t) \/ SlotReturns(t) \/ SlotSlow(t)
         \/ ReenterScope(t) \/ ScopeLocked(t) \/ UnlockScope(t)
         \/ GetMutableScope(t) \/ TransferScopeLock(t)
  PROVE  NewInv'
PROOF
  <1>1. Types /\ ThreadInv(t)
    BY DEF OwnInv
  <1>2. ASSUME NEW u \in Threads, pc[u] = "mutated"
        PROVE  /\ obj[u] \in Objects /\ map[obj[u]] = OwnScope[obj[u]]
               /\ owner[map[obj[u]]] = u /\ map[obj[u]] # Shared /\ count[map[obj[u]]] = 1
    <2>1. ThreadInv(u) /\ depth[u] > 0
      BY <1>2 DEF OwnInv, ThreadInv, Depths
    <2> QED  BY <1>2, <2>1, HasItsScope, ScopeAssumption DEF ThreadInv, Scopes, NewInv
  <1>3. \A u \in Threads \ {t} : pc'[u] = pc[u] /\ obj'[u] = obj[u]
    BY <1>1
    DEF LockObj, GetSlot, LockObjAgain, ReadScope, LockScope, LockObjReturns, LockObjRetries,
        UnlockObj, Unlocked, SlotFast, SlotReturns, SlotSlow, ReenterScope, ScopeLocked,
        UnlockScope, GetMutableScope, TransferScopeLock, scopeVars, Continue, GoTo, Types
  <1>4. CASE GetMutableScope(t)
    <2>1. /\ obj[t] \in Objects /\ map[obj[t]] = Shared /\ obj' = obj
          /\ map' = [map EXCEPT ![obj[t]] = OwnScope[obj[t]]]
          /\ count' = [count EXCEPT ![OwnScope[obj[t]]] = 1]
      BY <1>1, <1>4 DEF GetMutableScope, At, ThreadInv, InHand
    <2>2. OwnScope[obj[t]] \in ThinLocks
      BY <2>1, ScopeAssumption
    <2>3. count'[map'[obj'[t]]] = 1
      BY <1>1, <2>1, <2>2 DEF Types
    <2>4. ASSUME NEW u \in Threads \ {t}, pc'[u] = "mutated"  PROVE count'[map'[obj'[u]]] = 1
      <3>1. pc[u] = "mutated"
        BY <1>3, <2>4
      <3>2. obj[u] # obj[t] /\ OwnScope[obj[u]] # OwnScope[obj[t]]
        BY <1>2, <2>1, <3>1, ScopeAssumption
      <3> QED  BY <1>1, <1>2, <2>1, <3>1, <3>2 DEF Types
    <2> QED  BY <2>3, <2>4 DEF NewInv
  <1>5. CASE ~GetMutableScope(t)
    <2>1. map' = map /\ pc'[t] # "mutated"
      BY <1>1, <1>5
      DEF LockObj, GetSlot, LockObjAgain, ReadScope, LockScope, LockObjReturns, LockObjRetries,
          UnlockObj, Unlocked, SlotFast, SlotReturns, SlotSlow, ReenterScope, ScopeLocked,
          UnlockScope, TransferScopeLock, scopeVars, Continue, GoTo, Types
    <2>2. \A p \in ThinLocks : owner[p] # t => count'[p] = count[p]
      <3>1. CASE ReenterScope(t)
        BY <1>1, <3>1 DEF ReenterScope, Types
      <3>2. CASE ScopeLocked(t) \/ UnlockScope(t)
        <4>1. owner[thin[t]] = t
          BY <1>1, <3>2
          DEF ScopeLocked, UnlockScope, Continue, At, ThreadInv, InHand, HasWord, Bare, Counted
        <4> QED  BY <1>1, <3>2, <4>1 DEF ScopeLocked, UnlockScope, Types
      <3>3. CASE TransferScopeLock(t)
        <4>1. pc[t] = "mutated"
          BY <3>3 DEF TransferScopeLock, Continue, At
        <4>2. owner[OwnScope[obj[t]]] = t /\ owner[Shared] = t
          BY <1>1, <1>2, <4>1, ScopeAssumption DEF ThreadInv, HasWord
        <4> QED  BY <1>1, <3>3, <4>2 DEF TransferScopeLock, Types
      <3>4. CASE count' = count
        BY <3>4
      <3> QED  BY <1>5, <3>1, <3>2, <3>3, <3>4
        DEF LockObj, GetSlot, LockObjAgain, ReadScope, LockScope, LockObjReturns, LockObjRetries,
            UnlockObj, Unlocked, SlotFast, SlotReturns, SlotSlow, scopeVars
    <2>3. ASSUME NEW u \in Threads \ {t}, pc'[u] = "mutated"  PROVE count'[map'[obj'[u]]] = 1
      BY <1>1, <1>2, <1>3, <2>1, <2>2, <2>3 DEF Types
    <2> QED  BY <2>1, <2>3 DEF NewInv
  <1> QED  BY <1>4, <1>5

LEMMA ThinStepKeepsNewInv ==
  ASSUME OwnInv, NewInv, NEW t \in Threads, ThinGoesOn(t), UNCHANGED scopeVars
  PROVE  NewInv'
PROOF
  <1>1. pc' = pc \/ \E to \in ThinPcs : pc' = [pc EXCEPT ![t] = to]
    BY DEF ThinGoesOn, LockFast, LockSlow, EnqueueLocks, SetWait, EnqueueTakes, EnqueueReturns,
           EnqueueUnlocks, SuspendThread, SuspendLocks, SuspendCounts, SuspendWoken,
           SuspendReturns, EnqueueRelocks, NothingToEmpty, EmptyLocks, EmptyFatlock,
           EmptyReturns, UnlockFast, UnlockSlow, DequeueLocks, Release0, ResumeThread,
           ResumeLocks, ResumeNotifies, ResumeReturns, DequeueReturns, Relock, Continue, Lock,
           Unlock, Wait, WaitEnds, GoTo, ThinPcs, LockPcs, EnqueuePcs, DequeuePcs
  <1>2. "mutated" \notin ThinPcs
    BY DEF ThinPcs, LockPcs, EnqueuePcs, DequeuePcs
  <1> QED  BY <1>1, <1>2 DEF NewInv, scopeVars, OwnInv, Types

LEMMA NextRestInv ==
  ProgramKnown /\ OwnInv /\ FatInv /\ RestInv /\ NewInv /\ [ScopeNext]_vars
    => RestInv' /\ NewInv'
PROOF
  <1> SUFFICES ASSUME ProgramKnown, OwnInv, FatInv, RestInv, NewInv, [ScopeNext]_vars
               PROVE  RestInv' /\ NewInv'
    OBVIOUS
  <1>1. CASE UNCHANGED vars
    BY <1>1 DEF vars, clientVars, acvVars, thinVars, fatVars, scopeVars, progVars, RestInv,
                CvTypes, RestThreadInv, NewInv
  <1>2. ASSUME NEW t \in Threads, ScopeBegins(t)  PROVE RestInv' /\ NewInv'
    <2>1. program.objects \subseteq Objects
      BY ScopeAssumption DEF ProgramKnown
    <2> QED  BY <1>2, <2>1, ScopeStepKeepsRestInv, ScopeStepKeepsNewInv DEF ScopeBegins
  <1>3. ASSUME NEW t \in Threads, ScopeWrites(t)  PROVE RestInv' /\ NewInv'
    BY <1>3, ScopeStepKeepsRestInv, ScopeStepKeepsNewInv DEF ScopeWrites, progVars
  <1>4. ASSUME NEW t \in Threads, ScopeGoesOn(t)  PROVE RestInv' /\ NewInv'
    BY <1>4, ScopeStepKeepsRestInv, ScopeStepKeepsNewInv, ThinStepKeepsRestInv,
       ThinStepKeepsNewInv DEF ScopeGoesOn, progVars
  <1> QED  BY <1>1, <1>2, <1>3, <1>4 DEF ScopeNext

LEMMA InitRestInv == ScopeInit => RestInv /\ NewInv
PROOF
  <1> SUFFICES ASSUME ScopeInit  PROVE RestInv /\ NewInv
    OBVIOUS
  <1>1. CvTypes /\ susp \in [FatLocks -> Int]
    BY DEF ScopeInit, ACvInit, ThinInit, CvTypes, Phases
  <1>2. left \in [Threads -> Nat]
    BY ScopeAssumption DEF ScopeInit
  <1>3. \A t \in Threads : pc[t] = "run" /\ depth[t] = 0
    BY DEF ScopeInit
  <1>4. \A t \in Threads : RestThreadInv(t)
    BY <1>3, ScopeAssumption DEF RestThreadInv, SuspendPcs, Deeper, Counted
  <1> QED  BY <1>1, <1>2, <1>3, <1>4 DEF RestInv, NewInv

LEMMA SpecRestInv == ScopeSpec => [](RestInv /\ NewInv)
PROOF
  BY InitRestInv, NextRestInv, SpecProgramKnown, SpecOwnInv, SpecFatInv, PTL DEF ScopeSpec

\* How often a thread has locked its object, and that its object's scope counts
\* that often, stays within the bound whatever the mutators do.
THEOREM SpecScopeTypeOK == ScopeSpec => []ScopeTypeOK
PROOF
  <1>1. ScopeSpec => [](RestInv /\ NewInv)
    BY SpecRestInv
  <1>2. ProgramKnown /\ OwnInv /\ FatInv /\ RestInv /\ NewInv => ScopeTypeOK
    <2> SUFFICES ASSUME ProgramKnown, OwnInv, FatInv, RestInv, NewInv
                 PROVE  ScopeTypeOK
      OBVIOUS
    <2>0. Types /\ MaxDepth \in Nat
      BY ScopeAssumption DEF OwnInv
    <2>1. \A t \in Threads : depth[t] \in 0..MaxDepth
      BY <2>0 DEF RestInv, RestThreadInv, Types
    <2>2. ASSUME NEW p \in ThinLocks  PROVE count[p] \in 0..MaxDepth
      <3>1. CASE owner[p] = NoThread
        BY <2>0, <3>1 DEF OwnInv
      <3>2. CASE owner[p] # NoThread
        <4> DEFINE t == owner[p]
        <4>1. t \in Threads
          BY <2>0, <3>2 DEF Types
        <4>2. ThreadInv(t) /\ RestThreadInv(t) /\ HasWord(t, p) /\ depth[t] \in 0..MaxDepth
          BY <2>1, <4>1 DEF OwnInv, ThreadInv, RestInv
        <4> HIDE DEF t
        <4>3. CASE pc[t] \in Bare /\ thin[t] = p
          BY <2>0, <4>2, <4>3 DEF ThreadInv, Counts
        <4>4. CASE pc[t] \in Counted /\ thin[t] = p
          BY <2>0, <4>2, <4>4 DEF ThreadInv, Counts, RestThreadInv, Deeper
        <4>5. CASE pc[t] = "mutated" /\ p = Shared
          BY <4>2, <4>5 DEF ThreadInv, Counts
        <4>6. CASE depth[t] > 0 /\ map[obj[t]] = p
          <5>1. CASE pc[t] \in Counted
            BY <4>2, <4>4, <4>6, <5>1 DEF ThreadInv, Scopes
          <5>2. CASE pc[t] = "mutated"
            BY ScopeAssumption, <4>1, <4>6, <5>2 DEF NewInv
          <5>3. CASE pc[t] \notin Counted \cup {"mutated"}
            BY <4>2, <4>6, <5>3 DEF ThreadInv, Counts
          <5> QED  BY <5>1, <5>2, <5>3
        <4> QED  BY <4>2, <4>3, <4>4, <4>5, <4>6 DEF HasWord
      <3> QED  BY <3>1, <3>2
    <2>3. ACvTypeOK
      BY DEF FatInv, FatTypes, RestInv, CvTypes, ACvTypeOK
    <2>4. ThinTypeOK
      BY <2>0 DEF FatInv, FatTypes, RestInv, Types, ThinTypeOK
    <2>5. count \in [ThinLocks -> 0..MaxDepth] /\ depth \in [Threads -> 0..MaxDepth]
      BY <2>0, <2>1, <2>2 DEF Types
    <2> QED  BY <2>0, <2>3, <2>4, <2>5 DEF ScopeTypeOK, Types, Pcs, ProgramKnown, RestInv
  <1> QED  BY <1>1, <1>2, SpecProgramKnown, SpecOwnInv, SpecFatInv, PTL

-----------------------------------------------------------------------------
(* Suspended threads.                                                      *)

\* On the way to the wait of js_SuspendThread, ...
SleepyPcs == {"enqUnlock", "suspend", "suspLock", "suspCount"}

\* ... in it, ...
Sleeps(t) == pc[t] = "suspWait" /\ phase[t] = "waiting"

\* ... and where a thread resumes another, or is back from the wait and will set
\* the wait bit again, or take the lock with it, while others are suspended.
Helps(t) == \/ pc[t] \in {"resume", "resLock", "resNotify",
                          "suspUnlock", "relock", "empty", "emptying"}
            \/ pc[t] = "suspWait" /\ phase[t] # "waiting"
            \/ pc[t] \in {"emptyUnlock", "enq"} /\ meWait[t] = TRUE

HelpedBy(t, p) == waitBit[p] = TRUE \/ (thin[t] = p /\ Helps(t))

\* Whoever waits for p can rely on the wait bit, or on another thread.
Helped(p) == \E t \in Threads : HelpedBy(t, p)

\* js_SuspendThread and those that resume or empty have the fat lock of their
\* thin lock, a suspended thread as long as it is suspended.
SleepThreadInv(t) ==
  /\ pc[t] = "suspWait" => on[t] = Svar[fl[t]] /\ phase[t] # "out"
  /\ pc[t] # "suspWait" => phase[t] = "out"
  /\ Sleeps(t) \/ pc[t] \in {"emptying", "resLock", "resNotify"}
       => fl[t] = fat[thin[t]]

\* A fat lock is in the free list once, or serves one thin lock.
FatsApart ==
  /\ \A p, q \in ThinLocks : fat[p] = fat[q] /\ fat[p] # NoFat => p = q
  /\ \A p \in ThinLocks, i \in DOMAIN freeFats : fat[p] # freeFats[i]
  /\ \A i, j \in DOMAIN freeFats : freeFats[i] = freeFats[j] => i = j

\* What a fat lock in use counts: the threads suspended in it, or, below 0, those
\* that were resumed before they were suspended.
SuspCount(f) == /\ IsFiniteSet(Waiting(Svar[f]))
                /\ Cardinality(Waiting(Svar[f])) = IF susp[f] > 0 THEN susp[f] ELSE 0

CountInv(p) == fat[p] # NoFat => SuspCount(fat[p])

WantedInv(p) == \A t \in Threads :
  /\ thin[t] = p /\ fat[p] # NoFat
  /\ pc[t] \in SleepyPcs \/ Sleeps(t)
  => Helped(p) \/ susp[fat[p]] < 0

SleepInv == /\ \A t \in Threads : SleepThreadInv(t)
            /\ FatsApart
            /\ \A p \in ThinLocks : CountInv(p) /\ WantedInv(p)

\* When js_SuspendThread counts, the fat lock it has read is still that of its
\* thin lock, or that of none, if its thin lock has none any more.
SuspensionsInTime ==
  \A t \in Threads : pc[t] = "suspCount" =>
    \/ fat[thin[t]] = fl[t]
    \/ fat[thin[t]] = NoFat /\ \A q \in ThinLocks : fat[q] # fl[t]

\* The other threads wait as before.
OthersSleep(t) ==
  \A u \in Threads \ {t} : on'[u] = on[u] /\ phase'[u] = phase[u]

LEMMA OthersHelp ==
  ASSUME NEW t \in Threads, OthersRemain(t), OthersSleep(t), NEW p \in ThinLocks,
         Helped(p), HelpedBy(t, p) => HelpedBy(t, p)'
  PROVE  Helped(p)'
PROOF
  <1>1. PICK u \in Threads : HelpedBy(u, p)
    BY DEF Helped
  <1>2. CASE HelpedBy(t, p)
    BY <1>2 DEF Helped
  <1>3. CASE ~HelpedBy(t, p)
    <2>1. u # t /\ thin[u] = p /\ Helps(u)
      BY <1>1, <1>3 DEF HelpedBy
    <2>2. HelpedBy(u, p)'
      BY <2>1 DEF HelpedBy, Helps, OthersRemain, OthersSleep
    <2> QED  BY <2>2 DEF Helped
  <1> QED  BY <1>2, <1>3

\* A step that leaves the fat locks alone, of a thread that is not suspended.
LEMMA StepKeepsSleepInv ==
  ASSUME SleepInv, NEW t \in Threads, OthersRemain(t), OthersSleep(t),
         UNCHANGED <<fat, freeFats, susp>>,
         phase[t] # "waiting", phase'[t] # "waiting", SleepThreadInv(t)',
         pc'[t] \in SleepyPcs => pc[t] \in SleepyPcs /\ thin'[t] = thin[t],
         \A p \in ThinLocks : fat[p] # NoFat /\ HelpedBy(t, p) => HelpedBy(t, p)'
  PROVE  SleepInv'
PROOF
  <1>1. ASSUME NEW u \in Threads  PROVE SleepThreadInv(u)'
    <2>1. CASE u # t
      BY <2>1 DEF SleepInv, SleepThreadInv, Sleeps, OthersRemain, OthersSleep
    <2> QED  BY <2>1
  <1>2. FatsApart'
    BY DEF SleepInv, FatsApart
  <1>3. ASSUME NEW p \in ThinLocks  PROVE CountInv(p)'
    <2>1. \A f : Waiting(Svar[f])' = Waiting(Svar[f])
      BY DEF Waiting, OthersSleep
    <2> QED  BY <2>1 DEF SleepInv, CountInv, SuspCount
  <1>4. ASSUME NEW p \in ThinLocks  PROVE WantedInv(p)'
    <2> SUFFICES ASSUME NEW u \in Threads, thin'[u] = p, fat'[p] # NoFat,
                        pc'[u] \in SleepyPcs \/ Sleeps(u)'
                 PROVE  Helped(p)' \/ susp'[fat'[p]] < 0
      BY DEF WantedInv
    <2>1. thin[u] = p /\ (pc[u] \in SleepyPcs \/ Sleeps(u))
      BY DEF OthersRemain, OthersSleep, Sleeps
    <2>2. Helped(p) \/ susp[fat[p]] < 0
      BY <2>1 DEF SleepInv, WantedInv
    <2> QED  BY <2>2, OthersHelp
  <1> QED  BY <1>1, <1>2, <1>3, <1>4 DEF SleepInv

\* Where a thread matters to those that are suspended.
BusyPcs == SleepyPcs \cup {"suspWait", "suspUnlock", "relock", "empty", "emptying",
                           "emptyUnlock", "enq", "resume", "resLock", "resNotify"}

\* A step between other places, that clears no wait bit.
LEMMA PlainStepKeepsSleepInv ==
  ASSUME OwnInv, SleepInv, NEW t \in Threads, NEW to, pc' = [pc EXCEPT ![t] = to],
         pc[t] \notin BusyPcs \ {"enq"}, to \notin BusyPcs \ {"enq"},
         pc[t] = "enq" => meWait[t] # TRUE,
         to = "enq" => meWait'[t] # TRUE, OthersRemain(t),
         UNCHANGED <<on, phase, fat, freeFats, susp>>,
         \A p \in ThinLocks : waitBit[p] = TRUE => waitBit'[p] = TRUE
  PROVE  SleepInv'
PROOF
  <1>1. pc'[t] = to
    BY DEF OwnInv, Types
  <1>2. phase[t] = "out" /\ phase'[t] = "out"
    BY DEF SleepInv, SleepThreadInv, BusyPcs
  <1>3. SleepThreadInv(t)'
    BY <1>1, <1>2 DEF SleepThreadInv, Sleeps, BusyPcs
  <1>4. \A p \in ThinLocks : HelpedBy(t, p) => HelpedBy(t, p)'
    BY DEF HelpedBy, Helps, BusyPcs
  <1>5. pc'[t] \notin SleepyPcs /\ OthersSleep(t)
    BY <1>1 DEF BusyPcs, OthersSleep, SleepyPcs
  <1> QED  BY <1>2, <1>3, <1>4, <1>5, StepKeepsSleepInv

LEMMA HandStepKeepsSleepInv ==
  ASSUME OwnInv, SleepInv, NEW t \in Threads,
         \/ \E o \in Objects : LockObj(t, o) \/ GetSlot(t, o)
         \/ LockObjAgain(t) \/ ReadScope(t) \/ LockScope(t) \/ LockObjReturns(t)
         \/ LockObjRetries(t) \/ UnlockObj(t) \/ Unlocked(t)
         \/ SlotReturns(t) \/ SlotSlow(t)
         \/ ReenterScope(t) \/ ScopeLocked(t) \/ UnlockScope(t) \/ TransferScopeLock(t)
  PROVE  SleepInv'
PROOF
  <1>1. UNCHANGED <<on, phase, fat, freeFats, susp, waitBit, meWait, fl>>
    BY DEF LockObj, GetSlot, LockObjAgain, ReadScope, LockScope, LockObjReturns,
           LockObjRetries, UnlockObj, Unlocked, SlotReturns, SlotSlow, ReenterScope,
           ScopeLocked, UnlockScope, TransferScopeLock, Continue, acvVars, NoThinStep,
           thinVars, wordVars, fatVars
  <1>2. PICK to \in {"lockObj", "slot", "lockScope", "lock", "inside", "unlockScope", "run",
                     "unlock", "check", "unlocked"} :
          pc' = [pc EXCEPT ![t] = to] /\ pc[t] \notin BusyPcs
    BY DEF LockObj, GetSlot, LockObjAgain, ReadScope, LockScope, LockObjReturns,
           LockObjRetries, UnlockObj, Unlocked, SlotReturns, SlotSlow, ReenterScope,
           ScopeLocked, UnlockScope, TransferScopeLock, Continue, At, GoTo, BusyPcs, SleepyPcs,
           OwnInv, Types
  <1>3. \A u \in Threads \ {t} : thin'[u] = thin[u]
    BY DEF LockObj, GetSlot, LockObjAgain, ReadScope, LockScope, LockObjReturns,
           LockObjRetries, UnlockObj, Unlocked, SlotReturns, SlotSlow, ReenterScope,
           ScopeLocked, UnlockScope, TransferScopeLock, NoThinStep, thinVars, scopeVars,
           ChooseLock, OwnInv, Types
  <1>4. OthersRemain(t)
    BY <1>1, <1>2, <1>3 DEF OthersRemain, OwnInv, Types
  <1> QED  BY <1>1, <1>2, <1>4, PlainStepKeepsSleepInv DEF BusyPcs, SleepyPcs

\* No free word has a wait bit.
LEMMA WordStepKeepsSleepInv ==
  ASSUME OwnInv, FatInv, SleepInv, NEW t \in Threads,
         LockFast(t) \/ SlotFast(t) \/ UnlockFast(t) \/ GetMutableScope(t)
  PROVE  SleepInv'
PROOF
  <1>1. UNCHANGED <<on, phase, fat, freeFats, susp, thin, meWait, fl>>
    BY DEF LockFast, SlotFast, UnlockFast, GetMutableScope, Continue, acvVars, fatVars
  <1>2. PICK to \in {"held", "slotHeld", "unlocked", "mutated"} :
          pc' = [pc EXCEPT ![t] = to] /\ pc[t] \notin BusyPcs
    BY DEF LockFast, SlotFast, UnlockFast, GetMutableScope, Continue, At, GoTo, BusyPcs,
           SleepyPcs
  <1>3. PICK q \in ThinLocks : /\ waitBit' = [waitBit EXCEPT ![q] = FALSE]
                                /\ waitBit[q] # TRUE
    <2>1. CASE GetMutableScope(t)
      <3>1. PICK q \in ThinLocks : /\ waitBit' = [waitBit EXCEPT ![q] = FALSE]
                                    /\ owner[q] = NoThread
        BY <2>1, NewScopeIsFree DEF GetMutableScope, SetWord
      <3> QED  BY <3>1 DEF FatInv, BitInv
    <2>2. CASE LockFast(t) \/ SlotFast(t)
      <3>1. pc[t] \in {"lock", "slot"} /\ SetWord(thin[t], t, FALSE) /\ owner[thin[t]] = NoThread
        BY <2>2 DEF LockFast, SlotFast, SwapSucceeds, Continue, At
      <3>2. thin[t] \in ThinLocks
        BY <3>1 DEF OwnInv, ThreadInv, InHand, Wanting
      <3> QED  BY <3>1, <3>2 DEF SetWord, FatInv, BitInv
    <2>3. CASE UnlockFast(t)
      <3>1. pc[t] = "unlock" /\ SetWord(thin[t], NoThread, FALSE) /\ waitBit[thin[t]] # TRUE
        BY <2>3 DEF UnlockFast, Continue, At, Contended
      <3>2. thin[t] \in ThinLocks
        BY <3>1 DEF OwnInv, ThreadInv, InHand, Bare
      <3> QED  BY <3>1, <3>2 DEF SetWord
    <2> QED  BY <2>1, <2>2, <2>3
  <1>4. OthersRemain(t) /\ \A p \in ThinLocks : waitBit[p] = TRUE => waitBit'[p] = TRUE
    BY <1>1, <1>2, <1>3 DEF OthersRemain, OwnInv, Types, FatInv, FatTypes
  <1> QED  BY <1>1, <1>2, <1>4, PlainStepKeepsSleepInv DEF BusyPcs, SleepyPcs

\* Calls that neither begin nor end a wait.
LEMMA CallsKeepWaits ==
  ASSUME CvTypes, NEW t \in Threads, NEW from, NEW to,
         \/ Continue(t, from, to)
         \/ \E l : Lock(t, l, from, to) \/ Unlock(t, l, from, to)
  PROVE  /\ pc[t] = from /\ pc' = [pc EXCEPT ![t] = to]
         /\ phase[t] = "out" /\ phase' = phase /\ on' = on
PROOF
  BY DEF Continue, Lock, Unlock, At, GoTo, acvVars, Take, Give, Release, CvTypes

LEMMA PlainThinStepKeepsSleepInv ==
  ASSUME OwnInv, FatInv, RestInv, SleepInv, NEW t \in Threads,
         \/ LockSlow(t) \/ EnqueueLocks(t) \/ EnqueueReturns(t) \/ UnlockSlow(t)
         \/ DequeueLocks(t) \/ ResumeReturns(t) \/ DequeueReturns(t)
  PROVE  SleepInv'
PROOF
  <1>1. /\ UNCHANGED <<fat, freeFats, susp, waitBit, thin, fl>>
        /\ meWait' = meWait \/ meWait' = [meWait EXCEPT ![t] = FALSE]
    BY DEF LockSlow, EnqueueLocks, EnqueueReturns, UnlockSlow, DequeueLocks, ResumeReturns,
           DequeueReturns, thinVars, wordVars, fatVars
  <1>2. PICK from, to :
          /\ from \notin BusyPcs /\ to \notin BusyPcs \ {"enq"}
          /\ to = "enq" => from = "enqueue" /\ meWait' = meWait
          /\ \/ Continue(t, from, to)
             \/ \E l : Lock(t, l, from, to) \/ Unlock(t, l, from, to)
    BY DEF LockSlow, EnqueueLocks, EnqueueReturns, UnlockSlow, DequeueLocks, ResumeReturns,
           DequeueReturns, BusyPcs, SleepyPcs, thinVars
  <1>3. pc[t] = from /\ pc' = [pc EXCEPT ![t] = to] /\ phase' = phase /\ on' = on
    BY <1>2, CallsKeepWaits DEF RestInv
  <1>4. pc[t] \notin BusyPcs \ {"enq"} /\ (pc[t] = "enq" => meWait[t] # TRUE)
    BY <1>2, <1>3 DEF BusyPcs
  <1>5. OthersRemain(t) /\ (to = "enq" => meWait'[t] # TRUE)
    BY <1>1, <1>2, <1>3 DEF OthersRemain, OwnInv, Types, FatInv, FatTypes, FatThreadInv
  <1> QED  BY <1>1, <1>2, <1>3, <1>4, <1>5, PlainStepKeepsSleepInv

\* On the way to the wait, which needs a fat lock.
LEMMA SleepyStepKeepsSleepInv ==
  ASSUME OwnInv, FatInv, RestInv, SleepInv, NEW t \in Threads,
         EnqueueUnlocks(t) \/ SuspendThread(t) \/ SuspendLocks(t)
  PROVE  SleepInv'
PROOF
  <1>1. /\ UNCHANGED <<fat, freeFats, susp, waitBit, thin, meWait>>
        /\ fl' = fl \/ fl' = [fl EXCEPT ![t] = fat[thin[t]]]
    BY DEF EnqueueUnlocks, SuspendThread, SuspendLocks, thinVars, wordVars, fatVars, ReadFat
  <1>2. PICK from \in SleepyPcs, to \in SleepyPcs \cup {"relock"} :
          \/ Continue(t, from, to)
          \/ \E l : Lock(t, l, from, to) \/ Unlock(t, l, from, to)
    BY DEF EnqueueUnlocks, SuspendThread, SuspendLocks, SleepyPcs
  <1>3. /\ pc[t] = from /\ phase[t] = "out" /\ pc' = [pc EXCEPT ![t] = to] /\ on' = on
        /\ phase' = phase
    BY <1>2, CallsKeepWaits DEF RestInv
  <1>4. /\ OthersRemain(t) /\ OthersSleep(t) /\ pc'[t] = to
    BY <1>1, <1>3 DEF OthersRemain, OthersSleep, OwnInv, Types, FatInv, FatTypes
  <1>5. SleepThreadInv(t)'
    BY <1>3, <1>4 DEF SleepThreadInv, Sleeps, SleepyPcs
  <1>6. \A p \in ThinLocks : HelpedBy(t, p) => HelpedBy(t, p)'
    BY <1>1, <1>3 DEF HelpedBy, Helps, SleepyPcs
  <1> QED  BY <1>1, <1>3, <1>4, <1>5, <1>6, StepKeepsSleepInv

\* Back from the wait, or with the fat lock of those that are suspended.
LEMMA HelpStepKeepsSleepInv ==
  ASSUME OwnInv, FatInv, RestInv, SleepInv, NEW t \in Threads,
         \/ SuspendReturns(t) \/ EnqueueRelocks(t) \/ NothingToEmpty(t) \/ EmptyLocks(t)
         \/ EmptyReturns(t) \/ Release0(t) \/ ResumeThread(t) \/ ResumeLocks(t)
  PROVE  SleepInv'
PROOF
  <1>1. /\ UNCHANGED <<fat, freeFats, susp, thin>>
        /\ meWait' = meWait \/ meWait' = [meWait EXCEPT ![t] = FALSE]
        /\ fl' = fl \/ fl' = [fl EXCEPT ![t] = fat[thin[t]]]
    BY DEF SuspendReturns, EnqueueRelocks, NothingToEmpty, EmptyLocks, EmptyReturns, Release0,
           ResumeThread, ResumeLocks, thinVars, wordVars, fatVars, ReadFat
  <1>2. PICK from, to :
          /\ from \in {"suspUnlock", "relock", "empty", "emptyUnlock", "release", "resume",
                       "resLock"}
          /\ to \in {"relock", "empty", "enq", "emptying", "resume", "resLock", "resNotify"}
          /\ to = "enq" => from = "emptyUnlock" \/ fat[thin[t]] = NoFat
          /\ to \in {"emptying", "resLock"} => fl' = [fl EXCEPT ![t] = fat[thin[t]]]
          /\ to = "resNotify" => from = "resLock" /\ fl' = fl
          /\ meWait' = meWait \/ fat[thin[t]] = NoFat
          /\ \/ waitBit' = waitBit
             \/ to = "resume" /\ waitBit' = [waitBit EXCEPT ![thin[t]] = FALSE]
          /\ \/ Continue(t, from, to)
             \/ \E l : Lock(t, l, from, to) \/ Unlock(t, l, from, to)
    BY DEF SuspendReturns, EnqueueRelocks, NothingToEmpty, EmptyLocks, EmptyReturns, Release0,
           ResumeThread, ResumeLocks, thinVars, wordVars, ReadFat, SetWord
  <1>3. /\ pc[t] = from /\ pc' = [pc EXCEPT ![t] = to] /\ phase' = phase /\ on' = on
        /\ phase[t] = "out"
    BY <1>2, CallsKeepWaits DEF RestInv
  <1>4. OthersRemain(t) /\ OthersSleep(t) /\ pc'[t] = to
    BY <1>1, <1>3 DEF OthersRemain, OthersSleep, OwnInv, Types, FatInv, FatTypes
  <1>5. fat[thin[t]] # NoFat => meWait'[t] = meWait[t]
    BY <1>1, <1>2
  <1>6. SleepThreadInv(t)'
    <2>1. to \in {"emptying", "resLock", "resNotify"} => fl'[t] = fat[thin[t]]
      BY <1>2, <1>3 DEF FatInv, FatTypes, SleepInv, SleepThreadInv
    <2>2. to # "suspWait"
      BY <1>2
    <2> QED  BY <1>1, <1>3, <1>4, <2>1, <2>2 DEF SleepThreadInv, Sleeps
  <1>7. ASSUME NEW p \in ThinLocks, fat[p] # NoFat, HelpedBy(t, p)  PROVE HelpedBy(t, p)'
    <2>1. CASE thin[t] = p /\ Helps(t)
      <3>1. to = "enq" => meWait'[t] = TRUE
        BY <1>2, <1>3, <1>5, <1>7, <2>1 DEF Helps
      <3>2. Helps(t)'
        BY <1>2, <1>4, <3>1 DEF Helps
      <3> QED  BY <1>1, <2>1, <3>2 DEF HelpedBy
    <2>2. CASE waitBit[p] = TRUE
      <3>1. CASE waitBit' = waitBit
        BY <2>2, <3>1 DEF HelpedBy
      <3>2. CASE to = "resume" /\ waitBit' = [waitBit EXCEPT ![thin[t]] = FALSE]
        <4>1. Helps(t)'
          BY <1>4, <3>2 DEF Helps
        <4>2. thin[t] # p => waitBit'[p] = waitBit[p]
          BY <3>2 DEF FatInv, FatTypes
        <4> QED  BY <1>1, <2>2, <4>1, <4>2 DEF HelpedBy
      <3> QED  BY <1>2, <3>1, <3>2
    <2> QED  BY <1>7, <2>1, <2>2 DEF HelpedBy
  <1>8. phase[t] # "waiting" /\ phase'[t] # "waiting" /\ pc'[t] \notin SleepyPcs
    BY <1>2, <1>3, <1>4 DEF SleepyPcs
  <1> QED  BY <1>1, <1>4, <1>6, <1>7, <1>8, StepKeepsSleepInv

\* Whoever takes the lock from js_Enqueue takes it with the wait bit if it is to help.
LEMMA EnqueueTakesKeepsSleepInv ==
  ASSUME OwnInv, FatInv, RestInv, SleepInv, NEW t \in Threads, EnqueueTakes(t)
  PROVE  SleepInv'
PROOF
  <1>1. /\ pc[t] = "enq" /\ pc' = [pc EXCEPT ![t] = "enqGot"]
        /\ phase[t] = "out" /\ phase' = phase /\ on' = on
    BY CallsKeepWaits DEF RestInv, EnqueueTakes
  <1>2. /\ UNCHANGED <<fat, freeFats, susp, thin, meWait, fl>>
        /\ thin[t] \in ThinLocks /\ owner[thin[t]] = NoThread
        /\ waitBit' = [waitBit EXCEPT ![thin[t]] = meWait[t]]
    BY <1>1 DEF EnqueueTakes, fatVars, SetWord, OwnInv, ThreadInv, InHand, Wanting, EnqueuePcs
  <1>3. OthersRemain(t) /\ OthersSleep(t) /\ pc'[t] = "enqGot"
    BY <1>1, <1>2 DEF OthersRemain, OthersSleep, OwnInv, Types
  <1>4. SleepThreadInv(t)' /\ pc'[t] \notin SleepyPcs
    BY <1>1, <1>3 DEF SleepThreadInv, Sleeps, SleepyPcs
  <1>5. waitBit[thin[t]] # TRUE
    BY <1>2 DEF FatInv, BitInv
  <1>6. ASSUME NEW p \in ThinLocks, HelpedBy(t, p)  PROVE waitBit'[p] = TRUE
    BY <1>1, <1>2, <1>5, <1>6 DEF HelpedBy, Helps, FatInv, FatTypes
  <1> QED  BY <1>1, <1>2, <1>3, <1>4, <1>6, StepKeepsSleepInv DEF HelpedBy

\* A woken thread helps, as soon as it has the slock again and later.
LEMMA WokenKeepsSleepInv ==
  ASSUME OwnInv, FatInv, RestInv, SleepInv, NEW t \in Threads,
         SuspendWoken(t) \/ (Relock(t) /\ UNCHANGED thinVars)
  PROVE  SleepInv'
PROOF
  <1>1. /\ UNCHANGED <<fat, freeFats, susp, waitBit, thin, meWait, fl>>
        /\ pc' = pc \/ pc' = [pc EXCEPT ![t] = "suspUnlock"]
    BY DEF SuspendWoken, WaitEnds, GoTo, Relock, thinVars, wordVars, fatVars
  <1>2. /\ phase[t] \in {"woken", "back"} /\ pc[t] = "suspWait"
        /\ OthersSleep(t)
        /\ \/ pc' = pc /\ phase'[t] = "back" /\ on' = on
           \/ pc'[t] = "suspUnlock" /\ phase'[t] = "out"
    <2>1. CASE SuspendWoken(t)
      BY <2>1 DEF SuspendWoken, WaitEnds, EndWait, GoTo, OthersSleep, RestInv, CvTypes, OwnInv,
                  Types
    <2>2. CASE Relock(t)
      BY <2>2 DEF Relock, Regain, Give, OthersSleep, RestInv, CvTypes, SleepInv, SleepThreadInv
    <2> QED  BY <2>1, <2>2
  <1>3. OthersRemain(t)
    BY <1>1 DEF OthersRemain, OwnInv, Types
  <1>4. SleepThreadInv(t)' /\ Helps(t)'
    BY <1>1, <1>2 DEF SleepInv, SleepThreadInv, Sleeps, Helps
  <1>5. \A p \in ThinLocks : HelpedBy(t, p) => HelpedBy(t, p)'
    BY <1>1, <1>4 DEF HelpedBy
  <1>6. phase[t] # "waiting" /\ phase'[t] # "waiting" /\ pc'[t] \notin SleepyPcs
    BY <1>2 DEF SleepyPcs
  <1> QED  BY <1>1, <1>2, <1>3, <1>4, <1>5, <1>6, StepKeepsSleepInv

\* A fat lock and the condition in it know each other.
LEMMA SvarsDiffer ==
  ASSUME NEW f \in FatLocks, NEW g \in FatLocks, Svar[f] = Svar[g]
  PROVE  f = g
PROOF
  BY ThinAssumption

\* js_SuspendThread of a thread that is in time: it waits, and is counted, if nobody has
\* resumed it before, and goes back to js_Enqueue if somebody has.
LEMMA SuspendCountsKeepsSleepInv ==
  ASSUME OwnInv, FatInv, RestInv, SleepInv, SuspensionsInTime, NEW t \in Threads,
         SuspendCounts(t)
  PROVE  SleepInv'
PROOF
  <1>0. PICK f \in FatLocks, p \in ThinLocks : f = fl[t] /\ p = thin[t]
    BY DEF SuspendCounts, At, OwnInv, ThreadInv, InHand, Wanting, EnqueuePcs, RestInv,
           RestThreadInv, SuspendPcs
  <1>1. /\ pc[t] = "suspCount" /\ phase[t] = "out" /\ f = fl[t] /\ p = thin[t]
        /\ susp' = [susp EXCEPT ![f] = @ + 1]
        /\ UNCHANGED <<waitBit, fat, freeFats, thin, meWait, fl>>
    BY <1>0 DEF SuspendCounts, At, wordVars
  <1>2. susp \in [FatLocks -> Int] /\ \A q \in ThinLocks : fat[q] # NoFat => fat[q] \in FatLocks
    BY DEF RestInv, FatInv, FatTypes
  <1>3. \A q \in ThinLocks : fat[q] = f => q = p
    BY <1>1, ThinAssumption DEF SuspensionsInTime, SleepInv, FatsApart
  <1>4. /\ \A q \in ThinLocks \ {p} : fat[q] # NoFat => susp'[fat[q]] = susp[fat[q]]
        /\ susp'[f] = susp[f] + 1 /\ susp[f] \in Int
    BY <1>1, <1>2, <1>3
  <1>5. PICK to : /\ pc' = [pc EXCEPT ![t] = to]
                  /\ \/ NoSuspension(t) /\ to = "suspUnlock" /\ UNCHANGED acvVars
                     \/ ~NoSuspension(t) /\ to = "suspWait" /\ BeginWait(t, Svar[f])
    BY <1>1 DEF SuspendCounts, Continue, Wait, GoTo
  <1>6. OthersRemain(t) /\ OthersSleep(t) /\ pc'[t] = to
    BY <1>1, <1>5 DEF OthersRemain, OthersSleep, acvVars, BeginWait, OwnInv, Types, RestInv,
                      CvTypes
  <1>7. FatsApart'
    BY <1>1 DEF SleepInv, FatsApart
  <1>8. \A u \in Threads \ {t} : SleepThreadInv(u)'
    BY <1>1, <1>6 DEF SleepInv, SleepThreadInv, Sleeps, OthersRemain, OthersSleep
  <1>9. ASSUME NEW q \in ThinLocks \ {p}  PROVE WantedInv(q)'
    <2> SUFFICES ASSUME NEW u \in Threads, thin'[u] = q, fat'[q] # NoFat,
                        pc'[u] \in SleepyPcs \/ Sleeps(u)'
                 PROVE  Helped(q)' \/ susp'[fat'[q]] < 0
      BY DEF WantedInv
    <2>1. u # t /\ (pc[u] \in SleepyPcs \/ Sleeps(u)) /\ thin[u] = q
      BY <1>1, <1>6 DEF OthersRemain, OthersSleep, Sleeps
    <2>2. Helped(q) \/ susp'[fat'[q]] < 0
      BY <1>1, <1>4, <2>1 DEF SleepInv, WantedInv
    <2> QED  BY <1>1, <1>6, <2>2, OthersHelp DEF HelpedBy
  <1>10. CASE NoSuspension(t)
    <2>1. to = "suspUnlock" /\ on' = on /\ phase' = phase
      BY <1>5, <1>10 DEF acvVars
    <2>2. SleepThreadInv(t)' /\ Helps(t)'
      BY <1>1, <1>6, <2>1 DEF SleepThreadInv, Sleeps, Helps
    <2>3. ASSUME NEW q \in ThinLocks  PROVE CountInv(q)'
      <3>1. \A c : Waiting(c)' = Waiting(c)
        BY <2>1 DEF Waiting
      <3>2. CASE fat[q] = f
        <4>1. q = p /\ fat[p] # NoFat /\ susp[f] < 0
          BY <1>1, <1>2, <1>3, <1>4, <1>10, <3>2, ThinAssumption DEF NoSuspension
        <4> QED  BY <1>1, <1>4, <3>1, <4>1 DEF SleepInv, CountInv, SuspCount
      <3>3. CASE fat[q] # f
        BY <1>1, <1>2, <3>1, <3>3 DEF SleepInv, CountInv, SuspCount
      <3> QED  BY <3>2, <3>3
    <2>4. WantedInv(p)'
      BY <1>1, <2>2 DEF WantedInv, Helped, HelpedBy
    <2> QED  BY <1>7, <1>8, <1>9, <2>2, <2>3, <2>4 DEF SleepInv
  <1>11. CASE ~NoSuspension(t)
    <2>1. to = "suspWait" /\ fat[p] = f /\ susp[f] >= 0
      BY <1>1, <1>4, <1>5, <1>11 DEF NoSuspension, SuspensionsInTime
    <2>2. on' = [on EXCEPT ![t] = Svar[f]] /\ phase' = [phase EXCEPT ![t] = "waiting"]
      BY <1>5, <1>11 DEF BeginWait
    <2>3. on \in [Threads -> CVars \cup {NoCvar}] /\ phase \in [Threads -> Phases]
      BY DEF RestInv, CvTypes
    <2>4. SleepThreadInv(t)' /\ on'[t] = Svar[f] /\ phase'[t] = "waiting"
      BY <1>1, <1>6, <2>1, <2>2, <2>3 DEF SleepThreadInv, Sleeps
    <2>5. ASSUME NEW q \in ThinLocks  PROVE CountInv(q)'
      <3>1. CASE q = p
        <4>1. Waiting(Svar[f])' = Waiting(Svar[f]) \cup {t} /\ t \notin Waiting(Svar[f])
          BY <1>1, <1>6, <2>4 DEF Waiting, OthersSleep
        <4>2. SuspCount(f)
          BY <1>1, <2>1, ThinAssumption DEF SleepInv, CountInv
        <4>3. /\ IsFiniteSet(Waiting(Svar[f]) \cup {t})
              /\ Cardinality(Waiting(Svar[f]) \cup {t}) = Cardinality(Waiting(Svar[f])) + 1
          BY <4>1, <4>2, FS_AddElement DEF SuspCount
        <4>4. Cardinality(Waiting(Svar[f])) = susp[f]
          BY <1>4, <2>1, <4>2 DEF SuspCount
        <4>5. SuspCount(f)'
          BY <1>4, <2>1, <4>1, <4>3, <4>4 DEF SuspCount
        <4> QED  BY <1>1, <2>1, <3>1, <4>5 DEF CountInv
      <3>2. CASE q # p /\ fat[q] # NoFat
        <4>1. Svar[fat[q]] # Svar[f]
          BY <1>1, <1>2, <1>3, <3>2, SvarsDiffer
        <4>2. Waiting(Svar[fat[q]])' = Waiting(Svar[fat[q]])
          BY <1>1, <2>2, <2>3, <2>4, <4>1 DEF Waiting
        <4> QED  BY <1>1, <1>4, <3>2, <4>2 DEF SleepInv, CountInv, SuspCount
      <3> QED  BY <1>1, <3>1, <3>2 DEF CountInv
    <2>6. Helped(p)
      <3>1. fat[p] # NoFat /\ pc[t] \in SleepyPcs
        BY <1>1, <2>1, ThinAssumption DEF SleepyPcs
      <3> QED  BY <1>1, <1>4, <2>1, <3>1 DEF SleepInv, WantedInv
    <2>7. HelpedBy(t, p) => HelpedBy(t, p)'
      BY <1>1 DEF HelpedBy, Helps
    <2>8. WantedInv(p)'
      BY <1>1, <1>6, <2>6, <2>7, OthersHelp DEF WantedInv
    <2> QED  BY <1>7, <1>8, <1>9, <2>4, <2>5, <2>8 DEF SleepInv
  <1> QED  BY <1>10, <1>11

\* js_ResumeThread wakes one of the threads suspended in the fat lock of its thin
\* lock, or leaves a mark for one that will come.
LEMMA ResumeNotifiesKeepsSleepInv ==
  ASSUME OwnInv, FatInv, RestInv, SleepInv, NEW t \in Threads, ResumeNotifies(t)
  PROVE  SleepInv'
PROOF
  <1>1. PICK f \in FatLocks, p \in ThinLocks :
          f = fl[t] /\ p = thin[t] /\ f = fat[p] /\ f # NoFat
    BY ThinAssumption
    DEF ResumeNotifies, At, OwnInv, ThreadInv, InHand, Past, FatInv, FatThreadInv, InFat, SleepInv,
        SleepThreadInv
  <1>2. /\ pc[t] = "resNotify" /\ phase[t] = "out" /\ pc' = [pc EXCEPT ![t] = "resUnlock"]
        /\ susp' = [susp EXCEPT ![f] = @ - 1] /\ susp \in [FatLocks -> Int]
        /\ UNCHANGED <<on, waitBit, fat, freeFats, thin, meWait, fl>>
    BY <1>1 DEF ResumeNotifies, At, GoTo, Notify, wordVars, RestInv
  <1>3. OthersRemain(t) /\ pc'[t] = "resUnlock"
    BY <1>2 DEF OthersRemain, OwnInv, Types
  <1>4. /\ \A q \in ThinLocks \ {p} : fat[q] # NoFat =>
             fat[q] \in FatLocks /\ fat[q] # f /\ susp'[fat[q]] = susp[fat[q]]
        /\ susp'[f] = susp[f] - 1 /\ susp[f] \in Int
    BY <1>1, <1>2 DEF SleepInv, FatsApart, FatInv, FatTypes
  <1>5. SuspCount(f)
    BY <1>1 DEF SleepInv, CountInv
  <1>6. FatsApart'
    BY <1>2 DEF SleepInv, FatsApart
  <1>7. CASE Waiting(Svar[f]) = {}
    <2>1. phase' = phase
      BY <1>1, <1>7 DEF ResumeNotifies, Notify
    <2>2. \A u \in Threads : SleepThreadInv(u)'
      BY <1>1, <1>2, <1>3, <2>1 DEF SleepInv, SleepThreadInv, Sleeps, OthersRemain
    <2>3. susp'[f] < 0
      BY <1>4, <1>5, <1>7, FS_EmptySet DEF SuspCount
    <2>4. ASSUME NEW q \in ThinLocks  PROVE CountInv(q)'
      <3>1. \A c : Waiting(c)' = Waiting(c)
        BY <1>2, <2>1 DEF Waiting
      <3>2. CASE q = p
        BY <1>1, <1>2, <1>5, <1>7, <2>3, <3>1, <3>2, FS_EmptySet DEF CountInv, SuspCount
      <3>3. CASE q # p
        BY <1>2, <1>4, <3>1, <3>3 DEF SleepInv, CountInv, SuspCount
      <3> QED  BY <3>2, <3>3
    <2>5. ASSUME NEW q \in ThinLocks  PROVE WantedInv(q)'
      <3>1. CASE q = p
        BY <1>1, <1>2, <2>3, <3>1 DEF WantedInv
      <3>2. CASE q # p
        <4>1. OthersSleep(t) /\ (HelpedBy(t, q) => HelpedBy(t, q)')
          BY <1>1, <1>2, <2>1, <3>2 DEF OthersSleep, HelpedBy
        <4>2. Helped(q) => Helped(q)'
          BY <1>3, <4>1, OthersHelp
        <4> QED  BY <1>1, <1>2, <1>3, <1>4, <2>1, <3>2, <4>2
                 DEF SleepInv, WantedInv, Sleeps, SleepyPcs, OthersRemain
      <3> QED  BY <3>1, <3>2
    <2> QED  BY <1>6, <2>2, <2>4, <2>5 DEF SleepInv
  <1>8. CASE Waiting(Svar[f]) # {}
    <2>1. PICK v \in Waiting(Svar[f]) : phase' = [u \in Threads |-> IF u = v THEN "woken" ELSE phase[u]]
      BY <1>1, <1>8 DEF ResumeNotifies, Notify, Wake
    <2>2. /\ v \in Threads /\ v # t /\ phase[v] = "waiting" /\ on[v] = Svar[f] /\ phase'[v] = "woken"
          /\ \A u \in Threads \ {v} : phase'[u] = phase[u]
      BY <1>2, <2>1 DEF Waiting
    <2>3. pc[v] = "suspWait" /\ fl[v] = f /\ thin[v] = p
      <3>1. pc[v] = "suspWait" /\ on[v] = Svar[fl[v]] /\ fl[v] = fat[thin[v]]
        BY <2>2 DEF SleepInv, SleepThreadInv, Sleeps
      <3>2. fl[v] \in FatLocks /\ thin[v] \in ThinLocks
        BY <2>2, <3>1 DEF RestInv, RestThreadInv, SuspendPcs, OwnInv, ThreadInv, InHand, Wanting,
                          EnqueuePcs
      <3>3. fl[v] = f
        BY <2>2, <3>1, <3>2, SvarsDiffer
      <3> QED  BY <1>1, <3>1, <3>2, <3>3 DEF SleepInv, FatsApart
    <2>4. \A u \in Threads : SleepThreadInv(u)'
      BY <1>1, <1>2, <1>3, <2>2, <2>3 DEF SleepInv, SleepThreadInv, Sleeps, OthersRemain
    <2>5. HelpedBy(v, p)'
      BY <1>2, <1>3, <2>2, <2>3 DEF HelpedBy, Helps, OthersRemain
    <2>6. ASSUME NEW q \in ThinLocks  PROVE CountInv(q)'
      <3>1. CASE q = p
        <4>1. Waiting(Svar[f])' = Waiting(Svar[f]) \ {v}
          BY <1>2, <2>1, <2>2 DEF Waiting
        <4>2. /\ IsFiniteSet(Waiting(Svar[f]) \ {v})
              /\ Cardinality(Waiting(Svar[f]) \ {v}) = Cardinality(Waiting(Svar[f])) - 1
          BY <1>5, FS_RemoveElement DEF SuspCount
        <4>3. Cardinality(Waiting(Svar[f])) = susp[f] /\ susp[f] > 0
          BY <1>4, <1>5, <1>8, FS_EmptySet DEF SuspCount
        <4>4. SuspCount(f)'
          BY <1>4, <4>1, <4>2, <4>3 DEF SuspCount
        <4> QED  BY <1>1, <1>2, <3>1, <4>4 DEF CountInv
      <3>2. CASE q # p /\ fat[q] # NoFat
        <4>1. Svar[fat[q]] # Svar[f]
          BY <1>4, <3>2, SvarsDiffer
        <4>2. Waiting(Svar[fat[q]])' = Waiting(Svar[fat[q]])
          BY <1>2, <2>2, <4>1 DEF Waiting
        <4> QED  BY <1>2, <1>4, <3>2, <4>2 DEF SleepInv, CountInv, SuspCount
      <3> QED  BY <1>2, <3>1, <3>2 DEF CountInv
    <2>7. ASSUME NEW q \in ThinLocks  PROVE WantedInv(q)'
      <3>1. CASE q = p
        BY <2>2, <2>5, <3>1 DEF WantedInv, Helped
      <3>2. CASE q # p
        <4> SUFFICES ASSUME NEW u \in Threads, thin'[u] = q, fat'[q] # NoFat,
                            pc'[u] \in SleepyPcs \/ Sleeps(u)'
                     PROVE  Helped(q)' \/ susp'[fat'[q]] < 0
          BY DEF WantedInv
        <4>1. u # t /\ u # v
          BY <1>1, <1>2, <2>3, <3>2
        <4>2. thin[u] = q /\ (pc[u] \in SleepyPcs \/ Sleeps(u))
          BY <1>3, <2>2, <4>1 DEF OthersRemain, Sleeps
        <4>3. CASE Helped(q)
          <5>1. PICK w \in Threads : HelpedBy(w, q)
            BY <4>3 DEF Helped
          <5>2. HelpedBy(w, q)'
            BY <1>1, <1>2, <1>3, <2>2, <2>3, <3>2, <5>1 DEF HelpedBy, Helps, OthersRemain
          <5> QED  BY <5>2 DEF Helped
        <4> QED  BY <1>2, <1>4, <3>2, <4>2, <4>3 DEF SleepInv, WantedInv
      <3> QED  BY <3>1, <3>2
    <2> QED  BY <1>6, <2>4, <2>6, <2>7 DEF SleepInv
  <1> QED  BY <1>7, <1>8

\* Whoever is suspended in a fat lock is so for the thin lock that it serves.
LEMMA SleepersThin ==
  ASSUME OwnInv, RestInv, SleepInv, NEW f \in FatLocks, NEW u \in Waiting(Svar[f])
  PROVE  /\ u \in Threads /\ pc[u] = "suspWait" /\ fl[u] = f
         /\ thin[u] \in ThinLocks /\ fat[thin[u]] = f
PROOF
  <1>1. u \in Threads /\ on[u] = Svar[f] /\ phase[u] = "waiting"
    BY DEF Waiting
  <1>2. pc[u] = "suspWait" /\ on[u] = Svar[fl[u]] /\ fl[u] = fat[thin[u]]
    BY <1>1 DEF SleepInv, SleepThreadInv, Sleeps
  <1>3. fl[u] \in FatLocks /\ thin[u] \in ThinLocks
    BY <1>1, <1>2 DEF RestInv, RestThreadInv, SuspendPcs, OwnInv, ThreadInv, InHand, Wanting,
                      EnqueuePcs
  <1> QED  BY <1>1, <1>2, <1>3, SvarsDiffer

\* A step with the global lock that gives the thin lock p of t a fat lock, or takes
\* it away, when nobody is suspended in it.
LEMMA FatStepKeepsSleepInv ==
  ASSUME OwnInv, FatInv, RestInv, SleepInv, NEW t \in Threads, NEW p \in ThinLocks, p = thin[t],
         pc[t] \in Global, OthersRemain(t), UNCHANGED <<on, phase, thin>>,
         \A q \in ThinLocks : waitBit[q] = TRUE => waitBit'[q] = TRUE,
         \A q \in ThinLocks : q # p /\ HelpedBy(t, q) => HelpedBy(t, q)',
         \A q \in ThinLocks \ {p} :
            fat'[q] = fat[q] /\ (fat[q] # NoFat => susp'[fat[q]] = susp[fat[q]]),
         \A u \in Threads : ~(Sleeps(u) /\ thin[u] = p),
         SleepThreadInv(t)', FatsApart', CountInv(p)',
         fat'[p] = NoFat \/ HelpedBy(t, p)'
  PROVE  SleepInv'
PROOF
  <1>1. ASSUME NEW u \in Threads \ {t}  PROVE SleepThreadInv(u)'
    <2>1. /\ SleepThreadInv(u) /\ pc[u] \notin Global
          /\ pc'[u] = pc[u] /\ thin'[u] = thin[u] /\ fl'[u] = fl[u]
      BY DEF SleepInv, FatInv, FatThreadInv, OthersRemain
    <2>2. Sleeps(u) => thin[u] \in ThinLocks \ {p}
      BY DEF Sleeps, OwnInv, ThreadInv, InHand, Wanting, EnqueuePcs
    <2> QED  BY <2>1, <2>2 DEF SleepThreadInv, Sleeps, Global
  <1>2. ASSUME NEW q \in ThinLocks \ {p}  PROVE CountInv(q)' /\ WantedInv(q)'
    <2>1. CountInv(q)'
      <3>1. \A c : Waiting(c)' = Waiting(c)
        BY DEF Waiting
      <3> QED  BY <3>1 DEF SleepInv, CountInv, SuspCount
    <2>2. Helped(q) => Helped(q)'
      BY OthersHelp DEF OthersSleep
    <2>3. ASSUME NEW u \in Threads, thin'[u] = q, fat'[q] # NoFat,
                 pc'[u] \in SleepyPcs \/ Sleeps(u)'
          PROVE  Helped(q)' \/ susp'[fat'[q]] < 0
      <3>1. thin[u] = q /\ (pc[u] \in SleepyPcs \/ Sleeps(u))
        BY <2>3 DEF OthersRemain, Sleeps
      <3> QED  BY <2>2, <2>3, <3>1 DEF SleepInv, WantedInv
    <2> QED  BY <2>1, <2>3 DEF WantedInv
  <1>3. WantedInv(p)'
    BY DEF WantedInv, Helped
  <1> QED  BY <1>1, <1>2, <1>3 DEF SleepInv

\* emptyFatlock puts a fat lock back in which nobody is suspended, or sees to it that
\* the wait bit comes back.
LEMMA EmptyFatlockKeepsSleepInv ==
  ASSUME OwnInv, FatInv, RestInv, SleepInv, NEW t \in Threads, EmptyFatlock(t)
  PROVE  SleepInv'
PROOF
  <1>1. PICK f \in FatLocks, p \in ThinLocks :
          f = fl[t] /\ p = thin[t] /\ f = fat[p] /\ f # NoFat
    BY ThinAssumption
    DEF EmptyFatlock, Continue, At, OwnInv, ThreadInv, InHand, Wanting, EnqueuePcs, FatInv,
        FatThreadInv, InFat, SleepInv, SleepThreadInv
  <1>2. /\ pc[t] = "emptying" /\ phase[t] = "out" /\ pc' = [pc EXCEPT ![t] = "emptyUnlock"]
        /\ UNCHANGED <<on, phase, waitBit, thin, fl>>
        /\ meWait' = [meWait EXCEPT ![t] = OthersWait(f)]
    BY <1>1 DEF EmptyFatlock, Continue, At, GoTo, acvVars, wordVars
  <1>3. /\ OthersRemain(t) /\ OthersSleep(t) /\ pc'[t] = "emptyUnlock"
        /\ meWait'[t] = OthersWait(f)
    BY <1>2 DEF OthersRemain, OthersSleep, OwnInv, Types, FatInv, FatTypes
  <1>4. SleepThreadInv(t)'
    BY <1>2, <1>3 DEF SleepThreadInv, Sleeps
  <1>5. CASE OthersWait(f)
    <2>1. UNCHANGED <<fat, susp, freeFats>>
      BY <1>1, <1>5 DEF EmptyFatlock, OthersWait, fatVars
    <2>2. Helps(t)' /\ pc'[t] \notin SleepyPcs
      BY <1>3, <1>5 DEF Helps, OthersWait, NobodySuspended, SleepyPcs
    <2>3. \A q \in ThinLocks : HelpedBy(t, q) => HelpedBy(t, q)'
      BY <1>2, <2>2 DEF HelpedBy
    <2> QED  BY <1>2, <1>3, <1>4, <2>1, <2>2, <2>3, StepKeepsSleepInv
  <1>6. CASE NobodySuspended(f)
    <2>1. /\ susp' = [susp EXCEPT ![f] = -1] /\ freeFats' = <<f>> \o freeFats
          /\ fat' = [fat EXCEPT ![p] = NoFat] /\ susp[f] < 1
      BY <1>1, <1>6 DEF EmptyFatlock, NobodySuspended
    <2>2. /\ fat \in [ThinLocks -> FatLocks \cup {NoFat}] /\ freeFats \in Seq(FatLocks)
          /\ susp \in [FatLocks -> Int]
      BY DEF FatInv, FatTypes, RestInv
    <2>3. /\ fat'[p] = NoFat
          /\ \A q \in ThinLocks \ {p} : /\ fat'[q] = fat[q] /\ fat[q] # f
                                        /\ fat[q] # NoFat => susp'[fat[q]] = susp[fat[q]]
      BY <1>1, <2>1, <2>2 DEF SleepInv, FatsApart
    <2>4. \A u \in Threads : ~(Sleeps(u) /\ thin[u] = p)
      <3>1. Waiting(Svar[f]) = {}
        BY <1>1, <2>1, <2>2, FS_EmptySet DEF SleepInv, CountInv, SuspCount
      <3> QED  BY <1>1, <3>1 DEF Waiting, SleepInv, SleepThreadInv, Sleeps
    <2>5. FatsApart'
      <3>1. /\ \A i \in DOMAIN freeFats' : freeFats'[i] = f \/ \E j \in DOMAIN freeFats :
                                                                i = j + 1 /\ freeFats'[i] = freeFats[j]
            /\ \A i \in DOMAIN freeFats' : freeFats'[i] = f /\ i # 1 =>
                 \E j \in DOMAIN freeFats : freeFats[j] = f
        BY <2>1, <2>2
      <3>2. \A j \in DOMAIN freeFats : freeFats[j] # f /\ freeFats[j] # NoFat
        BY <1>1, <2>2, ThinAssumption DEF SleepInv, FatsApart
      <3>3. ASSUME NEW q \in ThinLocks, NEW i \in DOMAIN freeFats'  PROVE fat'[q] # freeFats'[i]
        BY <1>1, <2>3, <3>1, <3>2 DEF SleepInv, FatsApart
      <3>4. ASSUME NEW i \in DOMAIN freeFats', NEW j \in DOMAIN freeFats',
                   freeFats'[i] = freeFats'[j]
            PROVE  i = j
        BY <3>1, <3>2, <3>4 DEF SleepInv, FatsApart
      <3>5. \A q, r \in ThinLocks : fat'[q] = fat'[r] /\ fat'[q] # NoFat => q = r
        BY <2>3 DEF SleepInv, FatsApart
      <3> QED  BY <3>3, <3>4, <3>5 DEF FatsApart
    <2>6. \A q \in ThinLocks : q # p /\ HelpedBy(t, q) => HelpedBy(t, q)'
      BY <1>1, <1>2 DEF HelpedBy
    <2>7. CountInv(p)' /\ pc[t] \in Global
      BY <1>2, <2>3 DEF CountInv, Global
    <2> QED  BY <1>1, <1>2, <1>3, <1>4, <2>3, <2>4, <2>5, <2>6, <2>7, FatStepKeepsSleepInv
  <1> QED  BY <1>5, <1>6 DEF OthersWait

\* allocateFatlock takes one that nobody is suspended in.
LEMMA SetWaitKeepsSleepInv ==
  ASSUME OwnInv, FatInv, RestInv, SleepInv, NEW t \in Threads, SetWait(t)
  PROVE  SleepInv'
PROOF
  <1>1. PICK p \in ThinLocks : p = thin[t]
    BY DEF SetWait, Continue, At, OwnInv, ThreadInv, InHand, Wanting, EnqueuePcs
  <1>2. /\ pc[t] = "enq" /\ phase[t] = "out" /\ pc' = [pc EXCEPT ![t] = "enqUnlock"]
        /\ UNCHANGED <<on, phase, thin, meWait, fl>>
        /\ waitBit' = [waitBit EXCEPT ![p] = TRUE]
    BY <1>1 DEF SetWait, Continue, At, GoTo, acvVars
  <1>3. /\ OthersRemain(t) /\ OthersSleep(t) /\ pc'[t] = "enqUnlock" /\ waitBit'[p] = TRUE
        /\ \A q \in ThinLocks : waitBit[q] = TRUE => waitBit'[q] = TRUE
    BY <1>2 DEF OthersRemain, OthersSleep, OwnInv, Types, FatInv, FatTypes
  <1>4. SleepThreadInv(t)'
    BY <1>2, <1>3 DEF SleepThreadInv, Sleeps
  <1>5. \A q \in ThinLocks : q # p /\ HelpedBy(t, q) => HelpedBy(t, q)'
    BY <1>1, <1>3 DEF HelpedBy
  <1>6. HelpedBy(t, p)' /\ pc[t] \in Global /\ pc[t] \notin SleepyPcs
    BY <1>2, <1>3 DEF HelpedBy, Global, SleepyPcs
  <1>7. CASE fat[p] = NoFat
    <2>1. PICK f : /\ f = freeFats[1] /\ 1 \in DOMAIN freeFats /\ f \in FatLocks
                   /\ fat' = [fat EXCEPT ![p] = f] /\ susp' = [susp EXCEPT ![f] = 0]
                   /\ freeFats' = Tail(freeFats) /\ freeFats \in Seq(FatLocks)
      BY <1>1, <1>7 DEF SetWait, FatInv, FatTypes
    <2>2. /\ fat \in [ThinLocks -> FatLocks \cup {NoFat}] /\ susp \in [FatLocks -> Int]
      BY DEF FatInv, FatTypes, RestInv
    <2>3. \A q \in ThinLocks : fat[q] # f
      BY <2>1 DEF SleepInv, FatsApart
    <2>4. /\ fat'[p] = f
          /\ \A q \in ThinLocks \ {p} : /\ fat'[q] = fat[q]
                                        /\ fat[q] # NoFat => susp'[fat[q]] = susp[fat[q]]
      BY <2>1, <2>2, <2>3
    <2>5. FatsApart'
      <3>1. \A i \in DOMAIN freeFats' : i + 1 \in DOMAIN freeFats /\ freeFats'[i] = freeFats[i + 1]
                                         /\ i \in Nat \ {0}
        BY <2>1
      <3>2. \A i \in DOMAIN freeFats' : freeFats'[i] # f
        BY <2>1, <3>1 DEF SleepInv, FatsApart
      <3>3. \A i, j \in DOMAIN freeFats' : freeFats'[i] = freeFats'[j] => i = j
        BY <3>1 DEF SleepInv, FatsApart
      <3>4. \A q \in ThinLocks, i \in DOMAIN freeFats' : fat'[q] # freeFats'[i]
        BY <2>4, <3>1, <3>2 DEF SleepInv, FatsApart
      <3>5. \A q, r \in ThinLocks : fat'[q] = fat'[r] /\ fat'[q] # NoFat => q = r
        BY <2>3, <2>4 DEF SleepInv, FatsApart
      <3> QED  BY <3>3, <3>4, <3>5 DEF FatsApart
    <2>6. Waiting(Svar[f]) = {}
      BY <2>1, <2>3, SleepersThin
    <2>7. CountInv(p)'
      <3>1. Waiting(Svar[f])' = {}
        BY <1>2, <2>6 DEF Waiting
      <3>2. susp'[f] = 0
        BY <2>1, <2>2
      <3> QED  BY <2>4, <3>1, <3>2, FS_EmptySet DEF CountInv, SuspCount
    <2>8. \A u \in Threads : ~(Sleeps(u) /\ thin[u] = p)
      BY <1>7, ThinAssumption
      DEF SleepInv, SleepThreadInv, Sleeps, RestInv, RestThreadInv, SuspendPcs
    <2> QED  BY <1>1, <1>2, <1>3, <1>4, <1>5, <1>6, <2>4, <2>5, <2>7, <2>8, FatStepKeepsSleepInv
  <1>8. CASE fat[p] # NoFat
    <2>1. UNCHANGED <<fat, susp, freeFats>>
      BY <1>1, <1>8 DEF SetWait, fatVars
    <2>2. ASSUME NEW u \in Threads  PROVE SleepThreadInv(u)'
      BY <1>2, <1>3, <1>4, <2>1 DEF SleepInv, SleepThreadInv, Sleeps, OthersRemain
    <2>3. ASSUME NEW q \in ThinLocks  PROVE CountInv(q)'
      <3>1. \A c : Waiting(c)' = Waiting(c)
        BY <1>2 DEF Waiting
      <3> QED  BY <2>1, <3>1 DEF SleepInv, CountInv, SuspCount
    <2>4. ASSUME NEW q \in ThinLocks  PROVE WantedInv(q)'
      <3>1. CASE q = p
        BY <1>6, <3>1 DEF WantedInv, Helped
      <3>2. CASE q # p
        <4>1. Helped(q) => Helped(q)'
          BY <1>3, <1>5, <3>2, OthersHelp
        <4>2. ASSUME NEW u \in Threads, thin'[u] = q, pc'[u] \in SleepyPcs \/ Sleeps(u)'
              PROVE  thin[u] = q /\ (pc[u] \in SleepyPcs \/ Sleeps(u))
          BY <1>1, <1>2, <1>3, <3>2, <4>2 DEF OthersRemain, Sleeps
        <4> QED  BY <2>1, <4>1, <4>2 DEF SleepInv, WantedInv
      <3> QED  BY <3>1, <3>2
    <2>5. FatsApart'
      BY <2>1 DEF SleepInv, FatsApart
    <2> QED  BY <2>2, <2>3, <2>4, <2>5 DEF SleepInv
  <1> QED  BY <1>7, <1>8

LEMMA InitSleepInv == ScopeInit => SleepInv
PROOF
  <1> SUFFICES ASSUME ScopeInit  PROVE SleepInv
    OBVIOUS
  <1>1. \A t \in Threads : pc[t] = "run" /\ phase[t] = "out"
    BY DEF ScopeInit, ACvInit
  <1>2. \A p \in ThinLocks : fat[p] = NoFat
    BY DEF ScopeInit, ThinInit
  <1>3. \A i \in DOMAIN freeFats : freeFats[i] # NoFat
    BY ThinAssumption DEF ScopeInit, ThinInit
  <1>4. FatsApart
    BY <1>2, <1>3, FreeFatsAssumption DEF FatsApart, ScopeInit, ThinInit
  <1> QED  BY <1>1, <1>2, <1>4 DEF SleepInv, SleepThreadInv, Sleeps, CountInv, WantedInv

LEMMA NextSleepInv ==
  ProgramKnown /\ OwnInv /\ FatInv /\ RestInv /\ SleepInv /\ SuspensionsInTime /\ [ScopeNext]_vars
    => SleepInv'
PROOF
  <1> SUFFICES ASSUME ProgramKnown, OwnInv, FatInv, RestInv, SleepInv, SuspensionsInTime,
                      [ScopeNext]_vars
               PROVE  SleepInv'
    OBVIOUS
  <1>1. CASE UNCHANGED vars
    BY <1>1 DEF vars, clientVars, acvVars, thinVars, wordVars, fatVars, SleepInv, SleepThreadInv,
                FatsApart, CountInv, SuspCount, Waiting, WantedInv, Helped, HelpedBy, Helps, Sleeps
  <1>2. ASSUME NEW t \in Threads, ScopeBegins(t)  PROVE SleepInv'
    <2>1. program.objects \subseteq Objects
      BY ScopeAssumption DEF ProgramKnown
    <2> QED  BY <1>2, <2>1, HandStepKeepsSleepInv DEF ScopeBegins
  <1>3. ASSUME NEW t \in Threads, ScopeWrites(t)  PROVE SleepInv'
    BY <1>3, HandStepKeepsSleepInv, WordStepKeepsSleepInv DEF ScopeWrites
  <1>4. ASSUME NEW t \in Threads, ThinGoesOn(t)  PROVE SleepInv'
    BY <1>4, PlainThinStepKeepsSleepInv, WordStepKeepsSleepInv, SleepyStepKeepsSleepInv,
       HelpStepKeepsSleepInv, EnqueueTakesKeepsSleepInv, WokenKeepsSleepInv,
       SuspendCountsKeepsSleepInv, ResumeNotifiesKeepsSleepInv, EmptyFatlockKeepsSleepInv,
       SetWaitKeepsSleepInv
    DEF ThinGoesOn
  <1>5. ASSUME NEW t \in Threads, ScopeGoesOn(t)  PROVE SleepInv'
    BY <1>4, <1>5, HandStepKeepsSleepInv, WordStepKeepsSleepInv DEF ScopeGoesOn
  <1> QED  BY <1>1, <1>2, <1>3, <1>5 DEF ScopeNext

\* Somebody who wants a released lock is awake, or resumed by somebody.
LEMMA SleepersAreHelped ==
  OwnInv /\ FatInv /\ RestInv /\ SleepInv => FreeLockIsWanted
PROOF
  <1> SUFFICES ASSUME OwnInv, FatInv, RestInv, SleepInv, NEW p \in ThinLocks, owner[p] = NoThread,
                      NEW t \in Threads, thin[t] = p, pc[t] \in LockPcs,
                      \A u \in Threads : thin[u] = p /\ pc[u] \in LockPcs => Sleeps(u),
                      \A u \in Threads : thin[u] = p => pc[u] \notin DequeuePcs
               PROVE  FALSE
    BY DEF FreeLockIsWanted, Sleeps
  <1>1. Sleeps(t) /\ fl[t] = fat[p] /\ on[t] = Svar[fl[t]] /\ fl[t] \in FatLocks
    BY DEF SleepInv, SleepThreadInv, Sleeps, RestInv, RestThreadInv, SuspendPcs
  <1>2. t \in Waiting(Svar[fat[p]]) /\ fat[p] # NoFat
    BY <1>1, ThinAssumption DEF Waiting, Sleeps
  <1>3. susp[fat[p]] > 0
    BY <1>2, FS_EmptySet DEF SleepInv, CountInv, SuspCount
  <1>4. PICK u \in Threads : HelpedBy(u, p)
    BY <1>1, <1>2, <1>3 DEF SleepInv, WantedInv, Helped, RestInv
  <1>5. waitBit[p] # TRUE
    BY DEF FatInv, BitInv
  <1>6. thin[u] = p /\ Helps(u) /\ ~Sleeps(u)
    BY <1>4, <1>5 DEF HelpedBy, Helps, Sleeps
  <1> QED  BY <1>6 DEF Helps, LockPcs, EnqueuePcs, DequeuePcs

\* As long as no suspension comes too late, whatever scopes the objects get: a released lock
\* is not left to suspended threads.
THEOREM SpecFreeLockIsWanted == ScopeSpec /\ []SuspensionsInTime => []FreeLockIsWanted
PROOF
  <1>1. ScopeSpec /\ []SuspensionsInTime => []SleepInv
    BY InitSleepInv, NextSleepInv, SpecProgramKnown, SpecOwnInv, SpecFatInv, SpecRestInv, PTL
    DEF ScopeSpec
  <1> QED  BY <1>1, SleepersAreHelped, SpecOwnInv, SpecFatInv, SpecRestInv, PTL

-----------------------------------------------------------------------------
(* Objects that share their scope use one fat lock.                         *)

\* No object has a scope of its own yet.
ScopeIsShared == \A o \in Objects : map[o] = Shared

\* Only the shared scope's lock is used, with the first fat lock of the table.
FirstFatInv ==
  /\ \A t \in Threads : thin[t] \in {NoThin, Shared} /\ fl[t] \in {NoFat, Head(FreeFats)}
  /\ \A p \in ThinLocks \ {Shared} : fat[p] = NoFat
  /\ \/ fat[Shared] = NoFat /\ freeFats = FreeFats
     \/ FreeFats # << >> /\ fat[Shared] = Head(FreeFats) /\ freeFats = Tail(FreeFats)

SharedInv == ScopeIsShared => FirstFatInv

\* A step that gives and takes no fat lock.
LEMMA SharedStep ==
  ASSUME OwnInv, FatInv, FirstFatInv, ScopeIsShared, NEW t \in Threads,
         UNCHANGED <<fat, freeFats>>,
         \/ thin' = thin
         \/ thin' = [thin EXCEPT ![t] = Shared]
         \/ \E o \in Objects : thin' = [thin EXCEPT ![t] = map[o]],
         fl' = fl \/ (fl' = [fl EXCEPT ![t] = fat[thin[t]]] /\ thin[t] \in ThinLocks)
  PROVE  FirstFatInv'
PROOF
  <1>1. \A u \in Threads : thin'[u] \in {NoThin, Shared}
    BY DEF FirstFatInv, ScopeIsShared, OwnInv, Types
  <1>2. \A u \in Threads : fl'[u] \in {NoFat, Head(FreeFats)}
    BY DEF FirstFatInv, FatInv, FatTypes
  <1> QED  BY <1>1, <1>2 DEF FirstFatInv

\* No object goes back to the shared scope.
LEMMA SharedBefore ==
  ASSUME OwnInv, [ScopeNext]_vars, ScopeIsShared'
  PROVE  /\ ScopeIsShared
         /\ \A t \in Threads : ~GetMutableScope(t)
PROOF
  <1>1. \A o \in Objects : OwnScope[o] \in ThinLocks \ {Shared}
    BY ScopeAssumption
  <1>2. ASSUME NEW t \in Threads, GetMutableScope(t)  PROVE FALSE
    <2>1. obj[t] \in Objects /\ map' = [map EXCEPT ![obj[t]] = OwnScope[obj[t]]]
      BY <1>2 DEF GetMutableScope, At, OwnInv, ThreadInv, InHand
    <2>2. map'[obj[t]] # Shared
      BY <1>1, <2>1 DEF OwnInv, Types
    <2> QED  BY <2>1, <2>2 DEF ScopeIsShared
  <1>3. map' = map
    BY <1>2 DEF ScopeNext, ScopeBegins, ScopeWrites, ScopeGoesOn, vars, LockObj, GetSlot,
                LockObjAgain, ReadScope, LockScope, LockObjReturns, LockObjRetries, UnlockObj,
                Unlocked, SlotFast, SlotReturns, SlotSlow, ReenterScope, ScopeLocked, UnlockScope,
                TransferScopeLock, scopeVars
  <1> QED  BY <1>2, <1>3 DEF ScopeIsShared

LEMMA NextSharedInv ==
  ProgramKnown /\ OwnInv /\ FatInv /\ SharedInv /\ [ScopeNext]_vars => SharedInv'
PROOF
  <1> SUFFICES ASSUME ProgramKnown, OwnInv, FatInv, SharedInv, [ScopeNext]_vars, ScopeIsShared'
               PROVE  FirstFatInv'
    BY DEF SharedInv
  <1>2. \A t \in Threads : ~GetMutableScope(t)
    BY SharedBefore
  <1>4. ScopeIsShared /\ FirstFatInv
    BY SharedBefore DEF SharedInv
  <1>5. CASE UNCHANGED vars
    BY <1>4, <1>5 DEF vars, thinVars, fatVars, FirstFatInv
  <1>6. ASSUME NEW t \in Threads,
               \/ \E o \in Objects : LockObj(t, o) \/ GetSlot(t, o)
               \/ LockObjAgain(t) \/ ReadScope(t) \/ LockScope(t) \/ LockObjReturns(t)
               \/ LockObjRetries(t) \/ UnlockObj(t) \/ Unlocked(t)
               \/ SlotFast(t) \/ SlotReturns(t) \/ SlotSlow(t)
               \/ ReenterScope(t) \/ ScopeLocked(t) \/ UnlockScope(t) \/ TransferScopeLock(t)
        PROVE  FirstFatInv'
    <2>1. UNCHANGED <<fat, freeFats, fl>>
      BY <1>6 DEF LockObj, GetSlot, LockObjAgain, ReadScope, LockScope, LockObjReturns,
                  LockObjRetries, UnlockObj, Unlocked, SlotFast, SlotReturns, SlotSlow,
                  ReenterScope, ScopeLocked, UnlockScope, TransferScopeLock, NoThinStep,
                  thinVars, fatVars
    <2>2. ReadScope(t) \/ UnlockObj(t) => obj[t] \in Objects
      BY DEF ReadScope, UnlockObj, Continue, At, OwnInv, ThreadInv, InHand
    <2>3. \/ thin' = thin
          \/ thin' = [thin EXCEPT ![t] = Shared]
          \/ \E o \in Objects : thin' = [thin EXCEPT ![t] = map[o]]
      BY <1>6, <2>2
      DEF LockObj, GetSlot, LockObjAgain, ReadScope, LockScope, LockObjReturns,
          LockObjRetries, UnlockObj, Unlocked, SlotFast, SlotReturns, SlotSlow,
          ReenterScope, ScopeLocked, UnlockScope, TransferScopeLock, ChooseLock,
          thinVars, scopeVars
    <2> QED  BY <1>4, <2>1, <2>3, SharedStep
  <1>7. ASSUME NEW t \in Threads, SetWait(t)  PROVE FirstFatInv'
    <2>1. thin[t] = Shared /\ UNCHANGED <<thin, fl>>
      BY <1>4, <1>7, ThinAssumption
      DEF SetWait, Continue, At, OwnInv, ThreadInv, InHand, Wanting, EnqueuePcs, FirstFatInv
    <2>2. CASE fat[Shared] = NoFat
      <3>1. /\ freeFats = FreeFats /\ FreeFats # << >>
            /\ fat' = [fat EXCEPT ![Shared] = Head(FreeFats)] /\ freeFats' = Tail(FreeFats)
        BY <1>4, <1>7, <2>1, <2>2, ThinAssumption DEF SetWait, FirstFatInv
      <3> QED  BY <1>4, <2>1, <3>1, ScopeAssumption DEF FirstFatInv, FatInv, FatTypes
    <2>3. CASE fat[Shared] # NoFat
      BY <1>4, <1>7, <2>1, <2>3, SharedStep DEF SetWait, fatVars
    <2> QED  BY <2>2, <2>3
  <1>8. ASSUME NEW t \in Threads, EmptyFatlock(t)  PROVE FirstFatInv'
    <2>1. thin[t] = Shared /\ UNCHANGED <<thin, fl>> /\ pc[t] = "emptying"
      BY <1>4, <1>8, ThinAssumption
      DEF EmptyFatlock, Continue, At, OwnInv, ThreadInv, InHand, Wanting, EnqueuePcs, FirstFatInv
    <2>2. CASE NobodySuspended(fl[t])
      <3>1. fl[t] = Head(FreeFats) /\ fat[Shared] # NoFat
        BY <1>4, <2>1, ThinAssumption DEF FatInv, FatThreadInv, InFat, FirstFatInv
      <3>2. <<Head(FreeFats)>> \o Tail(FreeFats) = FreeFats
        BY <1>4, <3>1, ThinAssumption DEF FirstFatInv
      <3>3. freeFats' = FreeFats /\ fat' = [fat EXCEPT ![Shared] = NoFat]
        BY <1>4, <1>8, <2>1, <2>2, <3>1, <3>2 DEF EmptyFatlock, FirstFatInv
      <3> QED  BY <1>4, <2>1, <3>3, ScopeAssumption DEF FirstFatInv, FatInv, FatTypes
    <2>3. CASE ~NobodySuspended(fl[t])
      BY <1>4, <1>8, <2>1, <2>3, SharedStep DEF EmptyFatlock, fatVars
    <2> QED  BY <2>2, <2>3
  <1>9. ASSUME NEW t \in Threads, ThinGoesOn(t), ~SetWait(t), ~EmptyFatlock(t)
        PROVE  FirstFatInv'
    <2>1. UNCHANGED <<fat, freeFats, thin>>
      BY <1>9 DEF ThinGoesOn, LockFast, LockSlow, EnqueueLocks, EnqueueTakes, EnqueueReturns,
                  EnqueueUnlocks, SuspendThread, SuspendLocks, SuspendCounts, SuspendWoken,
                  SuspendReturns, EnqueueRelocks, NothingToEmpty, EmptyLocks, EmptyReturns,
                  UnlockFast, UnlockSlow, DequeueLocks, Release0, ResumeThread, ResumeLocks,
                  ResumeNotifies, ResumeReturns, DequeueReturns, thinVars, fatVars
    <2>2. SuspendThread(t) \/ EmptyLocks(t) \/ ResumeThread(t) => thin[t] \in ThinLocks
      BY DEF SuspendThread, EmptyLocks, ResumeThread, Continue, At, OwnInv, ThreadInv, InHand,
             Wanting, EnqueuePcs, Past
    <2>3. fl' = fl \/ (fl' = [fl EXCEPT ![t] = fat[thin[t]]] /\ thin[t] \in ThinLocks)
      BY <1>9, <2>2
      DEF ThinGoesOn, LockFast, LockSlow, EnqueueLocks, EnqueueTakes, EnqueueReturns,
          EnqueueUnlocks, SuspendThread, SuspendLocks, SuspendCounts, SuspendWoken,
          SuspendReturns, EnqueueRelocks, NothingToEmpty, EmptyLocks, EmptyReturns,
          UnlockFast, UnlockSlow, DequeueLocks, Release0, ResumeThread, ResumeLocks,
          ResumeNotifies, ResumeReturns, DequeueReturns, thinVars, ReadFat
    <2> QED  BY <1>4, <2>1, <2>3, SharedStep
  <1>10. ASSUME NEW t \in Threads, ScopeBegins(t)  PROVE FirstFatInv'
    <2>1. program.objects \subseteq Objects
      BY ScopeAssumption DEF ProgramKnown
    <2> QED  BY <1>6, <1>10, <2>1 DEF ScopeBegins
  <1>11. ASSUME NEW t \in Threads, ScopeWrites(t) \/ ScopeGoesOn(t)  PROVE FirstFatInv'
    BY <1>2, <1>6, <1>7, <1>8, <1>9, <1>11 DEF ScopeWrites, ScopeGoesOn
  <1> QED  BY <1>5, <1>10, <1>11 DEF ScopeNext

\* As long as no object has a scope of its own, which takes a property added or
\* changed in it, every suspension is in time, and no released lock is left to
\* suspended threads, however many threads there are.
THEOREM SpecSharedScope == ScopeSpec => [](ScopeIsShared => SuspensionsInTime /\ FreeLockIsWanted)
PROOF
  <1>1. ScopeInit => SharedInv
    BY ScopeAssumption DEF ScopeInit, ThinInit, SharedInv, FirstFatInv
  <1>2. ScopeSpec => []SharedInv
    BY <1>1, NextSharedInv, SpecProgramKnown, SpecOwnInv, SpecFatInv, PTL DEF ScopeSpec
  <1>3. OwnInv /\ RestInv /\ SharedInv /\ ScopeIsShared => SuspensionsInTime
    <2> SUFFICES ASSUME OwnInv, RestInv, FirstFatInv, NEW t \in Threads, pc[t] = "suspCount"
                 PROVE  \/ fat[thin[t]] = fl[t]
                        \/ fat[thin[t]] = NoFat /\ \A q \in ThinLocks : fat[q] # fl[t]
      BY DEF SharedInv, SuspensionsInTime
    <2>1. thin[t] = Shared /\ fl[t] = Head(FreeFats) /\ fl[t] # NoFat
      BY ThinAssumption DEF FirstFatInv, OwnInv, ThreadInv, InHand, Wanting, EnqueuePcs, RestInv,
                            RestThreadInv, SuspendPcs
    <2> QED  BY <2>1 DEF FirstFatInv
  <1>4. ScopeIsShared' /\ OwnInv /\ [ScopeNext]_vars => ScopeIsShared
    BY SharedBefore
  <1>5. ScopeSpec => [](ScopeIsShared => SleepInv)
    BY <1>2, <1>3, <1>4, InitSleepInv, NextSleepInv, SpecProgramKnown, SpecOwnInv, SpecFatInv,
       SpecRestInv, PTL
    DEF ScopeSpec
  <1> QED  BY <1>2, <1>3, <1>5, SleepersAreHelped, SpecOwnInv, SpecFatInv, SpecRestInv, PTL

-----------------------------------------------------------------------------
(* A suspension comes too late only if a third thread is there.            *)

\* At most two threads make calls.
TwoCallers ==
  \A t, u, v \in Threads :
    program.calls[t] > 0 /\ program.calls[u] > 0 /\ program.calls[v] > 0
      => t = u \/ u = v \/ t = v

\* Who is in a call, or has one to make, is among them.
CallersInv == \A t \in Threads : left[t] > 0 \/ pc[t] # "run" => program.calls[t] > 0

\* Between the reading of p->fat and its use, ...
LatePcs == {"suspLock", "suspCount"}

\* ... what was read is the fat lock of the thin lock until that has none; then
\* it serves no other.
InTime(t) == \/ fat[thin[t]] = fl[t]
             \/ fat[thin[t]] = NoFat /\ \A q \in ThinLocks : fat[q] # fl[t]

TimelyInv == \A t \in Threads : pc[t] \in LatePcs => InTime(t)

\* A step of t leaves the others where they are, with what they have read.
LEMMA StepMovesOne ==
  ASSUME OwnInv, FatInv, NEW t \in Threads, ScopeBegins(t) \/ ScopeWrites(t) \/ ScopeGoesOn(t)
  PROVE  \A u \in Threads \ {t} : pc'[u] = pc[u] /\ thin'[u] = thin[u] /\ fl'[u] = fl[u]
PROOF
  <1>1. \/ \E o \in program.objects : LockObj(t, o) \/ GetSlot(t, o)
        \/ LockObjAgain(t) \/ GetMutableScope(t)
        \/ ReadScope(t) \/ ReenterScope(t) \/ LockScope(t) \/ ScopeLocked(t)
        \/ LockObjReturns(t) \/ LockObjRetries(t) \/ UnlockObj(t) \/ UnlockScope(t)
        \/ Unlocked(t) \/ SlotFast(t) \/ SlotReturns(t) \/ SlotSlow(t) \/ TransferScopeLock(t)
        \/ ThinGoesOn(t)
    BY DEF ScopeBegins, ScopeWrites, ScopeGoesOn
  <1>2. CASE ThinGoesOn(t)
    <2>1. pc' = pc \/ \E to : pc' = [pc EXCEPT ![t] = to]
      BY <1>2
      DEF ThinGoesOn, LockFast, LockSlow, EnqueueLocks, SetWait, EnqueueTakes, EnqueueReturns,
          EnqueueUnlocks, SuspendThread, SuspendLocks, SuspendCounts, SuspendWoken,
          SuspendReturns, EnqueueRelocks, NothingToEmpty, EmptyLocks, EmptyFatlock,
          EmptyReturns, UnlockFast, UnlockSlow, DequeueLocks, Release0, ResumeThread,
          ResumeLocks, ResumeNotifies, ResumeReturns, DequeueReturns, Relock,
          Continue, Lock, Unlock, Wait, WaitEnds, GoTo
    <2>2. thin' = thin /\ (fl' = fl \/ fl' = [fl EXCEPT ![t] = fat[thin[t]]])
      BY <1>2
      DEF ThinGoesOn, LockFast, LockSlow, EnqueueLocks, SetWait, EnqueueTakes, EnqueueReturns,
          EnqueueUnlocks, SuspendThread, SuspendLocks, SuspendCounts, SuspendWoken,
          SuspendReturns, EnqueueRelocks, NothingToEmpty, EmptyLocks, EmptyFatlock,
          EmptyReturns, UnlockFast, UnlockSlow, DequeueLocks, Release0, ResumeThread,
          ResumeLocks, ResumeNotifies, ResumeReturns, DequeueReturns, ReadFat, thinVars
    <2> QED  BY <2>1, <2>2 DEF OwnInv, Types, FatInv, FatTypes
  <1>3. CASE ~ThinGoesOn(t)
    <2>1. \E to : pc' = [pc EXCEPT ![t] = to]
      BY <1>1, <1>3
      DEF LockObj, GetSlot, LockObjAgain, GetMutableScope, ReadScope, ReenterScope, LockScope,
          ScopeLocked, LockObjReturns, LockObjRetries, UnlockObj, UnlockScope, Unlocked,
          SlotFast, SlotReturns, SlotSlow, TransferScopeLock, Continue, GoTo
    <2>2. fl' = fl /\ (thin' = thin \/ \E p : thin' = [thin EXCEPT ![t] = p])
      BY <1>1, <1>3
      DEF LockObj, GetSlot, LockObjAgain, GetMutableScope, ReadScope, ReenterScope, LockScope,
          ScopeLocked, LockObjReturns, LockObjRetries, UnlockObj, UnlockScope, Unlocked,
          SlotFast, SlotReturns, SlotSlow, TransferScopeLock, ChooseLock, NoThinStep, thinVars
    <2> QED  BY <2>1, <2>2 DEF OwnInv, Types
  <1> QED  BY <1>2, <1>3

LEMMA NextCallersInv ==
  OwnInv /\ FatInv /\ RestInv /\ CallersInv /\ [ScopeNext]_vars
    => CallersInv' /\ (TwoCallers' => TwoCallers)
PROOF
  <1> SUFFICES ASSUME OwnInv, FatInv, RestInv, CallersInv, [ScopeNext]_vars
               PROVE  CallersInv' /\ (TwoCallers' => TwoCallers)
    OBVIOUS
  <1>1. program' = program
    BY DEF ScopeNext, ScopeBegins, ScopeWrites, ScopeGoesOn, vars, progVars
  <1>2. CASE UNCHANGED vars
    BY <1>1, <1>2 DEF vars, progVars, clientVars, CallersInv, TwoCallers
  <1>3. ASSUME NEW t \in Threads, ScopeBegins(t) \/ ScopeWrites(t) \/ ScopeGoesOn(t)
        PROVE  CallersInv'
    <2>1. left' = left \/ (left[t] > 0 /\ left' = [left EXCEPT ![t] = @ - 1])
      BY <1>3 DEF ScopeBegins, ScopeWrites, ScopeGoesOn, progVars
    <2>2. left[t] > 0 \/ pc[t] # "run" \/ pc' = pc
      <3>1. CASE ScopeBegins(t)
        BY <3>1 DEF ScopeBegins
      <3>2. CASE ScopeWrites(t)
        BY <3>2 DEF ScopeWrites, LockObjAgain, GetMutableScope, Continue, At
      <3>3. CASE ScopeGoesOn(t) /\ ~ThinGoesOn(t)
        BY <3>3
        DEF ScopeGoesOn, ReadScope, ReenterScope, LockScope, ScopeLocked, LockObjReturns,
            LockObjRetries, UnlockObj, UnlockScope, Unlocked, SlotFast, SlotReturns, SlotSlow,
            TransferScopeLock, Continue, At
      <3>4. CASE ThinGoesOn(t)
        BY <3>4
        DEF ThinGoesOn, LockFast, LockSlow, EnqueueLocks, SetWait, EnqueueTakes, EnqueueReturns,
            EnqueueUnlocks, SuspendThread, SuspendLocks, SuspendCounts, SuspendWoken,
            SuspendReturns, EnqueueRelocks, NothingToEmpty, EmptyLocks, EmptyFatlock,
            EmptyReturns, UnlockFast, UnlockSlow, DequeueLocks, Release0, ResumeThread,
            ResumeLocks, ResumeNotifies, ResumeReturns, DequeueReturns, Relock,
            Continue, Lock, Unlock, Wait, WaitEnds, At
      <3> QED  BY <1>3, <3>1, <3>2, <3>3, <3>4
    <2>3. ASSUME NEW u \in Threads, left'[u] > 0 \/ pc'[u] # "run"
          PROVE  left[u] > 0 \/ pc[u] # "run"
      BY <1>3, <2>1, <2>2, <2>3, StepMovesOne DEF RestInv
    <2> QED  BY <1>1, <2>3 DEF CallersInv
  <1> QED  BY <1>1, <1>2, <1>3 DEF ScopeNext, TwoCallers

\* Who sets a wait bit waits for the word of a caller that wants no other.
LEMMA NoAllocationBetween ==
  ASSUME OwnInv, CallersInv, TwoCallers, NEW t \in Threads, SetWait(t)
  PROVE  \A u \in Threads : pc[u] \notin LatePcs
PROOF
  <1> SUFFICES ASSUME NEW u \in Threads, pc[u] \in LatePcs  PROVE FALSE
    OBVIOUS
  <1>1. pc[t] = "enq" /\ thin[t] \in ThinLocks /\ owner[thin[t]] # NoThread
    BY DEF SetWait, Continue, At, OwnInv, ThreadInv, InHand, Wanting, EnqueuePcs
  <1>2. PICK v \in Threads : owner[thin[t]] = v
    BY <1>1 DEF OwnInv, Types
  <1>3. HasWord(v, thin[t])
    BY <1>1, <1>2 DEF OwnInv, ThreadInv
  <1>4. \A w \in {t, u} : pc[w] \in Wanting /\ depth[w] = 0
    BY <1>1 DEF LatePcs, OwnInv, ThreadInv, Depths, Wanting, EnqueuePcs
  <1>5. v # t /\ v # u /\ t # u
    BY <1>1, <1>3, <1>4 DEF HasWord, Wanting, EnqueuePcs, Bare, Counted, LatePcs
  <1>6. pc[v] # "run"
    BY <1>3 DEF HasWord, Bare, Counted, OwnInv, ThreadInv, Depths
  <1>7. pc[t] # "run" /\ pc[u] # "run"
    BY <1>1 DEF LatePcs
  <1> QED  BY <1>5, <1>6, <1>7 DEF CallersInv, TwoCallers

\* The steps that lead to where what was read is used.
LEMMA LateSteps ==
  ASSUME OwnInv, NEW t \in Threads, ScopeBegins(t) \/ ScopeWrites(t) \/ ScopeGoesOn(t),
         pc'[t] \in LatePcs
  PROVE  \/ SuspendThread(t) \/ SuspendLocks(t)
         \/ pc' = pc /\ UNCHANGED <<thin, fl>>
PROOF
  <1>1. pc \in [Threads -> Pcs] /\ next[t] \notin LatePcs
    BY DEF OwnInv, Types, LatePcs
  <1>2. CASE ThinGoesOn(t)
    BY <1>1, <1>2
    DEF ThinGoesOn, LockFast, LockSlow, EnqueueLocks, SetWait, EnqueueTakes, EnqueueReturns,
        EnqueueUnlocks, SuspendCounts, SuspendWoken, SuspendReturns, EnqueueRelocks,
        NothingToEmpty, EmptyLocks, EmptyFatlock, EmptyReturns, UnlockFast, UnlockSlow,
        DequeueLocks, Release0, ResumeThread, ResumeLocks, ResumeNotifies, ResumeReturns,
        DequeueReturns, Relock, Continue, Lock, Unlock, Wait, WaitEnds, GoTo, LatePcs, thinVars
  <1>3. CASE ~ThinGoesOn(t)
    BY <1>1, <1>3
    DEF ScopeBegins, ScopeWrites, ScopeGoesOn, LockObj, GetSlot, LockObjAgain, GetMutableScope,
        ReadScope, ReenterScope, LockScope, ScopeLocked, LockObjReturns, LockObjRetries,
        UnlockObj, UnlockScope, Unlocked, SlotFast, SlotReturns, SlotSlow, TransferScopeLock,
        Continue, GoTo, LatePcs
  <1> QED  BY <1>2, <1>3

LEMMA NextTimelyInv ==
  OwnInv /\ FatInv /\ RestInv /\ SleepInv /\ CallersInv /\ TwoCallers /\ TimelyInv
  /\ [ScopeNext]_vars
    => TimelyInv'
PROOF
  <1> SUFFICES ASSUME OwnInv, FatInv, RestInv, SleepInv, CallersInv, TwoCallers, TimelyInv,
                      [ScopeNext]_vars
               PROVE  TimelyInv'
    OBVIOUS
  <1>1. CASE UNCHANGED vars
    BY <1>1 DEF vars, clientVars, thinVars, fatVars, TimelyInv, InTime
  <1>2. ASSUME NEW t \in Threads, ScopeBegins(t) \/ ScopeWrites(t) \/ ScopeGoesOn(t)
        PROVE  TimelyInv'
    <2>1. ASSUME NEW u \in Threads \ {t}, pc'[u] \in LatePcs
          PROVE  pc[u] \in LatePcs /\ InTime(u) /\ thin'[u] = thin[u] /\ fl'[u] = fl[u]
      BY <1>2, <2>1, StepMovesOne DEF TimelyInv
    <2>2. CASE SetWait(t)
      <3>1. pc'[t] = "enqUnlock"
        BY <2>2 DEF SetWait, Continue, GoTo, OwnInv, Types
      <3> QED  BY <2>1, <2>2, <3>1, NoAllocationBetween DEF TimelyInv, LatePcs
    <2>3. CASE EmptyFatlock(t)
      <3>1. pc[t] = "emptying" /\ pc'[t] = "emptyUnlock" /\ thin[t] \in ThinLocks
        BY <2>3 DEF EmptyFatlock, Continue, At, GoTo, OwnInv, Types, ThreadInv, InHand, Wanting,
                    EnqueuePcs
      <3>2. fat' = fat \/ fat' = [fat EXCEPT ![thin[t]] = NoFat]
        BY <2>3 DEF EmptyFatlock, fatVars
      <3>3. \A q \in ThinLocks : fat'[q] = fat[q] \/ (q = thin[t] /\ fat'[q] = NoFat)
        BY <3>1, <3>2 DEF FatInv, FatTypes
      <3>4. ASSUME NEW u \in Threads \ {t}, pc'[u] \in LatePcs  PROVE InTime(u)'
        <4>1. thin[u] \in ThinLocks /\ InTime(u) /\ thin'[u] = thin[u] /\ fl'[u] = fl[u]
          BY <2>1, <3>4 DEF LatePcs, OwnInv, ThreadInv, InHand, Wanting, EnqueuePcs
        <4>2. fl[u] # NoFat
          BY <2>1, <3>4, ThinAssumption DEF RestInv, RestThreadInv, SuspendPcs, LatePcs
        <4> QED  BY <3>3, <4>1, <4>2 DEF InTime, SleepInv, FatsApart
      <3> QED  BY <3>1, <3>4 DEF TimelyInv, LatePcs
    <2>4. CASE ~SetWait(t) /\ ~EmptyFatlock(t)
      <3>1. fat' = fat
        BY <1>2, <2>4
        DEF ScopeBegins, ScopeWrites, ScopeGoesOn, LockObj, GetSlot, LockObjAgain,
            GetMutableScope, ReadScope, ReenterScope, LockScope, ScopeLocked, LockObjReturns,
            LockObjRetries, UnlockObj, UnlockScope, Unlocked, SlotFast, SlotReturns, SlotSlow,
            TransferScopeLock, NoThinStep, ThinGoesOn, LockFast, LockSlow, EnqueueLocks,
            EnqueueTakes, EnqueueReturns, EnqueueUnlocks, SuspendThread, SuspendLocks,
            SuspendCounts, SuspendWoken, SuspendReturns, EnqueueRelocks, NothingToEmpty,
            EmptyLocks, EmptyReturns, UnlockFast, UnlockSlow, DequeueLocks, Release0,
            ResumeThread, ResumeLocks, ResumeNotifies, ResumeReturns, DequeueReturns, thinVars,
            fatVars
      <3>2. ASSUME NEW u \in Threads \ {t}, pc'[u] \in LatePcs  PROVE InTime(u)'
        BY <2>1, <3>1, <3>2 DEF InTime
      <3>3. CASE pc'[t] \notin LatePcs
        BY <3>2, <3>3 DEF TimelyInv
      <3>4. CASE pc'[t] \in LatePcs
        <4>1. \/ SuspendThread(t) \/ SuspendLocks(t)
              \/ pc' = pc /\ UNCHANGED <<thin, fl>>
          BY <1>2, <2>4, <3>4, LateSteps
        <4>2. CASE SuspendThread(t)
          <5>1. fl'[t] = fat[thin[t]] /\ thin' = thin
            BY <4>2 DEF SuspendThread, ReadFat, FatInv, FatTypes
          <5>2. InTime(t)'
            BY <3>1, <5>1 DEF InTime
          <5> QED  BY <3>2, <5>2 DEF TimelyInv
        <4>3. CASE SuspendLocks(t)
          <5>1. pc[t] \in LatePcs /\ UNCHANGED <<fl, thin>>
            BY <4>3 DEF SuspendLocks, Lock, At, thinVars, LatePcs
          <5>2. InTime(t)'
            BY <3>1, <5>1 DEF TimelyInv, InTime
          <5> QED  BY <3>2, <5>2 DEF TimelyInv
        <4>4. CASE pc' = pc /\ UNCHANGED <<thin, fl>>
          BY <3>1, <4>4 DEF TimelyInv, InTime
        <4> QED  BY <4>1, <4>2, <4>3, <4>4
      <3> QED  BY <3>3, <3>4
    <2> QED  BY <2>2, <2>3, <2>4
  <1> QED  BY <1>1, <1>2 DEF ScopeNext

\* While at most two threads call, every suspension is in time, and no released
\* lock is left to suspended threads, whatever scopes the objects get: a fat lock
\* is given out only to a thread that finds the word taken, by another one, so
\* that a third one must be in js_SuspendThread to come too late.
THEOREM SpecTwoCallers == ScopeSpec => [](TwoCallers => SuspensionsInTime /\ FreeLockIsWanted)
PROOF
  <1>1. ScopeInit => CallersInv /\ TimelyInv
    BY DEF ScopeInit, CallersInv, TimelyInv, LatePcs
  <1>2. TimelyInv => SuspensionsInTime
    BY DEF TimelyInv, InTime, SuspensionsInTime, LatePcs
  <1>3. ScopeSpec => [](CallersInv /\ (TwoCallers => SleepInv /\ TimelyInv))
    BY <1>1, <1>2, NextCallersInv, NextTimelyInv, InitSleepInv, NextSleepInv, SpecProgramKnown,
       SpecOwnInv, SpecFatInv, SpecRestInv, PTL
    DEF ScopeSpec
  <1> QED  BY <1>2, <1>3, SleepersAreHelped, SpecOwnInv, SpecFatInv, SpecRestInv, PTL
=============================================================================
