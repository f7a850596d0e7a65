------------------------------- MODULE JsScope -------------------------------
(***************************************************************************)
(* The locks of JavaScript objects, jslock.c and jsscope.c: an object is      *)
(* locked by the thin lock of its scope, which it may share with others, and  *)
(* whoever has it locked may give it a scope of its own.                    *)
(***************************************************************************)
EXTENDS JsThinLock

CONSTANTS Objects,    \* the objects
          Shared,     \* the scope they share at first, that of their prototype
          OwnScope,   \* the scope js_NewScope makes for an object
          NoObject,   \* "has no object in hand"
          MaxDepth,   \* bound: how often a thread locks an object
          Programs    \* the programs: how many calls each thread makes, on
                      \* which objects, and which threads are writers, that
                      \* lock an object again, or mutate it, once they have it

\* A scope names its lock, too.
ASSUME ScopeAssumption ==
  /\ Shared \in ThinLocks
  /\ OwnScope \in [Objects -> ThinLocks \ {Shared}]
  /\ \A o1, o2 \in Objects : OwnScope[o1] = OwnScope[o2] => o1 = o2
  /\ NoObject \notin Objects
  /\ MaxDepth \in Nat \ {0}
  /\ Programs \subseteq [calls   : [Threads -> Nat],
                         objects : SUBSET Objects,
                         writers : SUBSET Threads]

VARIABLES map,     \* obj->map
          count,   \* scope->count
          obj,     \* the object a thread locks or has locked
          depth,   \* history: how often it has locked it
          next,    \* where it goes on when it has unlocked a scope
          program, \* the program that runs
          left     \* bound: how many calls a thread still makes

scopeVars == <<map, count, obj, depth, next>>
progVars  == <<program, left>>

vars == <<clientVars, thinVars, scopeVars, progVars>>

ScopePcs == {"run", "lockObj", "lockScope", "check", "inside", "slot",
             "slotHeld", "mutated", "unlockScope"}

ScopeInit == /\ ACvInit /\ ThinInit
             /\ pc = [t \in Threads |-> "run"]
             /\ map = [o \in Objects |-> Shared]
             /\ count = [s \in ThinLocks |-> 0]
             /\ obj = [t \in Threads |-> NoObject]
             /\ depth = [t \in Threads |-> 0]
             /\ next = [t \in Threads |-> "run"]
             /\ program \in Programs
             /\ left = program.calls

-----------------------------------------------------------------------------
(* Slips.                                                                  *)

\* js_LockObj does not look again at obj->map once it has the lock.
SlipNoRetry(t) == TRUE

\* js_TransferScopeLock lets the new scope keep the count of its own.
SlipKeepCount(t) == 1

-----------------------------------------------------------------------------
Becomes(t, where) == next' = [next EXCEPT ![t] = where]

ChooseLock(t, p) == thin' = [thin EXCEPT ![t] = p]

NoThinStep == UNCHANGED <<wordVars, fatVars, meWait, fl>>

\* js_LockObj.
LockObj(t, o) == /\ Continue(t, "run", "lockObj")
                 /\ obj' = [obj EXCEPT ![t] = o]
                 /\ UNCHANGED <<thinVars, map, count, depth, next>>

LockObjAgain(t) == /\ depth[t] < MaxDepth
                   /\ Continue(t, "inside", "lockObj")
                   /\ UNCHANGED <<thinVars, scopeVars>>

\* scope = obj->map, without a lock.
ReadScope(t) == /\ Continue(t, "lockObj", "lockScope")
                /\ ChooseLock(t, map[obj[t]])
                /\ NoThinStep
                /\ UNCHANGED scopeVars

\* js_LockScope1: the owner counts, others lock.
ReenterScope(t) == /\ Continue(t, "lockScope", "check")
                   /\ owner[thin[t]] = t
                   /\ count' = [count EXCEPT ![thin[t]] = @ + 1]
                   /\ UNCHANGED <<thinVars, map, obj, depth, next>>

LockScope(t) == /\ Continue(t, "lockScope", "lock")
                /\ owner[thin[t]] # t
                /\ UNCHANGED <<thinVars, scopeVars>>

ScopeLocked(t) == /\ Continue(t, "held", "check")
                  /\ count' = [count EXCEPT ![thin[t]] = 1]
                  /\ UNCHANGED <<thinVars, map, obj, depth, next>>

StillItsScope(t) == thin[t] = map[obj[t]]

LockObjReturns(t) == /\ Continue(t, "check", "inside")
                     /\ StillItsScope(t)
                     /\ depth' = [depth EXCEPT ![t] = @ + 1]
                     /\ UNCHANGED <<thinVars, map, count, obj, next>>

\* "Lost a race with a mutator; retry with obj's new scope."
LockObjRetries(t) == /\ At(t, "check")
                     /\ ~StillItsScope(t)
                     /\ Continue(t, "check", "unlockScope")
                     /\ Becomes(t, "lockObj")
                     /\ UNCHANGED <<thinVars, map, count, obj, depth>>

\* js_UnlockObj reads obj->map again.
UnlockObj(t) == /\ Continue(t, "inside", "unlockScope")
                /\ ChooseLock(t, map[obj[t]])
                /\ depth' = [depth EXCEPT ![t] = @ - 1]
                /\ Becomes(t, IF depth[t] = 1 THEN "run" ELSE "inside")
                /\ NoThinStep
                /\ UNCHANGED <<map, count, obj>>

UnlockScope(t) == LET s == thin[t] IN
  /\ At(t, "unlockScope")
  /\ Continue(t, "unlockScope", IF count[s] = 1 THEN "unlock" ELSE "unlocked")
  /\ count' = [count EXCEPT ![s] = @ - 1]
  /\ UNCHANGED <<thinVars, map, obj, depth, next>>

Unlocked(t) == /\ At(t, "unlocked")
               /\ Continue(t, "unlocked", next[t])
               /\ obj' = [obj EXCEPT ![t] = IF next[t] = "run" THEN NoObject ELSE @]
               /\ UNCHANGED <<thinVars, map, count, depth, next>>

-----------------------------------------------------------------------------
\* js_GetSlotWhileLocked and js_SetSlotWhileLocked: scp = obj->map, ...
GetSlot(t, o) == /\ Continue(t, "run", "slot")
                 /\ obj' = [obj EXCEPT ![t] = o]
                 /\ ChooseLock(t, map[o])
                 /\ NoThinStep
                 /\ UNCHANGED <<map, count, depth, next>>

\* ... the lock is taken if it is free, without a count, ...
SlotFast(t) == /\ Continue(t, "slot", "slotHeld")
               /\ owner[thin[t]] = NoThread
               /\ SetWord(thin[t], t, FALSE)
               /\ UNCHANGED <<fatVars, thin, meWait, fl, scopeVars>>

\* ... and given back after the access.  If it was that of an earlier scope, or
\* is taken, js_LockObj follows.
SlotReturns(t) == /\ At(t, "slotHeld")
                  /\ Continue(t, "slotHeld", "unlock")
                  /\ Becomes(t, IF StillItsScope(t) THEN "run" ELSE "lockObj")
                  /\ UNCHANGED <<thinVars, map, count, obj, depth>>

SlotSlow(t) == /\ Continue(t, "slot", "lockObj")
               /\ owner[thin[t]] # NoThread
               /\ UNCHANGED <<thinVars, scopeVars>>

-----------------------------------------------------------------------------
\* js_GetMutableScope: a new scope, locked before the object has it ...
GetMutableScope(t) == LET s == OwnScope[obj[t]] IN
  /\ At(t, "inside")
  /\ map[obj[t]] = Shared
  /\ Continue(t, "inside", "mutated")
  /\ SetWord(s, t, FALSE)
  /\ count' = [count EXCEPT ![s] = 1]
  /\ map' = [map EXCEPT ![obj[t]] = s]
  /\ UNCHANGED <<fatVars, thin, meWait, fl, obj, depth, next>>

OldCount(t) == count[Shared]

\* ... and js_TransferScopeLock.
TransferScopeLock(t) ==
  /\ Continue(t, "mutated", "unlock")
  /\ ChooseLock(t, Shared)
  /\ count' = [count EXCEPT ![OwnScope[obj[t]]] = OldCount(t), ![Shared] = 0]
  /\ Becomes(t, "inside")
  /\ NoThinStep
  /\ UNCHANGED <<map, obj, depth>>

-----------------------------------------------------------------------------
ScopeBegins(t) ==
  /\ left[t] > 0
  /\ left' = [left EXCEPT ![t] = @ - 1]
  /\ UNCHANGED program
  /\ \E o \in program.objects : LockObj(t, o) \/ GetSlot(t, o)

ScopeWrites(t) == /\ t \in program.writers
                  /\ LockObjAgain(t) \/ GetMutableScope(t)
                  /\ UNCHANGED progVars

ScopeGoesOn(t) ==
  /\ \/ ReadScope(t) \/ ReenterScope(t) \/ LockScope(t) \/ ScopeLocked(t)
     \/ LockObjReturns(t) \/ LockObjRetries(t)
     \/ UnlockObj(t) \/ UnlockScope(t) \/ Unlocked(t)
     \/ SlotFast(t) \/ SlotReturns(t) \/ SlotSlow(t)
     \/ TransferScopeLock(t)
     \/ ThinGoesOn(t) /\ UNCHANGED scopeVars
  /\ UNCHANGED progVars

ScopeNext ==
  \E t \in Threads : ScopeBegins(t) \/ ScopeWrites(t) \/ ScopeGoesOn(t)

ScopeSpec == ScopeInit /\ [][ScopeNext]_vars

\* A thread that has begun a call is scheduled, and unlocks what it has locked.
ScopeFairSpec == ScopeSpec /\ \A t \in Threads : WF_vars(ScopeGoesOn(t))

-----------------------------------------------------------------------------
ScopeTypeOK == /\ ACvTypeOK /\ ThinTypeOK
               /\ pc \in [Threads -> ScopePcs \cup ThinPcs]
               /\ map \in [Objects -> ThinLocks]
               /\ count \in [ThinLocks -> 0..MaxDepth]
               /\ obj \in [Threads -> Objects \cup {NoObject}]
               /\ depth \in [Threads -> 0..MaxDepth]
               /\ next \in [Threads -> {"run", "lockObj", "inside"}]
               /\ program \in Programs
               /\ left \in [Threads -> Nat]

\* Inside js_LockObj and js_UnlockObj of an object, or about to read its slot.
InObject(t, o) == /\ obj[t] = o
                  /\ \/ pc[t] = "inside"
                     \/ pc[t] = "slotHeld" /\ StillItsScope(t)

\* Whoever has locked an object has it alone, whatever scope it, and those who
\* come, found; and is the owner of the scope the object has now, as often.
ObjectsAreLocked ==
  \A t \in Threads, o \in Objects : InObject(t, o) =>
    /\ \A u \in Threads \ {t} : ~InObject(u, o)
    /\ owner[map[o]] = t
    /\ count[map[o]] = depth[t]

\* If threads want a lock, some thread gets it: none is suspended for good.
SomebodyGetsLock ==
  \A p \in ThinLocks :
    (\E t \in Threads : thin[t] = p /\ pc[t] \in EnqueuePcs) ~>
    (\E t \in Threads : owner[p] = t)
=============================================================================
