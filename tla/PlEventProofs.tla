---------------------------- MODULE PlEventProofs ----------------------------
(***************************************************************************)
(* Proofs about PlEvent, for any threads, events, monitors and owners: the    *)
(* cache of prcmon.c keeps a monitor for an address as long as somebody uses  *)
(* it, whoever is interrupted; and, if no poster of a synchronous event is    *)
(* interrupted, an event is destroyed once, a synchronous post returns        *)
(* the answer to it, and nobody waits in a circle for monitors or answers.    *)
(***************************************************************************)
EXTENDS PlEvent, FiniteSetTheorems, SequenceTheorems, TLAPS

-----------------------------------------------------------------------------
(* Monitors, the cache and who uses it.                                    *)

Pcs == {"run", "loopWaiting"} \cup PostPcs \cup SyncPcs \cup HandlePcs \cup RevokePcs

\* Where a thread has entered the queue's monitor for the call it makes, ...
QueuePcs == {"postAppend", "postExit", "syncAppend", "syncPosted", "getEvent", "loopWait",
             "gotEvent", "leaveLoop", "revoking", "revEnter", "revSet", "revExit"}

\* ... has entered the monitor of its event, ...
EnteredPcs == {"syncBegin", "syncPost", "syncAppend", "syncPosted", "syncGiveUp",
               "syncCWait", "syncReenter", "syncResult", "resSet", "resExit", "revSet",
               "revExit"}

\* ... or uses it,
CachedPcs == EnteredPcs \cup {"syncEnter", "resEnter", "revEnter", "syncWait"}

WaitPcs == {"loopWaiting", "syncWait"}

\* has given up the queue's monitor,
AwayPcs == {"syncCWait", "syncWait", "syncReenter"}

\* and is busy with no event.
IdlePcs == {"run", "loopEnter", "getEvent", "loopWait", "loopWaiting", "leaveLoop",
            "revoking"}

\* Where a thread may be if it has a monitor of the cache, ...
HoldPcs == EnteredPcs \cup {"syncWait"}

\* ... where the handler has the queue's, and where not.
LookPcs == {"getEvent", "loopWait", "gotEvent", "leaveLoop"}

FreePcs == {"loopEnter", "handle", "handled", "resEnter", "resSet", "resExit"}

CacheMonitors == {FreeList[i] : i \in DOMAIN FreeList}

Users(e) == {t \in Threads : pc[t] \in CachedPcs /\ event[t] = e}

InUse == {e \in Events : cached[e] # NoMonitor}

\* Each monitor of the cache is free or that of one address.
CacheInv ==
  /\ cached \in [Events -> CacheMonitors \cup {NoMonitor}]
  /\ freeEntries \in Seq(CacheMonitors)
  /\ \A i, j \in DOMAIN freeEntries : freeEntries[i] = freeEntries[j] => i = j
  /\ \A e \in Events, i \in DOMAIN freeEntries : freeEntries[i] # cached[e]
  /\ \A e, f \in InUse : cached[e] = cached[f] => e = f
  /\ Len(freeEntries) + Cardinality(InUse) = Len(FreeList)

\* An entry counts its users.
UsersInv ==
  \A e \in Events : /\ IsFiniteSet(Users(e))
                    /\ cacheEntryCount[e] = Cardinality(Users(e))
                    /\ cached[e] = NoMonitor <=> Users(e) = {}
                    /\ \A t \in Users(e) : mon[t] = cached[e]

\* Where a thread is says what it waits for, ...
WaitInv(t) ==
  /\ phase[t] # "out" <=> pc[t] \in WaitPcs
  /\ pc[t] = "loopWaiting" => on[t] = MonCvar[QueueMonitor]
  /\ pc[t] = "syncWait" => on[t] = MonCvar[mon[t]]
  /\ pc[t] \in WaitPcs => savedCount[t] > 0

\* ... which monitors it has entered, ...
HeldInv(t) ==
  /\ pc[t] \in CachedPcs => mon[t] \in CacheMonitors
  /\ pc[t] \in EnteredPcs => holder[mon[t]] = t
  /\ pc[t] \in QueuePcs => holder[QueueMonitor] = t
  /\ phase[t] = "back" => holder[CvLock[on[t]]] = t
  /\ \A m \in Monitors : holder[m] = t =>
       entryCount[m] > 0 \/ (phase[t] = "back" /\ on[t] = MonCvar[m])

\* ... and how often the queue's.
OuterInv(t) ==
  /\ phase[t] = "out" /\ holder[QueueMonitor] = t
       => entryCount[QueueMonitor] <= MaxEntries + 1
  /\ phase[t] = "out" /\ holder[QueueMonitor] = t /\ pc[t] \notin QueuePcs
       => entryCount[QueueMonitor] <= MaxEntries
  /\ pc[t] \in {"syncPost", "syncGiveUp"}
       => outer[t] = GetMonitorEntryCount(t, QueueMonitor)
  /\ pc[t] \in {"syncAppend", "syncPosted"} => entryCount[QueueMonitor] = outer[t] + 1
  /\ pc[t] \in AwayPcs => holder[QueueMonitor] # t
  /\ pc[t] = "loopWaiting" => savedCount[t] <= MaxEntries + 1

\* A thread has entered no other monitor of the cache than that of its event, and
\* that once; the handler has entered the queue's once, while it looks for events,
\* and left it before it handles one.
OwnInv(t) ==
  /\ \A m \in Monitors \ {QueueMonitor} : holder[m] = t =>
       /\ pc[t] \in HoldPcs /\ mon[t] = m
       /\ phase[t] = "back" \/ (phase[t] = "out" /\ entryCount[m] = 1)
  /\ pc[t] \in WaitPcs => savedCount[t] = 1
  /\ pc[t] \in LookPcs => entryCount[QueueMonitor] = 1
  /\ pc[t] \in FreePcs => holder[QueueMonitor] # t

ThreadInv(t) == /\ event[t] = NoEvent <=> pc[t] \in IdlePcs
                /\ WaitInv(t) /\ HeldInv(t) /\ OuterInv(t) /\ OwnInv(t)

\* The inductive invariant.
EvIInv == EvTypeOK /\ CacheInv /\ UsersInv /\ \A t \in Threads : ThreadInv(t)

-----------------------------------------------------------------------------
(* The way of an event.                                                    *)

\* No thread that may wait for an answer is interrupted.  (PL_PostSynchronousEvent
\* waits once and takes any return for the answer.)
PostersAreNotInterrupted == Interruptible \cap SyncPosters = {}

\* It is in the hands of its poster, ...
PostingPcs == {"postEnter", "postAppend", "syncLookup", "syncEnter", "syncBegin", "syncPost",
               "syncAppend"}

\* ... or of the handler or somebody who revokes it, ...
TakenPcs == {"gotEvent", "handle", "handled", "resEnter", "resSet", "revEnter", "revSet"}

\* ... who has told the poster.
ToldPcs == {"resExit", "revExit"}

Has(t, e) == pc[t] \in PostingPcs \cup TakenPcs /\ event[t] = e

Queued(e) == \E i \in DOMAIN queue : queue[i] = e

QueuedOnce(e) == \A i, j \in DOMAIN queue : queue[i] = e /\ queue[j] = e => i = j

Taken(e) == \E t \in Threads : pc[t] \in TakenPcs /\ event[t] = e

\* The poster of a synchronous event waits for its answer, or is about to, ...
Asks(t) == \/ pc[t] \in {"syncPosted", "syncGiveUp", "syncCWait"}
           \/ pc[t] = "syncWait" /\ phase[t] = "waiting"

\* ... has been woken, ...
Woken(t) == pc[t] = "syncWait" /\ phase[t] # "waiting"

\* ... and goes on.
Returns(t) == pc[t] \in {"syncReenter", "syncResult"}

Answered(e) == \/ fate[e] = "handled" /\ result[e] = "value"
               \/ fate[e] = "revoked" /\ result[e] = "NULL"

\* Each thread's own.
PosterInv(t) ==
  /\ pc[t] \in PostPcs \cup SyncPcs => t \in Posters /\ event[t] = EventOf[t]
  /\ pc[t] \in SyncPcs => t \in SyncPosters
  /\ t \in SyncPosters => ~interrupted[t]

FateInv(t) ==
  /\ pc[t] \in PostingPcs \cup {"gotEvent", "handle", "revEnter", "revSet"}
       => fate[event[t]] = "new"
  /\ pc[t] \in {"handled", "resEnter", "resSet", "resExit"} => fate[event[t]] = "handled"
  /\ pc[t] = "revExit" => fate[event[t]] = "revoked"
  /\ pc[t] \in {"postEnter", "postAppend"} => result[event[t]] = "NULL"
  /\ pc[t] \in {"syncPost", "syncAppend", "resEnter", "resSet", "revEnter", "revSet"}
       => result[event[t]] = "TRUE"
  /\ Asks(t) => fate[event[t]] \in {"new", "handled"} /\ result[event[t]] = "TRUE"
  /\ Woken(t) \/ Returns(t) => Answered(event[t])
  /\ pc[t] = "syncDestroy" => fate[event[t]] # "none"

\* An event is in one place, ...
PlaceInv(e) ==
  /\ QueuedOnce(e)
  /\ \A t, u \in Threads : Has(t, e) /\ Has(u, e) => t = u
  /\ Queued(e) => fate[e] = "new" /\ \A t \in Threads : ~Has(t, e)

\* ... has an asker unless nobody needs its result, ...
OpenInv(e) ==
  Queued(e) \/ Taken(e) =>
    /\ \/ result[e] = "NULL"
       \/ result[e] = "TRUE" /\ \E t \in Threads : Asks(t) /\ event[t] = e
    /\ \A t \in Threads : event[t] = e => ~Woken(t) /\ ~Returns(t) /\ pc[t] # "syncDestroy"

\* ... who does not go on before the monitor is left.
ToldInv(e) ==
  \A t \in Threads : pc[t] \in ToldPcs /\ event[t] = e =>
    \E u \in Threads : pc[u] = "syncWait" /\ phase[u] = "woken" /\ event[u] = e

EventInv(e) == PlaceInv(e) /\ OpenInv(e) /\ ToldInv(e)

\* The inductive invariant, with EvIInv.
WayInv == /\ \A t \in Threads : PosterInv(t) /\ FateInv(t)
          /\ \A e \in Events : EventInv(e)

-----------------------------------------------------------------------------
(* Locks and conditions: what a step does to those who do not take it.     *)

\* The others keep their places and what they have in hand; some are woken.
OthersStay(t) == \A u \in Threads \ {t} :
  /\ pc'[u] = pc[u] /\ event'[u] = event[u] /\ outer'[u] = outer[u]
  /\ mon'[u] = mon[u] /\ savedCount'[u] = savedCount[u] /\ on'[u] = on[u]
  /\ phase'[u] = phase[u] \/ (phase[u] = "waiting" /\ phase'[u] = "woken")

\* They keep the locks they have, and how often they have entered the monitors.
OwnersStay(t) == \A l \in Locks :
  \/ /\ holder'[l] = holder[l]
     /\ l \in Monitors => entryCount'[l] = entryCount[l]
  \/ holder[l] \in {t, NoThread} /\ holder'[l] \in {t, NoThread}

LEMMA CacheMonitorsAreMonitors ==
  /\ CacheMonitors \subseteq Monitors /\ QueueMonitor \in Monitors
  /\ QueueMonitor \notin CacheMonitors /\ Monitors \subseteq Locks
  /\ NoMonitor \notin CacheMonitors
  /\ \A m \in Monitors : MonCvar[m] \in CVars /\ CvLock[MonCvar[m]] = m
BY MonitorAssumption, EventAssumption DEF CacheMonitors

LEMMA OthersKeepInv ==
  ASSUME EvIInv, NEW t \in Threads, OthersStay(t), OwnersStay(t), NEW u \in Threads \ {t}
  PROVE  ThreadInv(u)'
PROOF
  <1>1. /\ ThreadInv(u) /\ u # NoThread
        /\ pc'[u] = pc[u] /\ event'[u] = event[u] /\ outer'[u] = outer[u]
        /\ mon'[u] = mon[u] /\ savedCount'[u] = savedCount[u] /\ on'[u] = on[u]
        /\ phase'[u] = phase[u] \/ (phase[u] = "waiting" /\ phase'[u] = "woken")
    BY ACvAssumption DEF EvIInv, OthersStay
  <1>2. \A l \in Locks : /\ holder'[l] = u <=> holder[l] = u
                         /\ holder[l] = u /\ l \in Monitors => entryCount'[l] = entryCount[l]
    BY <1>1 DEF OwnersStay
  <1>3. WaitInv(u)'
    BY <1>1 DEF ThreadInv, WaitInv
  <1>4. HeldInv(u)'
    <2>1. phase[u] = "back" => holder'[CvLock[on[u]]] = u
      <3>1. phase[u] = "back" => on[u] \in {MonCvar[m] : m \in Monitors}
        BY <1>1, CacheMonitorsAreMonitors DEF ThreadInv, WaitInv, HeldInv, WaitPcs, CachedPcs
      <3> QED  BY <1>1, <1>2, <3>1, CacheMonitorsAreMonitors DEF ThreadInv, HeldInv
    <2>2. pc[u] \in EnteredPcs => holder'[mon[u]] = u
      BY <1>1, <1>2, CacheMonitorsAreMonitors DEF ThreadInv, HeldInv, CachedPcs
    <2>3. pc[u] \in QueuePcs => holder'[QueueMonitor] = u
      BY <1>1, <1>2, CacheMonitorsAreMonitors DEF ThreadInv, HeldInv
    <2>4. \A m \in Monitors : holder'[m] = u =>
            entryCount'[m] > 0 \/ (phase[u] = "back" /\ on[u] = MonCvar[m])
      BY <1>1, <1>2, CacheMonitorsAreMonitors DEF ThreadInv, HeldInv
    <2> QED  BY <1>1, <2>1, <2>2, <2>3, <2>4 DEF ThreadInv, HeldInv
  <1>5. OuterInv(u)'
    <2>1. QueueMonitor \in Locks \cap Monitors
      BY CacheMonitorsAreMonitors
    <2>2. GetMonitorEntryCount(u, QueueMonitor)' = GetMonitorEntryCount(u, QueueMonitor)
      BY <1>2, <2>1 DEF GetMonitorEntryCount
    <2>3. pc[u] \in {"syncAppend", "syncPosted"} => holder[QueueMonitor] = u
      BY <1>1 DEF ThreadInv, HeldInv, QueuePcs
    <2> QED  BY <1>1, <1>2, <2>1, <2>2, <2>3 DEF ThreadInv, OuterInv
  <1>6. OwnInv(u)'
    <2>1. \A m \in Monitors : m \in Locks
      BY CacheMonitorsAreMonitors
    <2>2. pc[u] \in LookPcs => holder[QueueMonitor] = u
      BY <1>1 DEF ThreadInv, HeldInv, LookPcs, QueuePcs
    <2> QED  BY <1>1, <1>2, <2>1, <2>2, CacheMonitorsAreMonitors DEF ThreadInv, OwnInv
  <1> QED  BY <1>1, <1>3, <1>4, <1>5, <1>6 DEF ThreadInv

\* A step that leaves the cache and its users alone.
LEMMA PlainStep ==
  ASSUME EvIInv, NEW t \in Threads, OthersStay(t), OwnersStay(t), EvTypeOK', ThreadInv(t)',
         UNCHANGED <<cacheVars, mon>>, pc[t] \in CachedPcs <=> pc'[t] \in CachedPcs,
         pc[t] \in CachedPcs => event'[t] = event[t]
  PROVE  EvIInv'
PROOF
  <1>1. /\ cached' = cached /\ cacheEntryCount' = cacheEntryCount /\ mon' = mon
        /\ freeEntries' = freeEntries
    BY DEF cacheVars
  <1>2. \A u \in Threads : ThreadInv(u)'
    BY OthersKeepInv
  <1>3. CacheInv'
    BY <1>1 DEF EvIInv, CacheInv, InUse
  <1>4. ASSUME NEW e \in Events  PROVE Users(e)' = Users(e)
    BY DEF Users, OthersStay
  <1>5. UsersInv'
    BY <1>1, <1>4 DEF EvIInv, UsersInv
  <1> QED  BY <1>2, <1>3, <1>5 DEF EvIInv

\* A monitor is entered n times more.
LEMMA EnterEffect ==
  ASSUME EvIInv, NEW t \in Threads, NEW m \in Monitors, NEW n \in Nat, NEW from, NEW to,
         EnterTimes(t, m, n, from, to), UNCHANGED <<event, outer>>
  PROVE  /\ pc[t] = from /\ phase[t] = "out" /\ pc' = [pc EXCEPT ![t] = to]
         /\ UNCHANGED <<savedCount, cacheVars, mon, phase, on, interrupted>>
         /\ holder[m] \in {t, NoThread} /\ holder' = [holder EXCEPT ![m] = t]
         /\ entryCount' = [entryCount EXCEPT ![m] = IF holder[m] = t THEN entryCount[m] + n
                                                                    ELSE n]
         /\ OthersStay(t) /\ OwnersStay(t)
PROOF
  <1>1. t # NoThread /\ m \in Locks
    BY ACvAssumption, MonitorAssumption
  <1>2. /\ holder \in [Locks -> Threads \cup {NoThread}] /\ phase \in [Threads -> Phases]
        /\ pc \in [Threads -> Pcs] /\ entryCount \in [Monitors -> Nat]
    BY DEF EvIInv, EvTypeOK, ACvTypeOK, MonTypeOK, Pcs
  <1>3. pc[t] = from /\ phase[t] = "out" /\ pc' = [pc EXCEPT ![t] = to]
        /\ UNCHANGED <<savedCount, cacheVars, mon>>
    BY DEF EnterTimes, At, GoTo
  <1>4. /\ UNCHANGED <<phase, on, interrupted>>
        /\ holder[m] \in {t, NoThread} /\ holder' = [holder EXCEPT ![m] = t]
        /\ entryCount' = [entryCount EXCEPT ![m] = IF holder[m] = t THEN entryCount[m] + n
                                                                   ELSE n]
    <2>1. CASE holder[m] = t
      <3>1. UNCHANGED acvVars /\ SetCount(m, entryCount[m] + n)
        BY <1>1, <2>1 DEF EnterTimes, Take, Give
      <3> QED  BY <1>1, <1>2, <2>1, <3>1 DEF acvVars, SetCount
    <2>2. CASE holder[m] # t
      <3>1. Take(t, m) /\ SetCount(m, n)
        BY <2>2 DEF EnterTimes
      <3>2. phase' = phase
        BY <1>2, <1>3, <3>1 DEF Take, Give
      <3> QED  BY <1>1, <1>2, <2>2, <3>1, <3>2 DEF Take, Give, SetCount
    <2> QED  BY <2>1, <2>2
  <1>5. OthersStay(t)
    BY <1>2, <1>3, <1>4 DEF OthersStay
  <1>6. OwnersStay(t)
    BY <1>1, <1>2, <1>4 DEF OwnersStay
  <1> QED  BY <1>3, <1>4, <1>5, <1>6

\* A monitor is left n times.
LEMMA LeaveEffect ==
  ASSUME EvIInv, NEW t \in Threads, NEW m \in Monitors, NEW n \in Nat, NEW to,
         LeaveTimes(t, m, n), GoTo(t, to), phase[t] = "out", savedCount' = savedCount,
         \A u \in Threads \ {t} : event'[u] = event[u] /\ outer'[u] = outer[u]
                                  /\ mon'[u] = mon[u]
  PROVE  /\ UNCHANGED <<phase, on, interrupted>> /\ holder[m] = t
         /\ holder' = [holder EXCEPT ![m] = IF entryCount[m] = n THEN NoThread ELSE t]
         /\ entryCount' = [entryCount EXCEPT ![m] = entryCount[m] - n]
         /\ entryCount[m] > 0 /\ OthersStay(t) /\ OwnersStay(t)
PROOF
  <1>1. t # NoThread /\ m \in Locks
    BY ACvAssumption, MonitorAssumption
  <1>2. /\ holder \in [Locks -> Threads \cup {NoThread}] /\ phase \in [Threads -> Phases]
        /\ pc \in [Threads -> Pcs] /\ entryCount \in [Monitors -> Nat] /\ HeldInv(t)
    BY DEF EvIInv, EvTypeOK, ACvTypeOK, MonTypeOK, Pcs, ThreadInv
  <1>3. /\ UNCHANGED <<phase, on, interrupted>> /\ holder[m] = t
        /\ holder' = [holder EXCEPT ![m] = IF entryCount[m] = n THEN NoThread ELSE t]
        /\ entryCount' = [entryCount EXCEPT ![m] = entryCount[m] - n]
    <2>1. CASE entryCount[m] = n
      BY <2>1 DEF LeaveTimes, Release, SetCount
    <2>2. CASE entryCount[m] # n
      BY <1>1, <1>2, <2>2 DEF LeaveTimes, SetCount, acvVars
    <2> QED  BY <2>1, <2>2
  <1>4. entryCount[m] > 0
    BY <1>2, <1>3 DEF HeldInv
  <1>5. OthersStay(t)
    BY <1>2, <1>3 DEF OthersStay, GoTo
  <1>6. OwnersStay(t)
    BY <1>1, <1>2, <1>3 DEF OwnersStay
  <1> QED  BY <1>3, <1>4, <1>5, <1>6

-----------------------------------------------------------------------------
(* The calls of the queue's monitor.                                       *)

\* Types of what changes when nothing of the queue and the cache does.
LEMMA QuietTypes ==
  ASSUME EvIInv, NEW t \in Threads, NEW to \in Pcs, pc' = [pc EXCEPT ![t] = to],
         UNCHANGED <<evVars, cacheVars, mon, on, interrupted>>,
         holder' \in [Locks -> Threads \cup {NoThread}], phase' \in [Threads -> Phases],
         entryCount' \in [Monitors -> Nat], savedCount' \in [Threads -> Nat]
  PROVE  EvTypeOK'
BY DEF EvIInv, EvTypeOK, ACvTypeOK, MonTypeOK, Pcs, evVars, cacheVars

LEMMA QueueEnterStep ==
  ASSUME EvIInv, NEW t \in Threads, NEW n \in Nat \ {0}, NEW from, NEW to,
         EnterTimes(t, QueueMonitor, n, from, to), UNCHANGED evVars,
         \/ from = "run" /\ to = "run" /\ holder[QueueMonitor] # t /\ n <= MaxEntries
         \/ from = "syncReenter" /\ to = "syncResult" /\ n = outer[t]
         \/ /\ n = 1
            /\ \/ from = "run" /\ to = "revoking"
               \/ from = "postEnter" /\ to = "postAppend"
               \/ from = "syncPost" /\ to = "syncAppend"
               \/ from = "loopEnter" /\ to = "getEvent"
  PROVE  EvIInv'
PROOF
  <1> DEFINE Q == QueueMonitor
  <1>1. Q \in Monitors /\ Q \in Locks /\ Q \notin CacheMonitors
    BY CacheMonitorsAreMonitors
  <1>2. UNCHANGED <<event, outer>>
    BY DEF evVars
  <1>3. /\ pc[t] = from /\ phase[t] = "out" /\ pc' = [pc EXCEPT ![t] = to]
        /\ UNCHANGED <<savedCount, cacheVars, mon, phase, on, interrupted>>
        /\ holder[Q] \in {t, NoThread} /\ holder' = [holder EXCEPT ![Q] = t]
        /\ entryCount' = [entryCount EXCEPT ![Q] = IF holder[Q] = t THEN entryCount[Q] + n
                                                                   ELSE n]
        /\ OthersStay(t) /\ OwnersStay(t)
    BY <1>1, <1>2, EnterEffect
  <1>4. /\ holder \in [Locks -> Threads \cup {NoThread}] /\ pc \in [Threads -> Pcs]
        /\ entryCount \in [Monitors -> Nat] /\ savedCount \in [Threads -> Nat]
        /\ phase \in [Threads -> Phases] /\ outer \in [Threads -> 0..MaxEntries]
        /\ event \in [Threads -> Events \cup {NoEvent}]
        /\ ThreadInv(t) /\ MaxEntries \in Nat /\ t # NoThread
    BY EventAssumption, ACvAssumption DEF EvIInv, EvTypeOK, ACvTypeOK, MonTypeOK, Pcs
  <1>5. to \in Pcs
    BY DEF Pcs, PostPcs, SyncPcs, HandlePcs, RevokePcs
  <1> DEFINE c == IF holder[Q] = t THEN entryCount[Q] + n ELSE n
  <1>6. c \in Nat /\ c > 0 /\ entryCount' = [entryCount EXCEPT ![Q] = c]
    BY <1>1, <1>3, <1>4
  <1>7. /\ holder' \in [Locks -> Threads \cup {NoThread}]
        /\ entryCount' \in [Monitors -> Nat]
    <2> HIDE DEF c
    <2> QED  BY <1>1, <1>3, <1>4, <1>6
  <1>8. EvTypeOK'
    <2> HIDE DEF Q
    <2> QED  BY <1>3, <1>4, <1>5, <1>7, QuietTypes
  <1>9. /\ pc'[t] = to /\ holder'[Q] = t /\ entryCount'[Q] = c
        /\ \A m \in Monitors \ {Q} : holder'[m] = holder[m] /\ entryCount'[m] = entryCount[m]
    BY <1>1, <1>3, <1>4, <1>6, CacheMonitorsAreMonitors
  <1>10. HeldInv(t)'
    <2>1. pc'[t] \in CachedPcs <=> pc[t] \in CachedPcs
      BY <1>3, <1>9 DEF CachedPcs, EnteredPcs
    <2>2. pc'[t] \in EnteredPcs <=> pc[t] \in EnteredPcs
      BY <1>3, <1>9 DEF CachedPcs, EnteredPcs
    <2>3. pc[t] \in EnteredPcs => mon[t] \in Monitors \ {Q}
      BY <1>1, <1>4, CacheMonitorsAreMonitors DEF ThreadInv, HeldInv, CachedPcs
    <2> HIDE DEF c, Q
    <2> QED  BY <1>3, <1>4, <1>6, <1>9, <2>1, <2>2, <2>3, CacheMonitorsAreMonitors
             DEF ThreadInv, HeldInv, Q
  <1>11. OuterInv(t)'
    <2>1. c <= MaxEntries + 1 /\ (to \notin QueuePcs => c <= MaxEntries)
      <3>1. holder[Q] = t => entryCount[Q] <= MaxEntries
        BY <1>3, <1>4 DEF ThreadInv, OuterInv, QueuePcs
      <3>2. from = "syncReenter" => holder[Q] # t /\ n <= MaxEntries
        BY <1>3, <1>4 DEF ThreadInv, OuterInv, AwayPcs
      <3>3. to \notin QueuePcs => holder[Q] # t /\ n <= MaxEntries
        BY <3>2 DEF QueuePcs
      <3>4. n = 1 \/ (holder[Q] # t /\ n <= MaxEntries)
        BY <3>2
      <3> QED  BY <1>1, <1>4, <3>1, <3>3, <3>4
    <2>2. to \in {"syncAppend", "syncPosted"} => c = outer[t] + 1
      BY <1>3, <1>4 DEF ThreadInv, OuterInv, GetMonitorEntryCount
    <2>3. to \notin {"syncPost", "syncGiveUp", "loopWaiting"} \cup AwayPcs
      BY DEF AwayPcs
    <2> HIDE DEF c
    <2> QED  BY <1>2, <1>9, <2>1, <2>2, <2>3 DEF OuterInv
  <1>12. WaitInv(t)' /\ (event'[t] = NoEvent <=> pc'[t] \in IdlePcs)
    BY <1>2, <1>3, <1>4, <1>9 DEF ThreadInv, WaitInv, WaitPcs, IdlePcs
  <1>13. pc'[t] \in CachedPcs <=> pc[t] \in CachedPcs
    BY <1>3, <1>9 DEF CachedPcs, EnteredPcs
  <1>14. OwnInv(t)'
    <2>1. /\ pc'[t] \in HoldPcs <=> pc[t] \in HoldPcs
          /\ pc'[t] \notin WaitPcs /\ pc'[t] \notin FreePcs
      BY <1>3, <1>9 DEF HoldPcs, EnteredPcs, WaitPcs, FreePcs
    <2>2. pc'[t] \in LookPcs => c = 1
      BY <1>3, <1>4, <1>9 DEF LookPcs, FreePcs, ThreadInv, OwnInv
    <2> HIDE DEF c
    <2> QED  BY <1>3, <1>4, <1>9, <2>1, <2>2 DEF ThreadInv, OwnInv
  <1> HIDE DEF c, Q
  <1> QED  BY <1>2, <1>3, <1>8, <1>10, <1>11, <1>12, <1>13, <1>14, PlainStep DEF ThreadInv

LEMMA QueueExitStep ==
  ASSUME EvIInv, NEW t \in Threads, NEW n \in Nat, NEW from, NEW to,
         ExitTimes(t, QueueMonitor, n, from, to),
         UNCHANGED <<queue, notifyCount, result, outer, fate>>,
         \/ event' = event /\ from = "run" /\ to = "run" /\ n = entryCount[QueueMonitor]
         \/ event' = event /\ from = "syncGiveUp" /\ to = "syncCWait" /\ n = outer[t]
         \/ /\ n = 1 /\ event' = event
            /\ \/ from = "syncPosted" /\ to = "syncGiveUp"
               \/ from = "gotEvent" /\ to = "handle"
               \/ from \in {"leaveLoop", "revoking"} /\ to = "run"
         \/ /\ n = 1 /\ from = "postExit" /\ to = "run"
            /\ event' = [event EXCEPT ![t] = NoEvent]
  PROVE  EvIInv'
PROOF
  <1> DEFINE Q == QueueMonitor
  <1>1. Q \in Monitors /\ Q \in Locks /\ Q \notin CacheMonitors
    BY CacheMonitorsAreMonitors
  <1>2. /\ pc[t] = from /\ phase[t] = "out" /\ pc' = [pc EXCEPT ![t] = to]
        /\ LeaveTimes(t, Q, n) /\ UNCHANGED <<savedCount, cacheVars, mon>>
    BY DEF ExitTimes, At, GoTo
  <1>3. /\ holder \in [Locks -> Threads \cup {NoThread}] /\ pc \in [Threads -> Pcs]
        /\ entryCount \in [Monitors -> Nat] /\ savedCount \in [Threads -> Nat]
        /\ phase \in [Threads -> Phases] /\ outer \in [Threads -> 0..MaxEntries]
        /\ event \in [Threads -> Events \cup {NoEvent}]
        /\ ThreadInv(t) /\ MaxEntries \in Nat /\ t # NoThread /\ EvTypeOK
    BY EventAssumption, ACvAssumption DEF EvIInv, EvTypeOK, ACvTypeOK, MonTypeOK, Pcs
  <1>4. /\ UNCHANGED <<phase, on, interrupted>> /\ holder[Q] = t
        /\ holder' = [holder EXCEPT ![Q] = IF entryCount[Q] = n THEN NoThread ELSE t]
        /\ entryCount' = [entryCount EXCEPT ![Q] = entryCount[Q] - n]
        /\ entryCount[Q] > 0 /\ OthersStay(t) /\ OwnersStay(t)
    <2>1. \A u \in Threads \ {t} : event'[u] = event[u] /\ outer'[u] = outer[u]
                                   /\ mon'[u] = mon[u]
      BY <1>2, <1>3
    <2>2. GoTo(t, to)
      BY <1>2 DEF GoTo
    <2> HIDE DEF Q
    <2> QED  BY <1>1, <1>2, <2>1, <2>2, LeaveEffect
  <1>5. n <= entryCount[Q]
    BY <1>1, <1>2, <1>3, <1>4 DEF ThreadInv, OuterInv, GetMonitorEntryCount
  <1> DEFINE c == entryCount[Q] - n
  <1>6. c \in Nat /\ entryCount' = [entryCount EXCEPT ![Q] = c]
    BY <1>1, <1>3, <1>4, <1>5
  <1>7. /\ holder' \in [Locks -> Threads \cup {NoThread}]
        /\ entryCount' \in [Monitors -> Nat]
    <2> HIDE DEF c
    <2> QED  BY <1>1, <1>3, <1>4, <1>6
  <1>8. to \in Pcs
    BY DEF Pcs, PostPcs, SyncPcs, HandlePcs, RevokePcs
  <1>9. event' \in [Threads -> Events \cup {NoEvent}]
    BY <1>3
  <1>10. EvTypeOK'
    <2>1. /\ on' \in [Threads -> CVars \cup {NoCvar}]
          /\ phase' \in [Threads -> Phases] /\ interrupted' \in [Threads -> BOOLEAN]
          /\ pc' \in [Threads -> Pcs]
      BY <1>2, <1>3, <1>4, <1>8 DEF EvTypeOK, ACvTypeOK
    <2> HIDE DEF Q
    <2> QED  BY <1>2, <1>3, <1>7, <1>9, <2>1
             DEF EvTypeOK, ACvTypeOK, MonTypeOK, Pcs, cacheVars
  <1>11. /\ pc'[t] = to /\ (holder'[Q] = t <=> c # 0) /\ entryCount'[Q] = c
         /\ \A m \in Monitors \ {Q} : holder'[m] = holder[m] /\ entryCount'[m] = entryCount[m]
    <2>1. c = 0 <=> entryCount[Q] = n
      BY <1>1, <1>3
    <2> HIDE DEF c
    <2> QED  BY <1>1, <1>2, <1>3, <1>4, <1>6, <2>1, CacheMonitorsAreMonitors
  <1>12. /\ pc'[t] \in CachedPcs <=> pc[t] \in CachedPcs
         /\ pc'[t] \in EnteredPcs <=> pc[t] \in EnteredPcs
         /\ pc'[t] \notin QueuePcs
         /\ pc[t] \in CachedPcs => event' = event
    BY <1>2, <1>11 DEF CachedPcs, EnteredPcs, QueuePcs
  <1>13. HeldInv(t)'
    <2>1. pc[t] \in EnteredPcs => mon[t] \in Monitors \ {Q}
      BY <1>1, <1>3, CacheMonitorsAreMonitors DEF ThreadInv, HeldInv, CachedPcs
    <2>2. c # 0 => c > 0
      BY <1>6
    <2> HIDE DEF c, Q
    <2> QED  BY <1>2, <1>3, <1>4, <1>6, <1>11, <1>12, <2>1, <2>2, CacheMonitorsAreMonitors
             DEF ThreadInv, HeldInv, Q
  <1>14. OuterInv(t)'
    <2>1. outer'[t] = outer[t]
      OBVIOUS
    <2>2. c <= MaxEntries
      <3>1. from # "run" => n = 1 \/ (n = outer[t] /\ pc[t] = "syncGiveUp")
        BY <1>2
      <3> QED  BY <1>1, <1>2, <1>3, <1>4, <1>5, <3>1
               DEF ThreadInv, OuterInv, GetMonitorEntryCount
    <2>3. /\ to = "syncGiveUp" => outer[t] = c
          /\ to \in AwayPcs => c = 0
          /\ to \notin {"syncPost", "syncAppend", "syncPosted", "loopWaiting"}
      BY <1>1, <1>2, <1>3, <1>4, <1>5
      DEF ThreadInv, OuterInv, GetMonitorEntryCount, AwayPcs
    <2> HIDE DEF c
    <2> QED  BY <1>3, <1>6, <1>11, <2>1, <2>2, <2>3 DEF OuterInv, GetMonitorEntryCount
  <1>15. WaitInv(t)' /\ (event'[t] = NoEvent <=> pc'[t] \in IdlePcs)
    BY <1>2, <1>3, <1>4, <1>11 DEF ThreadInv, WaitInv, WaitPcs, IdlePcs
  <1>16. OwnInv(t)'
    <2>1. /\ pc'[t] \in HoldPcs <=> pc[t] \in HoldPcs
          /\ pc'[t] \notin WaitPcs /\ pc'[t] \notin LookPcs
      BY <1>2, <1>11 DEF HoldPcs, EnteredPcs, WaitPcs, LookPcs
    <2>2. pc'[t] \in FreePcs => c = 0
      BY <1>2, <1>3, <1>11 DEF LookPcs, FreePcs, ThreadInv, OwnInv
    <2> HIDE DEF c
    <2> QED  BY <1>2, <1>3, <1>4, <1>11, <2>1, <2>2 DEF ThreadInv, OwnInv
  <1> HIDE DEF c, Q
  <1> QED  BY <1>2, <1>4, <1>10, <1>12, <1>13, <1>14, <1>15, <1>16, PlainStep DEF ThreadInv

-----------------------------------------------------------------------------
(* The calls of the event's monitor, and waits.                            *)

LEMMA CachedEnterStep ==
  ASSUME EvIInv, NEW t \in Threads, NEW from, NEW to,
         EnterMonitor(t, mon[t], from, to), UNCHANGED evVars,
         \/ from = "syncEnter" /\ to = "syncBegin"
         \/ from = "resEnter" /\ to = "resSet"
         \/ from = "revEnter" /\ to = "revSet"
  PROVE  EvIInv'
PROOF
  <1> DEFINE m == mon[t]
  <1>1. ThreadInv(t) /\ pc[t] = from /\ EnterTimes(t, m, 1, from, to) /\ 1 \in Nat
    BY DEF EvIInv, EnterMonitor, EnterTimes, At
  <1>2. m \in CacheMonitors /\ m \in Monitors /\ m \in Locks /\ m # QueueMonitor
    BY <1>1, CacheMonitorsAreMonitors DEF ThreadInv, HeldInv, CachedPcs
  <1>3. UNCHANGED <<event, outer>>
    BY DEF evVars
  <1> HIDE DEF m
  <1>4. /\ pc[t] = from /\ phase[t] = "out" /\ pc' = [pc EXCEPT ![t] = to]
        /\ UNCHANGED <<savedCount, cacheVars, mon, phase, on, interrupted>>
        /\ holder[m] \in {t, NoThread} /\ holder' = [holder EXCEPT ![m] = t]
        /\ entryCount' = [entryCount EXCEPT ![m] = IF holder[m] = t THEN entryCount[m] + 1
                                                                   ELSE 1]
        /\ OthersStay(t) /\ OwnersStay(t)
    <2>1. PICK k : k = m
      OBVIOUS
    <2>2. k \in Monitors /\ EnterTimes(t, k, 1, from, to)
      BY <1>1, <1>2, <2>1
    <2>3. /\ pc[t] = from /\ phase[t] = "out" /\ pc' = [pc EXCEPT ![t] = to]
          /\ UNCHANGED <<savedCount, cacheVars, mon, phase, on, interrupted>>
          /\ holder[k] \in {t, NoThread} /\ holder' = [holder EXCEPT ![k] = t]
          /\ entryCount' = [entryCount EXCEPT ![k] = IF holder[k] = t THEN entryCount[k] + 1
                                                                     ELSE 1]
          /\ OthersStay(t) /\ OwnersStay(t)
      BY <1>1, <1>3, <2>2, EnterEffect
    <2> QED  BY <2>1, <2>3
  <1>5. /\ holder \in [Locks -> Threads \cup {NoThread}] /\ pc \in [Threads -> Pcs]
        /\ entryCount \in [Monitors -> Nat] /\ savedCount \in [Threads -> Nat]
        /\ phase \in [Threads -> Phases]
    BY DEF EvIInv, EvTypeOK, ACvTypeOK, MonTypeOK, Pcs
  <1> DEFINE c == IF holder[m] = t THEN entryCount[m] + 1 ELSE 1
  <1>6. c \in Nat /\ c > 0 /\ entryCount' = [entryCount EXCEPT ![m] = c]
    BY <1>2, <1>4, <1>5
  <1> HIDE DEF c
  <1>7. EvTypeOK'
    <2>1. to \in Pcs
      BY DEF Pcs, PostPcs, SyncPcs, HandlePcs, RevokePcs
    <2>2. /\ holder' \in [Locks -> Threads \cup {NoThread}]
          /\ entryCount' \in [Monitors -> Nat]
      BY <1>2, <1>4, <1>5, <1>6
    <2> QED  BY <1>4, <1>5, <2>1, <2>2, QuietTypes
  <1>8. /\ pc'[t] = to /\ holder'[m] = t /\ entryCount'[m] = c
        /\ \A l \in Locks \ {m} : holder'[l] = holder[l]
        /\ \A l \in Monitors \ {m} : entryCount'[l] = entryCount[l]
    BY <1>2, <1>4, <1>5, <1>6, CacheMonitorsAreMonitors
  <1>9. /\ pc[t] \in CachedPcs /\ pc'[t] \in CachedPcs
        /\ pc[t] \in QueuePcs <=> pc'[t] \in QueuePcs
    BY <1>4, <1>8 DEF CachedPcs, EnteredPcs, QueuePcs
  <1>10. HeldInv(t)'
    BY <1>1, <1>2, <1>4, <1>6, <1>8, <1>9, CacheMonitorsAreMonitors DEF ThreadInv, HeldInv, m
  <1>11. OuterInv(t)'
    BY <1>1, <1>2, <1>3, <1>4, <1>8, <1>9, CacheMonitorsAreMonitors
    DEF ThreadInv, OuterInv, GetMonitorEntryCount, AwayPcs
  <1>12. WaitInv(t)' /\ (event'[t] = NoEvent <=> pc'[t] \in IdlePcs)
    BY <1>1, <1>3, <1>4, <1>8 DEF ThreadInv, WaitInv, WaitPcs, IdlePcs
  <1>13. OwnInv(t)'
    <2>1. /\ pc[t] \notin HoldPcs /\ pc'[t] \in HoldPcs
          /\ pc'[t] \notin WaitPcs /\ pc'[t] \notin LookPcs
          /\ pc'[t] \in FreePcs => pc[t] \in FreePcs
      BY <1>4, <1>8 DEF HoldPcs, EnteredPcs, WaitPcs, LookPcs, FreePcs
    <2>2. c = 1 /\ \A l \in Monitors \ {QueueMonitor} : holder[l] # t
      BY <1>1, <1>2, <2>1 DEF ThreadInv, OwnInv, c
    <2> QED  BY <1>1, <1>2, <1>4, <1>8, <2>1, <2>2, CacheMonitorsAreMonitors
             DEF ThreadInv, OwnInv, m
  <1> QED  BY <1>3, <1>4, <1>7, <1>9, <1>10, <1>11, <1>12, <1>13, PlainStep DEF ThreadInv

\* The monitor a thread waits in.
LEMMA WaitBeginsStep ==
  ASSUME EvIInv, NEW t \in Threads, NEW m, NEW from, NEW to,
         MonWait(t, m, from, to), UNCHANGED evVars,
         \/ m = QueueMonitor /\ from = "loopWait" /\ to = "loopWaiting"
         \/ m = mon[t] /\ from = "syncCWait" /\ to = "syncWait"
  PROVE  EvIInv'
PROOF
  <1>1. /\ ThreadInv(t) /\ pc[t] = from /\ phase[t] = "out" /\ pc' = [pc EXCEPT ![t] = to]
    BY DEF EvIInv, MonWait, Wait, At, GoTo
  <1>2. /\ m \in Monitors /\ m \in Locks /\ CvLock[MonCvar[m]] = m /\ MonCvar[m] \in CVars
        /\ m # QueueMonitor => m \in CacheMonitors
    BY <1>1, CacheMonitorsAreMonitors DEF ThreadInv, HeldInv, CachedPcs, EnteredPcs
  <1>3. UNCHANGED <<event, outer, cacheVars, mon, interrupted>>
    BY DEF evVars, MonWait, Wait, BeginWait
  <1>4. /\ holder[m] = t /\ holder' = [holder EXCEPT ![m] = NoThread]
        /\ on' = [on EXCEPT ![t] = MonCvar[m]] /\ phase' = [phase EXCEPT ![t] = "waiting"]
        /\ savedCount' = [savedCount EXCEPT ![t] = entryCount[m]]
        /\ entryCount' = [entryCount EXCEPT ![m] = 0]
    BY <1>2 DEF MonWait, Wait, BeginWait, Holds, SetCount
  <1>5. /\ holder \in [Locks -> Threads \cup {NoThread}] /\ pc \in [Threads -> Pcs]
        /\ entryCount \in [Monitors -> Nat] /\ savedCount \in [Threads -> Nat]
        /\ phase \in [Threads -> Phases] /\ on \in [Threads -> CVars \cup {NoCvar}]
        /\ t # NoThread /\ EvTypeOK /\ QueueMonitor \in Monitors \cap Locks
    BY ACvAssumption, CacheMonitorsAreMonitors DEF EvIInv, EvTypeOK, ACvTypeOK, MonTypeOK, Pcs
  <1>6. EvTypeOK'
    <2>1. to \in Pcs
      BY DEF Pcs, PostPcs, SyncPcs, HandlePcs, RevokePcs
    <2>2. /\ holder' \in [Locks -> Threads \cup {NoThread}] /\ phase' \in [Threads -> Phases]
          /\ entryCount' \in [Monitors -> Nat] /\ savedCount' \in [Threads -> Nat]
          /\ on' \in [Threads -> CVars \cup {NoCvar}] /\ pc' \in [Threads -> Pcs]
      BY <1>1, <1>2, <1>4, <1>5, <2>1 DEF Phases
    <2> QED  BY <1>3, <1>5, <2>2
             DEF EvTypeOK, ACvTypeOK, MonTypeOK, Pcs, evVars, cacheVars
  <1>7. /\ pc'[t] = to /\ holder'[m] = NoThread /\ entryCount'[m] = 0
        /\ savedCount'[t] = entryCount[m] /\ phase'[t] = "waiting" /\ on'[t] = MonCvar[m]
        /\ \A l \in Locks \ {m} : holder'[l] = holder[l]
        /\ \A l \in Monitors \ {m} : entryCount'[l] = entryCount[l]
    BY <1>1, <1>2, <1>4, <1>5, CacheMonitorsAreMonitors
  <1>8. OthersStay(t) /\ OwnersStay(t)
    BY <1>1, <1>2, <1>3, <1>4, <1>5 DEF OthersStay, OwnersStay
  <1>9. /\ pc[t] \in CachedPcs <=> pc'[t] \in CachedPcs
        /\ pc'[t] \notin QueuePcs /\ pc'[t] \notin EnteredPcs
    BY <1>1, <1>7 DEF CachedPcs, EnteredPcs, QueuePcs
  <1>10. HeldInv(t)'
    BY <1>1, <1>3, <1>5, <1>7, <1>9, CacheMonitorsAreMonitors DEF ThreadInv, HeldInv
  <1>11. OuterInv(t)'
    <2>1. CASE m = QueueMonitor
      BY <1>1, <1>4, <1>5, <1>7, <1>9, <2>1, CacheMonitorsAreMonitors
      DEF ThreadInv, OuterInv, AwayPcs, HeldInv, CachedPcs, EnteredPcs
    <2>2. CASE m # QueueMonitor
      <3>1. pc[t] = "syncCWait" /\ holder[QueueMonitor] # t
        BY <1>1, <2>2 DEF ThreadInv, OuterInv, AwayPcs
      <3> QED  BY <1>1, <1>5, <1>7, <2>2, <3>1 DEF OuterInv
    <2> QED  BY <2>1, <2>2
  <1>12. savedCount'[t] > 0
    BY <1>1, <1>2, <1>4, <1>7 DEF ThreadInv, HeldInv
  <1>13. WaitInv(t)' /\ (event'[t] = NoEvent <=> pc'[t] \in IdlePcs)
    BY <1>1, <1>3, <1>7, <1>12 DEF ThreadInv, WaitInv, WaitPcs, IdlePcs
  <1>14. OwnInv(t)'
    <2>1. m = QueueMonitor => from = "loopWait"
      BY <1>1, CacheMonitorsAreMonitors DEF ThreadInv, HeldInv, CachedPcs, EnteredPcs
    <2>2. /\ pc'[t] \in WaitPcs /\ pc'[t] \notin LookPcs /\ pc'[t] \notin FreePcs
          /\ m = QueueMonitor => pc[t] \in LookPcs /\ pc[t] \notin HoldPcs
          /\ m # QueueMonitor => m = mon[t]
      BY <1>1, <1>7, <2>1 DEF HoldPcs, EnteredPcs, WaitPcs, LookPcs, FreePcs
    <2>3. entryCount[m] = 1
      BY <1>1, <1>2, <1>4, <2>2 DEF ThreadInv, OwnInv
    <2>4. \A l \in Monitors \ {QueueMonitor} : holder'[l] # t
      BY <1>1, <1>2, <1>5, <1>7, <2>2, CacheMonitorsAreMonitors DEF ThreadInv, OwnInv
    <2> QED  BY <1>7, <2>2, <2>3, <2>4 DEF OwnInv
  <1> QED  BY <1>3, <1>6, <1>8, <1>9, <1>10, <1>11, <1>13, <1>14, PlainStep DEF ThreadInv

LEMMA WaitEndsStep ==
  ASSUME EvIInv, NEW t \in Threads, NEW m, NEW from, NEW to,
         MonWaitEnds(t, m, from, to), UNCHANGED evVars,
         \/ m = QueueMonitor /\ from = "loopWaiting" /\ to \in {"leaveLoop", "getEvent"}
         \/ m = mon[t] /\ from = "syncWait" /\ to = "syncReenter"
  PROVE  EvIInv'
PROOF
  <1>1. /\ ThreadInv(t) /\ pc[t] = from /\ phase[t] = "back" /\ pc' = [pc EXCEPT ![t] = to]
    BY DEF EvIInv, MonWaitEnds, WaitEnds, EndWait, GoTo
  <1>2. /\ m \in Monitors /\ m \in Locks /\ CvLock[MonCvar[m]] = m /\ on[t] = MonCvar[m]
        /\ m # QueueMonitor => m \in CacheMonitors
    BY <1>1, CacheMonitorsAreMonitors DEF ThreadInv, HeldInv, WaitInv, CachedPcs, EnteredPcs
  <1>3. UNCHANGED <<event, outer, cacheVars, mon, holder>>
    BY DEF evVars, MonWaitEnds, WaitEnds, EndWait
  <1>4. /\ on' = [on EXCEPT ![t] = NoCvar] /\ phase' = [phase EXCEPT ![t] = "out"]
        /\ interrupted' = [interrupted EXCEPT ![t] = FALSE]
        /\ savedCount' = [savedCount EXCEPT ![t] = 0]
        /\ entryCount' = [entryCount EXCEPT ![m] = savedCount[t]]
    BY DEF MonWaitEnds, WaitEnds, EndWait, SetCount
  <1>5. /\ holder \in [Locks -> Threads \cup {NoThread}] /\ pc \in [Threads -> Pcs]
        /\ entryCount \in [Monitors -> Nat] /\ savedCount \in [Threads -> Nat]
        /\ phase \in [Threads -> Phases] /\ on \in [Threads -> CVars \cup {NoCvar}]
        /\ interrupted \in [Threads -> BOOLEAN]
        /\ t # NoThread /\ EvTypeOK /\ QueueMonitor \in Monitors \cap Locks
    BY ACvAssumption, CacheMonitorsAreMonitors DEF EvIInv, EvTypeOK, ACvTypeOK, MonTypeOK, Pcs
  <1>6. EvTypeOK'
    <2>1. to \in Pcs
      BY DEF Pcs, PostPcs, SyncPcs, HandlePcs, RevokePcs
    <2>2. /\ interrupted' \in [Threads -> BOOLEAN] /\ phase' \in [Threads -> Phases]
          /\ entryCount' \in [Monitors -> Nat] /\ savedCount' \in [Threads -> Nat]
          /\ on' \in [Threads -> CVars \cup {NoCvar}] /\ pc' \in [Threads -> Pcs]
      BY <1>1, <1>2, <1>4, <1>5, <2>1 DEF Phases
    <2> QED  BY <1>3, <1>5, <2>2
             DEF EvTypeOK, ACvTypeOK, MonTypeOK, Pcs, evVars, cacheVars
  <1>7. /\ pc'[t] = to /\ holder[m] = t /\ entryCount'[m] = savedCount[t]
        /\ savedCount[t] > 0 /\ phase'[t] = "out"
        /\ \A l \in Monitors \ {m} : entryCount'[l] = entryCount[l]
    BY <1>1, <1>2, <1>4, <1>5 DEF ThreadInv, HeldInv, WaitInv, WaitPcs
  <1>8. OthersStay(t) /\ OwnersStay(t)
    BY <1>1, <1>2, <1>3, <1>4, <1>5, <1>7 DEF OthersStay, OwnersStay
  <1>9. pc[t] \in CachedPcs <=> pc'[t] \in CachedPcs
    BY <1>1, <1>7 DEF CachedPcs, EnteredPcs
  <1>10. HeldInv(t)'
    <2>1. \A l \in Monitors \ {m} : on[t] # MonCvar[l]
      BY <1>2, CacheMonitorsAreMonitors
    <2>2. pc'[t] \in QueuePcs => m = QueueMonitor
      BY <1>7 DEF QueuePcs
    <2>3. pc'[t] \in EnteredPcs => m = mon[t]
      BY <1>7 DEF EnteredPcs
    <2> QED  BY <1>1, <1>3, <1>7, <1>9, <2>1, <2>2, <2>3, CacheMonitorsAreMonitors
             DEF ThreadInv, HeldInv
  <1>11. OuterInv(t)'
    <2>1. CASE m = QueueMonitor
      BY <1>1, <1>3, <1>5, <1>7, <1>9, <2>1, CacheMonitorsAreMonitors
      DEF ThreadInv, OuterInv, AwayPcs, HeldInv, CachedPcs, EnteredPcs, QueuePcs
    <2>2. CASE m # QueueMonitor
      <3>1. pc[t] = "syncWait" /\ holder[QueueMonitor] # t /\ to = "syncReenter"
        BY <1>1, <2>2 DEF ThreadInv, OuterInv, AwayPcs
      <3> QED  BY <1>1, <1>3, <1>5, <1>7, <2>2, <3>1 DEF OuterInv
    <2> QED  BY <2>1, <2>2
  <1>12. WaitInv(t)' /\ (event'[t] = NoEvent <=> pc'[t] \in IdlePcs)
    BY <1>1, <1>3, <1>7 DEF ThreadInv, WaitInv, WaitPcs, IdlePcs
  <1>13. OwnInv(t)'
    <2>1. m = QueueMonitor => from = "loopWaiting"
      BY <1>1, CacheMonitorsAreMonitors DEF ThreadInv, HeldInv, CachedPcs, EnteredPcs
    <2>2. /\ pc[t] \in WaitPcs /\ pc'[t] \notin WaitPcs /\ pc'[t] \notin FreePcs
          /\ m = QueueMonitor => pc[t] \notin HoldPcs
          /\ m # QueueMonitor => pc'[t] \in HoldPcs /\ m = mon[t] /\ pc'[t] \notin LookPcs
      BY <1>1, <1>7, <2>1 DEF HoldPcs, EnteredPcs, WaitPcs, LookPcs, FreePcs
    <2>3. entryCount'[m] = 1
      BY <1>1, <1>7, <2>2 DEF ThreadInv, OwnInv
    <2> QED  BY <1>1, <1>3, <1>7, <2>2, <2>3 DEF ThreadInv, OwnInv
  <1> QED  BY <1>3, <1>6, <1>8, <1>9, <1>10, <1>11, <1>12, <1>13, PlainStep DEF ThreadInv

LEMMA RelockStep ==
  ASSUME EvIInv, NEW t \in Threads, Relock(t), UNCHANGED <<monVars, evVars>>
  PROVE  EvIInv'
PROOF
  <1> DEFINE l == CvLock[on[t]]
  <1>1. ThreadInv(t) /\ phase[t] = "woken" /\ pc' = pc /\ t # NoThread
    BY ACvAssumption DEF EvIInv, Relock, Regain
  <1>2. l \in Monitors /\ l \in Locks /\ on[t] = MonCvar[l]
    BY <1>1, CacheMonitorsAreMonitors DEF ThreadInv, HeldInv, WaitInv, WaitPcs, CachedPcs
  <1>3. UNCHANGED <<event, outer, cacheVars, mon, on, interrupted, entryCount, savedCount>>
    BY DEF evVars, monVars, entryVars, Relock, Regain, Give
  <1>4. /\ holder[l] = NoThread /\ holder' = [holder EXCEPT ![l] = t]
        /\ phase' = [phase EXCEPT ![t] = IF phase[t] = "woken" THEN "back" ELSE phase[t]]
    BY DEF Relock, Regain, Give
  <1>5. phase' = [phase EXCEPT ![t] = "back"]
    BY <1>1, <1>4
  <1>6. /\ holder \in [Locks -> Threads \cup {NoThread}] /\ pc \in [Threads -> Pcs]
        /\ phase \in [Threads -> Phases] /\ EvTypeOK
        /\ entryCount \in [Monitors -> Nat]
    BY DEF EvIInv, EvTypeOK, ACvTypeOK, MonTypeOK, Pcs
  <1> HIDE DEF l
  <1>7. EvTypeOK'
    <2>1. holder' \in [Locks -> Threads \cup {NoThread}] /\ phase' \in [Threads -> Phases]
      BY <1>2, <1>4, <1>5, <1>6 DEF Phases
    <2> QED  BY <1>1, <1>3, <1>6, <2>1
             DEF EvTypeOK, ACvTypeOK, MonTypeOK, Pcs, evVars, cacheVars
  <1>8. /\ phase'[t] = "back" /\ holder'[l] = t
        /\ \A k \in Locks \ {l} : holder'[k] = holder[k]
    BY <1>2, <1>4, <1>5, <1>6
  <1>9. OthersStay(t) /\ OwnersStay(t)
    BY <1>1, <1>2, <1>3, <1>4, <1>5, <1>6 DEF OthersStay, OwnersStay
  <1>10. pc[t] \in WaitPcs /\ pc[t] \notin EnteredPcs /\ pc[t] \notin QueuePcs
    BY <1>1 DEF ThreadInv, WaitInv, WaitPcs, EnteredPcs, QueuePcs
  <1>11. HeldInv(t)'
    BY <1>1, <1>2, <1>3, <1>8, <1>10, CacheMonitorsAreMonitors DEF ThreadInv, HeldInv, l
  <1>12. OuterInv(t)'
    <2>1. CASE l = QueueMonitor
      <3>1. pc[t] = "loopWaiting"
        BY <1>1, <1>2, <1>10, <2>1, CacheMonitorsAreMonitors
        DEF ThreadInv, WaitInv, HeldInv, WaitPcs, CachedPcs
      <3> QED  BY <1>1, <1>3, <1>8, <3>1 DEF ThreadInv, OuterInv, AwayPcs
    <2>2. CASE l # QueueMonitor
      BY <1>1, <1>3, <1>8, <1>10, <2>2, CacheMonitorsAreMonitors
      DEF ThreadInv, OuterInv, WaitPcs
    <2> QED  BY <2>1, <2>2
  <1>13. WaitInv(t)' /\ (event'[t] = NoEvent <=> pc'[t] \in IdlePcs)
    BY <1>1, <1>3, <1>8, <1>10 DEF ThreadInv, WaitInv
  <1>14. OwnInv(t)'
    <2>1. /\ pc[t] \notin LookPcs /\ pc[t] \notin FreePcs
          /\ pc[t] \in HoldPcs <=> pc[t] = "syncWait"
      BY <1>10 DEF HoldPcs, EnteredPcs, WaitPcs, LookPcs, FreePcs
    <2>2. l # QueueMonitor => pc[t] = "syncWait" /\ mon[t] = l
      BY <1>1, <1>2, <1>10, CacheMonitorsAreMonitors
      DEF ThreadInv, WaitInv, HeldInv, WaitPcs, CachedPcs
    <2> QED  BY <1>1, <1>2, <1>3, <1>8, <2>1, <2>2, CacheMonitorsAreMonitors
             DEF ThreadInv, OwnInv
  <1> QED  BY <1>1, <1>3, <1>7, <1>9, <1>11, <1>12, <1>13, <1>14, PlainStep DEF ThreadInv

-----------------------------------------------------------------------------
(* Steps that enter, leave and wait for nothing.                           *)

EvVarTypes ==
  /\ queue \in Seq(Events) /\ notifyCount \in Nat
  /\ result \in [Events -> Results] /\ event \in [Threads -> Events \cup {NoEvent}]
  /\ outer \in [Threads -> 0..MaxEntries] /\ fate \in [Events -> Fates]

OneGoes(t, from, to) == pc[t] = from /\ pc' = [pc EXCEPT ![t] = to]

LEMMA HandStep ==
  ASSUME EvIInv, NEW t \in Threads, NEW from, NEW to, OneGoes(t, from, to),
         phase[t] = "out", phase'[t] = "out", UNCHANGED <<holder, on, monVars>>,
         \A u \in Threads \ {t} : event'[u] = event[u] /\ outer'[u] = outer[u],
         \A u \in Threads : phase'[u] = phase[u] \/ (phase[u] = "waiting" /\ phase'[u] = "woken"),
         phase' \in [Threads -> Phases], interrupted' \in [Threads -> BOOLEAN],
         EvVarTypes', event'[t] = NoEvent <=> to \in IdlePcs,
         from \in CachedPcs /\ to \in CachedPcs => event'[t] = event[t],
         \/ from = "syncBegin" /\ to = "syncPost"
              /\ outer'[t] = GetMonitorEntryCount(t, QueueMonitor)
         \/ from = "syncGiveUp" /\ to = "syncCWait" /\ outer[t] = 0
         \/ from = "syncAppend" /\ to = "syncPosted" /\ outer'[t] = outer[t]
         \/ from \in {"syncBegin", "syncReenter"} /\ to = "syncResult"
         \/ from = "syncCWait" /\ to = "syncReenter"
         \/ from \in {"handled", "syncDestroy"} /\ to = "run"
         \/ from = "run" /\ to \in {"postEnter", "syncLookup"}
         \/ from = "run" /\ to = "loopEnter" /\ holder[QueueMonitor] # t
         \/ from = "postAppend" /\ to = "postExit"
         \/ from = "getEvent" /\ to \in {"loopWait", "gotEvent"}
         \/ from = "loopWait" /\ to = "leaveLoop"
         \/ from = "handle" /\ to = "handled"
         \/ from = "resSet" /\ to = "resExit"
         \/ from = "revSet" /\ to = "revExit"
         \/ from = "revoking" /\ to = "revoking"
  PROVE  EvIInv'
PROOF
  <1>1. /\ ThreadInv(t) /\ pc[t] = from /\ pc' = [pc EXCEPT ![t] = to] /\ EvTypeOK
        /\ pc \in [Threads -> Pcs] /\ entryCount \in [Monitors -> Nat]
        /\ holder \in [Locks -> Threads \cup {NoThread}]
    BY DEF EvIInv, EvTypeOK, ACvTypeOK, MonTypeOK, Pcs, OneGoes
  <1>2. /\ UNCHANGED <<entryCount, savedCount, mon, cacheVars>>
    BY DEF monVars, entryVars
  <1>3. to \in Pcs
    BY DEF Pcs, PostPcs, SyncPcs, HandlePcs, RevokePcs
  <1>4. EvTypeOK'
    BY <1>1, <1>2, <1>3
    DEF EvTypeOK, ACvTypeOK, MonTypeOK, EvVarTypes, Pcs, cacheVars
  <1>5. OthersStay(t) /\ OwnersStay(t) /\ pc'[t] = to
    BY <1>1, <1>2 DEF OthersStay, OwnersStay
  <1>6. /\ pc[t] \in CachedPcs <=> pc'[t] \in CachedPcs
        /\ pc[t] \in EnteredPcs <=> pc'[t] \in EnteredPcs
        /\ pc[t] \in QueuePcs <=> pc'[t] \in QueuePcs
        /\ pc'[t] \notin WaitPcs
    BY <1>1, <1>5 DEF CachedPcs, EnteredPcs, QueuePcs, WaitPcs
  <1>7. WaitInv(t)' /\ HeldInv(t)'
    BY <1>1, <1>2, <1>5, <1>6 DEF ThreadInv, WaitInv, HeldInv, WaitPcs
  <1>8. OuterInv(t)'
    <2>1. QueueMonitor \in Monitors /\ (holder[QueueMonitor] = t => entryCount[QueueMonitor] > 0)
      BY <1>1, CacheMonitorsAreMonitors DEF ThreadInv, HeldInv
    <2>2. to \in AwayPcs => holder[QueueMonitor] # t
      BY <1>1, <2>1 DEF ThreadInv, OuterInv, AwayPcs, GetMonitorEntryCount
    <2>3. /\ to = "syncPost" => outer'[t] = GetMonitorEntryCount(t, QueueMonitor)'
          /\ to = "syncPosted" => entryCount[QueueMonitor] = outer'[t] + 1
          /\ to \notin {"syncGiveUp", "syncAppend", "loopWaiting"}
      BY <1>1, <1>2 DEF ThreadInv, OuterInv, GetMonitorEntryCount
    <2> QED  BY <1>1, <1>2, <1>5, <1>6, <2>2, <2>3 DEF ThreadInv, OuterInv
  <1>9. OwnInv(t)'
    <2>1. /\ pc[t] \in HoldPcs <=> pc'[t] \in HoldPcs
          /\ pc'[t] \in LookPcs => pc[t] \in LookPcs
          /\ pc'[t] \in FreePcs => pc[t] \in FreePcs \/ holder[QueueMonitor] # t
      BY <1>1, <1>5 DEF HoldPcs, EnteredPcs, LookPcs, FreePcs
    <2> QED  BY <1>1, <1>2, <1>5, <1>6, <2>1 DEF ThreadInv, OwnInv
  <1> QED  BY <1>1, <1>2, <1>4, <1>5, <1>6, <1>7, <1>8, <1>9, PlainStep DEF ThreadInv

\* A notify wakes somebody who waits.
LEMMA NotifyEffect ==
  ASSUME EvIInv, NEW t \in Threads, NEW c, Notify(t, c)
  PROVE  /\ UNCHANGED <<holder, on, interrupted>>
         /\ phase[t] = "out" /\ phase'[t] = "out" /\ phase' \in [Threads -> Phases]
         /\ \A u \in Threads :
              phase'[u] = phase[u] \/ (phase[u] = "waiting" /\ phase'[u] = "woken")
PROOF
  <1>1. phase \in [Threads -> Phases]
    BY DEF EvIInv, EvTypeOK, ACvTypeOK
  <1>2. phase' = phase \/ \E u \in Waiting(c) : Wake({u})
    BY DEF Notify
  <1> QED  BY <1>1, <1>2 DEF Notify, Holds, Waiting, Wake, Phases

\* The event at i is taken from the queue.
LEMMA DequeueEffect ==
  ASSUME EvIInv, NEW t \in Threads, NEW e, Dequeues(t, e)
  PROVE  /\ queue' \in Seq(Events) /\ e \in Events
         /\ \E i \in DOMAIN queue :
              /\ e = queue[i]
              /\ DOMAIN queue' = 1..(Len(queue) - 1)
              /\ \A j \in DOMAIN queue' : queue'[j] = IF j < i THEN queue[j] ELSE queue[j + 1]
PROOF
  <1>1. queue \in Seq(Events)
    BY DEF EvIInv, EvTypeOK
  <1>2. PICK i \in DOMAIN queue :
          /\ e = queue[i]
          /\ queue' = [j \in 1..(Len(queue) - 1) |-> IF j < i THEN queue[j] ELSE queue[j + 1]]
    BY DEF Dequeues, Revocable
  <1>3. /\ Len(queue) \in Nat /\ DOMAIN queue = 1..Len(queue)
        /\ \A j \in 1..Len(queue) : queue[j] \in Events
    BY <1>1, LenProperties, ElementOfSeq
  <1>4. Len(queue) - 1 \in Nat
    BY <1>2, <1>3
  <1>5. queue' \in [1..(Len(queue) - 1) -> Events]
    BY <1>2, <1>3
  <1>6. queue' \in Seq(Events)
    BY <1>4, <1>5, SeqDef
  <1> QED  BY <1>2, <1>3, <1>5, <1>6

LEMMA HandStepKeepsInv ==
  ASSUME EvIInv, NEW t \in Threads,
         \/ PostEvent(t) \/ PostSynchronousEvent(t)
         \/ Appends(t, "postAppend", "postExit") \/ Appends(t, "syncAppend", "syncPosted")
         \/ SyncInline(t) \/ SyncBegins(t)
         \/ SyncReturns(t) \/ EventLoop(t) \/ GetEvent(t) \/ HandleEvent(t)
         \/ HandlerDestroys(t) \/ \E e \in Events : RevokesEvent(t, e)
  PROVE  EvIInv'
PROOF
  <1>1. /\ EvVarTypes /\ interrupted \in [Threads -> BOOLEAN] /\ phase \in [Threads -> Phases]
        /\ entryCount \in [Monitors -> Nat]
    BY DEF EvIInv, EvTypeOK, ACvTypeOK, MonTypeOK, EvVarTypes
  <1>2. event[t] = NoEvent <=> pc[t] \in IdlePcs
    BY DEF EvIInv, ThreadInv
  <1>3. NoEvent \notin Events /\ \A u \in Posters : EventOf[u] \in Events
    BY EventAssumption
  <1>4. ASSUME NEW from, NEW to, Continue(t, from, to), UNCHANGED monVars
        PROVE  /\ OneGoes(t, from, to) /\ phase[t] = "out"
               /\ UNCHANGED <<holder, on, phase, interrupted, monVars>>
    BY <1>4 DEF Continue, At, GoTo, OneGoes, acvVars
  <1>5. CASE PostEvent(t) \/ PostSynchronousEvent(t)
    <2>1. PICK to \in {"postEnter", "syncLookup"} : InitEvent(t, to)
      BY <1>5 DEF PostEvent, PostSynchronousEvent
    <2>2. /\ OneGoes(t, "run", to) /\ phase[t] = "out"
          /\ UNCHANGED <<holder, on, phase, interrupted, monVars>>
      BY <1>4, <2>1 DEF InitEvent
    <2>3. /\ event' = [event EXCEPT ![t] = EventOf[t]] /\ EventOf[t] \in Events
          /\ fate' = [fate EXCEPT ![EventOf[t]] = "new"]
          /\ result' = [result EXCEPT ![EventOf[t]] = "NULL"]
          /\ UNCHANGED <<queue, notifyCount, outer>>
      BY <1>3, <2>1 DEF InitEvent
    <2>4. EvVarTypes' /\ event'[t] = EventOf[t] /\ \A u \in Threads \ {t} : event'[u] = event[u]
      BY <1>1, <2>3 DEF EvVarTypes, Results, Fates
    <2>5. "run" \notin CachedPcs /\ to \notin IdlePcs
      BY DEF CachedPcs, EnteredPcs, IdlePcs
    <2> QED  BY <1>1, <1>3, <2>2, <2>3, <2>4, <2>5, HandStep
  <1>6. CASE Appends(t, "postAppend", "postExit") \/ Appends(t, "syncAppend", "syncPosted")
    <2>1. PICK from, to :
            /\ Appends(t, from, to)
            /\ \/ from = "postAppend" /\ to = "postExit"
               \/ from = "syncAppend" /\ to = "syncPosted"
      BY <1>6
    <2>2. /\ OneGoes(t, from, to) /\ Notify(t, MonCvar[QueueMonitor]) /\ UNCHANGED monVars
          /\ queue' = Append(queue, event[t]) /\ notifyCount' \in Nat
          /\ UNCHANGED <<result, event, outer, fate>>
      BY <1>1, <2>1 DEF Appends, At, GoTo, OneGoes, WakesHandler, MonNotify, EvVarTypes
    <2>3. event[t] \in Events /\ event[t] # NoEvent /\ to \notin IdlePcs
      BY <1>1, <1>2, <2>1, <2>2 DEF EvVarTypes, IdlePcs, OneGoes
    <2>4. EvVarTypes'
      BY <1>1, <2>2, <2>3 DEF EvVarTypes
    <2> HIDE DEF IdlePcs
    <2> QED  BY <1>1, <2>1, <2>2, <2>3, <2>4, NotifyEffect, HandStep
  <1>7. CASE SyncInline(t)
    <2>1. /\ OneGoes(t, "syncBegin", "syncResult") /\ phase[t] = "out"
          /\ UNCHANGED <<holder, on, phase, interrupted, monVars>>
      BY <1>4, <1>7 DEF SyncInline
    <2>2. /\ UNCHANGED <<queue, notifyCount, event, outer>>
          /\ fate' = [fate EXCEPT ![event[t]] = "handled"]
          /\ result' = [result EXCEPT ![event[t]] = "value"]
      BY <1>7 DEF SyncInline
    <2>3. event[t] # NoEvent /\ "syncResult" \notin IdlePcs
      BY <1>2, <2>1 DEF OneGoes, IdlePcs
    <2>4. EvVarTypes'
      BY <1>1, <2>2 DEF EvVarTypes, Results, Fates
    <2> QED  BY <1>1, <2>1, <2>2, <2>3, <2>4, HandStep
  <1>8. CASE SyncBegins(t)
    <2>1. /\ OneGoes(t, "syncBegin", "syncPost") /\ phase[t] = "out"
          /\ UNCHANGED <<holder, on, phase, interrupted, monVars>>
      BY <1>4, <1>8 DEF SyncBegins
    <2> DEFINE n == GetMonitorEntryCount(t, QueueMonitor)
    <2>2. /\ UNCHANGED <<queue, notifyCount, event, fate>>
          /\ outer' = [outer EXCEPT ![t] = n] /\ result' = [result EXCEPT ![event[t]] = "TRUE"]
      BY <1>8 DEF SyncBegins
    <2>3. event[t] # NoEvent /\ "syncPost" \notin IdlePcs
      BY <1>2, <2>1 DEF OneGoes, IdlePcs
    <2>4. n \in 0..MaxEntries
      <3>1. OuterInv(t) /\ pc[t] \notin QueuePcs /\ MaxEntries \in Nat
        BY <2>1, EventAssumption DEF EvIInv, ThreadInv, OneGoes, QueuePcs
      <3> QED  BY <1>1, <2>1, <3>1, CacheMonitorsAreMonitors
               DEF OuterInv, GetMonitorEntryCount
    <2> HIDE DEF n
    <2>5. EvVarTypes' /\ outer'[t] = n /\ \A u \in Threads \ {t} : outer'[u] = outer[u]
      BY <1>1, <2>2, <2>4 DEF EvVarTypes, Results
    <2> QED  BY <1>1, <2>1, <2>2, <2>3, <2>5, HandStep DEF n
  <1>9. CASE SyncReturns(t) \/ HandlerDestroys(t)
    <2>1. PICK from \in {"syncDestroy", "handled"} :
            Destroys(t, from, "run") /\ (outer' = [outer EXCEPT ![t] = 0] \/ outer' = outer)
      BY <1>9 DEF SyncReturns, HandlerDestroys
    <2>2. /\ OneGoes(t, from, "run") /\ phase[t] = "out"
          /\ UNCHANGED <<holder, on, phase, interrupted, monVars>>
      BY <1>4, <2>1 DEF Destroys
    <2>3. /\ UNCHANGED <<queue, notifyCount, result>>
          /\ fate' = [fate EXCEPT ![event[t]] = "none"]
          /\ event' = [event EXCEPT ![t] = NoEvent]
      BY <2>1 DEF Destroys
    <2>4. EvVarTypes' /\ event'[t] = NoEvent
          /\ \A u \in Threads \ {t} : event'[u] = event[u] /\ outer'[u] = outer[u]
      <3>1. outer' \in [Threads -> 0..MaxEntries]
            /\ \A u \in Threads \ {t} : outer'[u] = outer[u]
        <4>1. 0 \in 0..MaxEntries
          BY EventAssumption
        <4>2. CASE outer' = [outer EXCEPT ![t] = 0]
          BY <1>1, <4>1, <4>2 DEF EvVarTypes
        <4>3. CASE outer' = outer
          BY <1>1, <4>3 DEF EvVarTypes
        <4> QED  BY <2>1, <4>2, <4>3
      <3> QED  BY <1>1, <2>3, <3>1 DEF EvVarTypes, Fates
    <2>5. "run" \in IdlePcs /\ "run" \notin CachedPcs
      BY DEF IdlePcs, CachedPcs, EnteredPcs
    <2> QED  BY <1>1, <2>2, <2>4, <2>5, HandStep
  <1>10. CASE EventLoop(t)
    <2>1. /\ OneGoes(t, "run", "loopEnter") /\ phase[t] = "out"
          /\ UNCHANGED <<holder, on, phase, interrupted, monVars>>
      BY <1>4, <1>10 DEF EventLoop
    <2>2. UNCHANGED evVars
      BY <1>10 DEF EventLoop
    <2>3. event[t] = NoEvent /\ "loopEnter" \in IdlePcs
      BY <1>2, <2>1 DEF OneGoes, IdlePcs
    <2>4. holder[QueueMonitor] # t
      BY <1>10 DEF EventLoop
    <2> QED  BY <1>1, <2>1, <2>2, <2>3, <2>4, HandStep DEF EvVarTypes, evVars
  <1>11. CASE GetEvent(t)
    <2>1. PICK to \in {"loopWait", "gotEvent"} :
            /\ Continue(t, "getEvent", to) /\ UNCHANGED <<monVars, result, outer, fate>>
            /\ \/ to = "loopWait" /\ UNCHANGED <<queue, event>>
               \/ /\ to = "gotEvent" /\ queue # << >> /\ queue' = Tail(queue)
                  /\ event' = [event EXCEPT ![t] = Head(queue)]
      <3>1. CASE queue = << >>
        BY <1>11, <3>1 DEF GetEvent
      <3>2. CASE queue # << >>
        BY <1>11, <3>2 DEF GetEvent
      <3> QED  BY <3>1, <3>2
    <2>2. /\ OneGoes(t, "getEvent", to) /\ phase[t] = "out"
          /\ UNCHANGED <<holder, on, phase, interrupted, monVars>>
      BY <1>4, <2>1
    <2>3. notifyCount' \in Nat
      BY <1>1, <1>11 DEF GetEvent, MayRead, EvVarTypes
    <2>4. queue # << >> => Tail(queue) \in Seq(Events) /\ Head(queue) \in Events
      BY <1>1, HeadTailProperties DEF EvVarTypes
    <2>5. EvVarTypes' /\ \A u \in Threads \ {t} : event'[u] = event[u]
      BY <1>1, <2>1, <2>3, <2>4 DEF EvVarTypes
    <2>6. event'[t] = NoEvent <=> to \in IdlePcs
      <3>1. event[t] = NoEvent
        BY <1>2, <2>2 DEF IdlePcs, OneGoes
      <3> QED  BY <1>1, <1>3, <2>1, <2>4, <3>1 DEF EvVarTypes, IdlePcs
    <2>7. "getEvent" \notin CachedPcs
      BY DEF CachedPcs, EnteredPcs
    <2> QED  BY <1>1, <2>1, <2>2, <2>5, <2>6, <2>7, HandStep
  <1>12. CASE HandleEvent(t)
    <2>1. /\ OneGoes(t, "handle", "handled") /\ phase[t] = "out"
          /\ UNCHANGED <<holder, on, phase, interrupted, monVars>>
      BY <1>4, <1>12 DEF HandleEvent
    <2>2. /\ UNCHANGED <<queue, notifyCount, result, event, outer>>
          /\ fate' = [fate EXCEPT ![event[t]] = "handled"]
      BY <1>12 DEF HandleEvent
    <2>3. event[t] # NoEvent /\ "handled" \notin IdlePcs
      BY <1>2, <2>1 DEF OneGoes, IdlePcs
    <2>4. EvVarTypes'
      BY <1>1, <2>2 DEF EvVarTypes, Fates
    <2> QED  BY <1>1, <2>1, <2>2, <2>3, <2>4, HandStep
  <1>13. ASSUME NEW e \in Events, RevokesEvent(t, e)  PROVE EvIInv'
    <2>1. /\ OneGoes(t, "revoking", "revoking") /\ phase[t] = "out"
          /\ UNCHANGED <<holder, on, phase, interrupted, monVars>>
      BY <1>4, <1>13 DEF RevokesEvent
    <2>2. /\ UNCHANGED <<notifyCount, result, event, outer>> /\ Dequeues(t, e)
          /\ fate' = [fate EXCEPT ![e] = "none"]
      BY <1>13 DEF RevokesEvent
    <2>3. event[t] = NoEvent /\ "revoking" \in IdlePcs
      BY <1>2, <2>1 DEF OneGoes, IdlePcs
    <2>4. EvVarTypes'
      BY <1>1, <2>2, DequeueEffect DEF EvVarTypes, Fates
    <2> QED  BY <1>1, <2>1, <2>2, <2>3, <2>4, HandStep
  <1> QED  BY <1>5, <1>6, <1>7, <1>8, <1>9, <1>10, <1>11, <1>12, <1>13

-----------------------------------------------------------------------------
(* The cache.                                                              *)

\* There is a free entry for an address that has none.
LEMMA FreeEntryIsThere ==
  ASSUME EvIInv, NEW e \in Events, cached[e] = NoMonitor
  PROVE  Len(freeEntries) > 0 /\ freeEntries # << >>
PROOF
  <1>1. IsFiniteSet(Events) /\ Cardinality(Events) <= Len(FreeList) /\ Len(FreeList) \in Nat
    BY MonitorAssumption, LenProperties, FS_CardinalityType DEF Events
  <1>2. InUse \subseteq Events \ {e}
    BY DEF InUse
  <1>3. /\ IsFiniteSet(Events \ {e}) /\ Cardinality(Events \ {e}) = Cardinality(Events) - 1
    BY <1>1, FS_RemoveElement
  <1>4. Cardinality(InUse) <= Cardinality(Events) - 1 /\ Cardinality(InUse) \in Nat
    BY <1>2, <1>3, FS_Subset, FS_CardinalityType
  <1>5. Len(freeEntries) + Cardinality(InUse) = Len(FreeList) /\ Len(freeEntries) \in Nat
    BY LenProperties DEF EvIInv, CacheInv
  <1>6. Cardinality(Events) \in Nat
    BY <1>1, FS_CardinalityType
  <1>7. Len(freeEntries) > 0
    BY <1>1, <1>4, <1>5, <1>6
  <1>8. Len(<< >>) = 0
    OBVIOUS
  <1> QED  BY <1>7, <1>8

\* A thread comes to the users of an address ...
LEMMA CreateStep ==
  ASSUME EvIInv, NEW t \in Threads, NEW e \in Events, NEW from, NEW to,
         CreateMonitor(t, e, from, to), EvVarTypes', outer' = outer,
         event'[t] = e, \A u \in Threads \ {t} : event'[u] = event[u],
         \/ from = "syncLookup" /\ to = "syncEnter"
         \/ from = "handled" /\ to = "resEnter"
         \/ from = "revoking" /\ to = "revEnter"
  PROVE  EvIInv'
PROOF
  <1> DEFINE m == IF cached[e] = NoMonitor THEN Head(freeEntries) ELSE cached[e]
  <1>1. /\ ThreadInv(t) /\ pc[t] = from /\ pc' = [pc EXCEPT ![t] = to] /\ phase[t] = "out"
        /\ UNCHANGED <<holder, on, phase, interrupted, entryCount, savedCount>>
    BY DEF EvIInv, CreateMonitor, Continue, At, GoTo, acvVars, entryVars
  <1>2. /\ cached' = [cached EXCEPT ![e] = m]
        /\ freeEntries' = IF cached[e] = NoMonitor THEN Tail(freeEntries) ELSE freeEntries
        /\ cacheEntryCount' = [cacheEntryCount EXCEPT ![e] = cacheEntryCount[e] + 1]
        /\ mon' = [mon EXCEPT ![t] = m]
    BY DEF CreateMonitor
  <1>3. /\ EvTypeOK /\ CacheInv /\ UsersInv /\ pc \in [Threads -> Pcs]
        /\ holder \in [Locks -> Threads \cup {NoThread}]
        /\ cacheEntryCount \in [Events -> Nat] /\ mon \in [Threads -> Monitors \cup {NoMonitor}]
        /\ freeEntries \in Seq(CacheMonitors)
        /\ cached \in [Events -> CacheMonitors \cup {NoMonitor}]
    BY DEF EvIInv, EvTypeOK, ACvTypeOK, MonTypeOK, Pcs, CacheInv, Events
  <1>4. cached[e] = NoMonitor =>
          /\ freeEntries # << >> /\ Head(freeEntries) = freeEntries[1]
          /\ 1 \in DOMAIN freeEntries /\ Head(freeEntries) \in CacheMonitors
          /\ Tail(freeEntries) \in Seq(CacheMonitors)
          /\ Len(Tail(freeEntries)) = Len(freeEntries) - 1
          /\ \A i \in DOMAIN Tail(freeEntries) :
               i + 1 \in DOMAIN freeEntries /\ Tail(freeEntries)[i] = freeEntries[i + 1]
               /\ i \in Nat \ {0}
    BY <1>3, FreeEntryIsThere, HeadTailProperties, LenProperties
  <1>5. m \in CacheMonitors /\ m \in Monitors /\ m # NoMonitor /\ m # QueueMonitor
    BY <1>3, <1>4, CacheMonitorsAreMonitors
  <1> HIDE DEF m
  <1>6. /\ mon'[t] = m /\ pc'[t] = to /\ cached'[e] = m
        /\ \A u \in Threads \ {t} : mon'[u] = mon[u] /\ pc'[u] = pc[u]
        /\ \A f \in Events \ {e} : cached'[f] = cached[f]
        /\ \A f \in Events \ {e} : cacheEntryCount'[f] = cacheEntryCount[f]
        /\ cacheEntryCount'[e] = cacheEntryCount[e] + 1
    BY <1>1, <1>2, <1>3
  <1>7. OthersStay(t) /\ OwnersStay(t)
    BY <1>1, <1>6 DEF OthersStay, OwnersStay
  <1>8. freeEntries' \in Seq(CacheMonitors) /\ cached' \in [Events -> CacheMonitors \cup {NoMonitor}]
    BY <1>2, <1>3, <1>4, <1>5
  <1>9. EvTypeOK'
    <2>1. to \in Pcs
      BY DEF Pcs, PostPcs, SyncPcs, HandlePcs, RevokePcs
    <2>2. /\ pc' \in [Threads -> Pcs] /\ cacheEntryCount' \in [Events -> Nat]
          /\ mon' \in [Threads -> Monitors \cup {NoMonitor}]
      BY <1>1, <1>2, <1>3, <1>5, <2>1
    <2>3. freeEntries' \in Seq(Monitors) /\ cached' \in [Addresses -> Monitors \cup {NoMonitor}]
      <3>1. Seq(CacheMonitors) \subseteq Seq(Monitors)
        BY CacheMonitorsAreMonitors
      <3> QED  BY <1>8, <3>1, CacheMonitorsAreMonitors DEF Events
    <2> QED  BY <1>1, <1>3, <2>2, <2>3
             DEF EvTypeOK, ACvTypeOK, MonTypeOK, EvVarTypes, Pcs, Events
  <1>10. ThreadInv(t)'
    <2>1. /\ pc'[t] \in CachedPcs /\ pc'[t] \notin EnteredPcs /\ pc'[t] \notin IdlePcs
          /\ pc'[t] \notin WaitPcs /\ pc[t] \notin WaitPcs
          /\ pc[t] \in QueuePcs <=> pc'[t] \in QueuePcs
      BY <1>1, <1>6 DEF CachedPcs, EnteredPcs, IdlePcs, WaitPcs, QueuePcs
    <2>2. event'[t] # NoEvent
      BY EventAssumption
    <2>3. WaitInv(t)' /\ HeldInv(t)'
      BY <1>1, <1>5, <1>6, <2>1 DEF ThreadInv, WaitInv, HeldInv, WaitPcs
    <2>4. OuterInv(t)'
      BY <1>1, <1>6, <2>1 DEF ThreadInv, OuterInv, AwayPcs, GetMonitorEntryCount
    <2>5. OwnInv(t)'
      <3>1. /\ pc[t] \notin HoldPcs /\ pc'[t] \notin WaitPcs /\ pc'[t] \notin LookPcs
            /\ pc'[t] \in FreePcs => pc[t] \in FreePcs
        BY <1>1, <1>6 DEF HoldPcs, EnteredPcs, WaitPcs, LookPcs, FreePcs
      <3> QED  BY <1>1, <3>1 DEF ThreadInv, OwnInv
    <2> QED  BY <2>1, <2>2, <2>3, <2>4, <2>5 DEF ThreadInv
  <1>11. t \notin Users(e) /\ \A f \in Events : t \notin Users(f)
    BY <1>1 DEF Users, CachedPcs, EnteredPcs
  <1>12. Users(e)' = Users(e) \cup {t} /\ \A f \in Events \ {e} : Users(f)' = Users(f)
    <2>1. to \in CachedPcs
      BY DEF CachedPcs
    <2> QED  BY <1>6, <1>11, <2>1 DEF Users
  <1>13. UsersInv'
    <2>1. ASSUME NEW f \in Events
          PROVE  /\ IsFiniteSet(Users(f)')
                 /\ cacheEntryCount'[f] = Cardinality(Users(f)')
                 /\ cached'[f] = NoMonitor <=> Users(f)' = {}
                 /\ \A u \in Users(f)' : mon'[u] = cached'[f]
      <3>1. CASE f = e
        <4>1. /\ IsFiniteSet(Users(e)) /\ cacheEntryCount[e] = Cardinality(Users(e))
              /\ cached[e] = NoMonitor <=> Users(e) = {}
              /\ \A u \in Users(e) : mon[u] = cached[e]
          BY <1>3 DEF UsersInv
        <4>2. /\ IsFiniteSet(Users(e) \cup {t})
              /\ Cardinality(Users(e) \cup {t}) = Cardinality(Users(e)) + 1
          BY <1>11, <4>1, FS_AddElement
        <4>3. \A u \in Users(e) : u \in Threads \ {t} /\ mon[u] = m
          BY <1>11, <4>1 DEF Users, m
        <4> QED  BY <1>5, <1>6, <1>12, <3>1, <4>1, <4>2, <4>3
      <3>2. CASE f # e
        <4>1. \A u \in Users(f) : u \in Threads \ {t}
          BY <1>11 DEF Users
        <4> QED  BY <1>3, <1>6, <1>12, <3>2, <4>1 DEF UsersInv
      <3> QED  BY <3>1, <3>2
    <2> QED  BY <2>1 DEF UsersInv
  <1>14. CacheInv'
    <2>1. CASE cached[e] = NoMonitor
      <3>1. freeEntries' = Tail(freeEntries) /\ m = freeEntries[1]
        BY <1>2, <1>4, <2>1 DEF m
      <3>2. ASSUME NEW i \in DOMAIN freeEntries'
            PROVE  /\ i + 1 \in DOMAIN freeEntries /\ freeEntries'[i] = freeEntries[i + 1]
                   /\ freeEntries'[i] # m /\ i \in Nat
        BY <1>3, <1>4, <2>1, <3>1, <3>2 DEF CacheInv
      <3>3. \A i, j \in DOMAIN freeEntries' : freeEntries'[i] = freeEntries'[j] => i = j
        <4> SUFFICES ASSUME NEW i \in DOMAIN freeEntries', NEW j \in DOMAIN freeEntries',
                            freeEntries'[i] = freeEntries'[j]
                     PROVE  i = j
          OBVIOUS
        <4>1. i + 1 = j + 1
          BY <1>3, <3>2 DEF CacheInv
        <4> QED  BY <3>2, <4>1
      <3>4. \A f \in Events, i \in DOMAIN freeEntries' : freeEntries'[i] # cached'[f]
        BY <1>3, <1>6, <3>2 DEF CacheInv
      <3>5. InUse' = InUse \cup {e} /\ e \notin InUse
        BY <1>5, <1>6, <2>1 DEF InUse
      <3>6. IsFiniteSet(InUse)
        BY MonitorAssumption, FS_Subset DEF InUse, Events
      <3>7. Cardinality(InUse') = Cardinality(InUse) + 1 /\ Cardinality(InUse) \in Nat
        BY <3>5, <3>6, FS_AddElement, FS_CardinalityType
      <3>8. Len(freeEntries') = Len(freeEntries) - 1 /\ Len(freeEntries) \in Nat
        BY <1>3, <1>4, <2>1, <3>1, LenProperties
      <3>9. Len(freeEntries') + Cardinality(InUse') = Len(FreeList)
        BY <1>3, <3>7, <3>8 DEF CacheInv
      <3>10. \A f \in InUse : cached[f] # m
        BY <1>3, <1>4, <2>1, <3>1 DEF CacheInv, InUse
      <3>11. \A f, g \in InUse' : cached'[f] = cached'[g] => f = g
        BY <1>3, <1>6, <3>5, <3>10 DEF CacheInv, InUse
      <3> QED  BY <1>8, <3>3, <3>4, <3>9, <3>11 DEF CacheInv
    <2>2. CASE cached[e] # NoMonitor
      <3>1. cached' = cached /\ freeEntries' = freeEntries
        BY <1>2, <1>3, <2>2 DEF m
      <3> QED  BY <1>3, <3>1 DEF CacheInv, InUse
    <2> QED  BY <2>1, <2>2
  <1>15. \A u \in Threads : ThreadInv(u)'
    BY <1>7, <1>10, OthersKeepInv
  <1> QED  BY <1>9, <1>13, <1>14, <1>15 DEF EvIInv

\* ... and leaves them, with the entry if it is the last.
LEMMA CExitStep ==
  ASSUME EvIInv, NEW t \in Threads, NEW e, e = event[t], NEW from, NEW to,
         CExitMonitor(t, e, from, to), EvVarTypes', outer' = outer,
         \A u \in Threads \ {t} : event'[u] = event[u],
         event'[t] = NoEvent <=> to \in IdlePcs,
         \/ from = "syncResult" /\ to = "syncDestroy"
         \/ from = "resExit" /\ to = "run"
         \/ from = "revExit" /\ to = "revoking"
  PROVE  EvIInv'
PROOF
  <1> DEFINE m == cached[e]
  <1>1. /\ ThreadInv(t) /\ pc[t] = from /\ pc' = [pc EXCEPT ![t] = to] /\ phase[t] = "out"
        /\ m # NoMonitor /\ LeaveTimes(t, m, 1) /\ GoTo(t, to) /\ savedCount' = savedCount
        /\ mon' = [mon EXCEPT ![t] = NoMonitor]
    BY DEF EvIInv, CExitMonitor, At, GoTo
  <1>2. IF cacheEntryCount[e] = 1
        THEN /\ cached' = [cached EXCEPT ![e] = NoMonitor]
             /\ freeEntries' = <<m>> \o freeEntries
             /\ cacheEntryCount' = [cacheEntryCount EXCEPT ![e] = 0]
        ELSE /\ cacheEntryCount' = [cacheEntryCount EXCEPT ![e] = cacheEntryCount[e] - 1]
             /\ UNCHANGED <<cached, freeEntries>>
    BY DEF CExitMonitor, LastUser
  <1>3. /\ EvTypeOK /\ CacheInv /\ UsersInv /\ pc \in [Threads -> Pcs]
        /\ holder \in [Locks -> Threads \cup {NoThread}] /\ entryCount \in [Monitors -> Nat]
        /\ cacheEntryCount \in [Events -> Nat] /\ mon \in [Threads -> Monitors \cup {NoMonitor}]
        /\ freeEntries \in Seq(CacheMonitors) /\ t # NoThread
        /\ cached \in [Events -> CacheMonitors \cup {NoMonitor}]
        /\ event \in [Threads -> Events \cup {NoEvent}]
    BY ACvAssumption DEF EvIInv, EvTypeOK, ACvTypeOK, MonTypeOK, Pcs, CacheInv, Events
  <1>4. /\ pc[t] \in CachedPcs /\ pc[t] \in EnteredPcs /\ pc'[t] \notin CachedPcs
        /\ pc'[t] \notin EnteredPcs
        /\ pc[t] \in QueuePcs <=> pc'[t] \in QueuePcs
        /\ pc'[t] \notin WaitPcs /\ pc[t] \notin WaitPcs /\ pc'[t] = to
    BY <1>1, <1>3 DEF CachedPcs, EnteredPcs, WaitPcs, QueuePcs
  <1>5. e \in Events /\ t \in Users(e)
    <2>1. pc[t] \notin IdlePcs
      BY <1>1 DEF IdlePcs
    <2> QED  BY <1>1, <1>3, <1>4, <2>1 DEF ThreadInv, Users
  <1>6. m \in CacheMonitors /\ m \in Monitors /\ m \in Locks /\ m # QueueMonitor /\ mon[t] = m
    BY <1>1, <1>3, <1>5, CacheMonitorsAreMonitors DEF UsersInv
  <1> HIDE DEF m
  <1>7. /\ UNCHANGED <<phase, on, interrupted>> /\ holder[m] = t
        /\ holder' = [holder EXCEPT ![m] = IF entryCount[m] = 1 THEN NoThread ELSE t]
        /\ entryCount' = [entryCount EXCEPT ![m] = entryCount[m] - 1]
        /\ entryCount[m] > 0 /\ OthersStay(t) /\ OwnersStay(t)
    <2>1. \A u \in Threads \ {t} : event'[u] = event[u] /\ outer'[u] = outer[u]
                                   /\ mon'[u] = mon[u]
      BY <1>1, <1>3
    <2> QED  BY <1>1, <1>6, <2>1, LeaveEffect
  <1>8. /\ \A u \in Threads \ {t} : mon'[u] = mon[u] /\ pc'[u] = pc[u]
        /\ \A f \in Events \ {e} : cached'[f] = cached[f]
        /\ \A f \in Events \ {e} : cacheEntryCount'[f] = cacheEntryCount[f]
        /\ cacheEntryCount[e] # 0
        /\ cacheEntryCount'[e] = cacheEntryCount[e] - 1
        /\ cached'[e] = IF cacheEntryCount[e] = 1 THEN NoMonitor ELSE m
        /\ freeEntries' = IF cacheEntryCount[e] = 1 THEN <<m>> \o freeEntries ELSE freeEntries
    <2>1. cacheEntryCount[e] # 0
      BY <1>3, <1>5, FS_EmptySet DEF UsersInv
    <2>2. CASE cacheEntryCount[e] = 1
      BY <1>1, <1>2, <1>3, <1>5, <2>2
    <2>3. CASE cacheEntryCount[e] # 1
      BY <1>1, <1>2, <1>3, <1>5, <2>1, <2>3 DEF m
    <2> QED  BY <2>2, <2>3
  <1>9. /\ freeEntries' \in Seq(CacheMonitors)
        /\ cached' \in [Events -> CacheMonitors \cup {NoMonitor}]
    <2>1. <<m>> \o freeEntries \in Seq(CacheMonitors)
      BY <1>3, <1>6
    <2>2. CASE cacheEntryCount[e] = 1
      BY <1>2, <1>3, <2>1, <2>2
    <2>3. CASE cacheEntryCount[e] # 1
      BY <1>2, <1>3, <2>3
    <2> QED  BY <2>2, <2>3
  <1>10. EvTypeOK'
    <2>1. to \in Pcs
      BY DEF Pcs, PostPcs, SyncPcs, HandlePcs, RevokePcs
    <2>2. cacheEntryCount' \in [Events -> Nat]
      <3>1. cacheEntryCount[e] - 1 \in Nat
        BY <1>3, <1>5, <1>8
      <3>2. CASE cacheEntryCount[e] = 1
        BY <1>2, <1>3, <3>2
      <3>3. CASE cacheEntryCount[e] # 1
        BY <1>2, <1>3, <3>1, <3>3
      <3> QED  BY <3>2, <3>3
    <2>3. /\ pc' \in [Threads -> Pcs] /\ mon' \in [Threads -> Monitors \cup {NoMonitor}]
          /\ holder' \in [Locks -> Threads \cup {NoThread}]
      BY <1>1, <1>3, <1>7, <2>1
    <2>4. entryCount' \in [Monitors -> Nat]
      <3>1. entryCount[m] - 1 \in Nat
        BY <1>3, <1>6, <1>7
      <3> QED  BY <1>3, <1>7, <3>1
    <2>5. freeEntries' \in Seq(Monitors) /\ cached' \in [Addresses -> Monitors \cup {NoMonitor}]
      <3>1. Seq(CacheMonitors) \subseteq Seq(Monitors)
        BY CacheMonitorsAreMonitors
      <3> QED  BY <1>9, <3>1, CacheMonitorsAreMonitors DEF Events
    <2> QED  BY <1>1, <1>3, <1>7, <2>2, <2>3, <2>4, <2>5
             DEF EvTypeOK, ACvTypeOK, MonTypeOK, EvVarTypes, Pcs, Events
  <1>11. ThreadInv(t)'
    <2> DEFINE c == entryCount[m] - 1
    <2>1. /\ c \in Nat /\ entryCount'[m] = c /\ (holder'[m] = t <=> c # 0)
          /\ \A l \in Locks \ {m} : holder'[l] = holder[l]
          /\ \A l \in Monitors \ {m} : entryCount'[l] = entryCount[l]
      BY <1>3, <1>6, <1>7, CacheMonitorsAreMonitors
    <2> HIDE DEF c
    <2>2. WaitInv(t)'
      BY <1>1, <1>4, <1>7 DEF ThreadInv, WaitInv, WaitPcs
    <2>3. HeldInv(t)'
      <3>1. c # 0 => c > 0
        BY <2>1
      <3> QED  BY <1>1, <1>4, <1>6, <1>7, <2>1, <3>1, CacheMonitorsAreMonitors
               DEF ThreadInv, HeldInv
    <2>4. OuterInv(t)'
      <3>1. /\ holder'[QueueMonitor] = holder[QueueMonitor]
            /\ entryCount'[QueueMonitor] = entryCount[QueueMonitor]
        BY <1>6, <2>1, CacheMonitorsAreMonitors
      <3> QED  BY <1>1, <1>4, <1>7, <3>1 DEF ThreadInv, OuterInv, AwayPcs
    <2>5. OwnInv(t)'
      <3>1. pc'[t] \notin LookPcs /\ pc'[t] \notin FreePcs
        BY <1>1, <1>4 DEF LookPcs, FreePcs
      <3>2. c = 0
        BY <1>1, <1>6, <1>7 DEF ThreadInv, OwnInv, c
      <3>3. \A l \in Monitors \ {QueueMonitor} : holder'[l] # t
        BY <1>1, <1>6, <2>1, <3>2, CacheMonitorsAreMonitors DEF ThreadInv, OwnInv
      <3> QED  BY <1>4, <3>1, <3>3 DEF OwnInv
    <2> QED  BY <1>4, <2>2, <2>3, <2>4, <2>5 DEF ThreadInv
  <1>12. \A f \in Events \ {e} : t \notin Users(f)
    BY DEF Users
  <1>13. Users(e)' = Users(e) \ {t} /\ \A f \in Events \ {e} : Users(f)' = Users(f)
    BY <1>4, <1>8, <1>12 DEF Users
  <1>14. UsersInv'
    <2>1. ASSUME NEW f \in Events
          PROVE  /\ IsFiniteSet(Users(f)')
                 /\ cacheEntryCount'[f] = Cardinality(Users(f)')
                 /\ cached'[f] = NoMonitor <=> Users(f)' = {}
                 /\ \A u \in Users(f)' : mon'[u] = cached'[f]
      <3>1. CASE f = e
        <4>1. /\ IsFiniteSet(Users(e)) /\ cacheEntryCount[e] = Cardinality(Users(e))
              /\ \A u \in Users(e) : mon[u] = cached[e]
          BY <1>3, <1>5 DEF UsersInv
        <4>2. /\ IsFiniteSet(Users(e) \ {t})
              /\ Cardinality(Users(e) \ {t}) = Cardinality(Users(e)) - 1
          BY <1>5, <4>1, FS_RemoveElement
        <4>3. Users(e) \ {t} = {} <=> Cardinality(Users(e)) = 1
          BY <4>1, <4>2, FS_EmptySet, FS_CardinalityType
        <4>4. \A u \in Users(e) \ {t} : u \in Threads \ {t} /\ mon'[u] = m
          BY <1>8, <4>1 DEF Users, m
        <4>5. /\ Users(f)' = Users(e) \ {t} /\ cacheEntryCount'[f] = cacheEntryCount[e] - 1
              /\ cached'[f] = IF cacheEntryCount[e] = 1 THEN NoMonitor ELSE m
          BY <1>8, <1>13, <3>1
        <4>6. m # NoMonitor
          BY <1>1
        <4>7. \A u \in Users(f)' : mon'[u] = cached'[f]
          BY <4>1, <4>3, <4>4, <4>5
        <4> QED  BY <4>1, <4>2, <4>3, <4>5, <4>6, <4>7
      <3>2. CASE f # e
        <4>1. \A u \in Users(f) : u \in Threads \ {t}
          BY <1>12, <3>2 DEF Users
        <4> QED  BY <1>3, <1>8, <1>13, <3>2, <4>1 DEF UsersInv
      <3> QED  BY <3>1, <3>2
    <2> QED  BY <2>1 DEF UsersInv
  <1>15. CacheInv'
    <2>1. CASE cacheEntryCount[e] = 1
      <3>1. freeEntries' = <<m>> \o freeEntries /\ cached'[e] = NoMonitor
        BY <1>8, <2>1
      <3>2. /\ Len(freeEntries') = Len(freeEntries) + 1 /\ Len(freeEntries) \in Nat
            /\ DOMAIN freeEntries' = 1..(Len(freeEntries) + 1)
            /\ DOMAIN freeEntries = 1..Len(freeEntries)
            /\ freeEntries'[1] = m
            /\ \A i \in DOMAIN freeEntries' \ {1} :
                 i - 1 \in DOMAIN freeEntries /\ freeEntries'[i] = freeEntries[i - 1]
        BY <1>3, <1>6, <3>1
      <3>3. \A i \in DOMAIN freeEntries : freeEntries[i] # m
        BY <1>3, <1>5 DEF CacheInv, m
      <3>4. ASSUME NEW i \in DOMAIN freeEntries', NEW j \in DOMAIN freeEntries',
                   freeEntries'[i] = freeEntries'[j]
            PROVE  i = j
        <4>1. i = 1 <=> j = 1
          BY <3>2, <3>3, <3>4
        <4>2. CASE i # 1 /\ j # 1
          <5>1. i - 1 = j - 1
            BY <1>3, <3>2, <3>4, <4>2 DEF CacheInv
          <5> QED  BY <3>2, <5>1
        <4> QED  BY <4>1, <4>2
      <3>5. ASSUME NEW f \in Events, NEW i \in DOMAIN freeEntries'
            PROVE  freeEntries'[i] # cached'[f]
        <4>1. CASE f = e
          BY <1>9, <3>1, <4>1, CacheMonitorsAreMonitors, ElementOfSeq, LenProperties
        <4>2. CASE f # e
          <5>1. cached'[f] = cached[f] /\ cached[f] # m
            BY <1>1, <1>3, <1>5, <1>8, <4>2 DEF CacheInv, InUse, m
          <5>2. CASE i = 1
            BY <3>2, <5>1, <5>2
          <5>3. CASE i # 1
            BY <1>3, <3>2, <5>1, <5>3 DEF CacheInv
          <5> QED  BY <5>2, <5>3
        <4> QED  BY <4>1, <4>2
      <3>6. InUse' = InUse \ {e} /\ e \in InUse
        BY <1>1, <1>5, <1>6, <1>8, <3>1, CacheMonitorsAreMonitors DEF InUse, m
      <3>7. IsFiniteSet(InUse)
        BY MonitorAssumption, FS_Subset DEF InUse, Events
      <3>8. Cardinality(InUse') = Cardinality(InUse) - 1 /\ Cardinality(InUse) \in Nat
        BY <3>6, <3>7, FS_RemoveElement, FS_CardinalityType
      <3>9. Len(freeEntries') + Cardinality(InUse') = Len(FreeList)
        BY <1>3, <3>2, <3>8 DEF CacheInv
      <3>10. \A f, g \in InUse' : cached'[f] = cached'[g] => f = g
        BY <1>3, <1>8, <3>6 DEF CacheInv, InUse
      <3> QED  BY <1>9, <3>4, <3>5, <3>9, <3>10 DEF CacheInv
    <2>2. CASE cacheEntryCount[e] # 1
      <3>1. cached' = cached /\ freeEntries' = freeEntries
        BY <1>2, <2>2
      <3> QED  BY <1>3, <3>1 DEF CacheInv, InUse
    <2> QED  BY <2>1, <2>2
  <1>16. \A u \in Threads : ThreadInv(u)'
    BY <1>7, <1>11, OthersKeepInv
  <1> QED  BY <1>10, <1>14, <1>15, <1>16 DEF EvIInv

-----------------------------------------------------------------------------
(* All steps.                                                              *)

LEMMA WaitFailsStep ==
  ASSUME EvIInv, NEW t \in Threads, NEW m, NEW from, NEW to,
         MonWaitFails(t, m, from, to), UNCHANGED evVars,
         \/ from = "loopWait" /\ to = "leaveLoop"
         \/ from = "syncCWait" /\ to = "syncReenter"
  PROVE  EvIInv'
PROOF
  <1>1. /\ EvVarTypes /\ interrupted \in [Threads -> BOOLEAN] /\ phase \in [Threads -> Phases]
    BY DEF EvIInv, EvTypeOK, ACvTypeOK, EvVarTypes
  <1>2. /\ OneGoes(t, from, to) /\ phase[t] = "out" /\ UNCHANGED <<holder, on, phase, monVars>>
        /\ interrupted' = [interrupted EXCEPT ![t] = FALSE]
    BY DEF MonWaitFails, WaitFails, RefuseWait, At, GoTo, OneGoes
  <1>3. interrupted' \in [Threads -> BOOLEAN]
    BY <1>1, <1>2
  <1>4. event[t] = NoEvent <=> pc[t] \in IdlePcs
    BY DEF EvIInv, ThreadInv
  <1>5. event[t] = NoEvent <=> to \in IdlePcs
    BY <1>2, <1>4 DEF OneGoes, IdlePcs
  <1>6. EvVarTypes' /\ event' = event /\ outer' = outer
    BY <1>1 DEF EvVarTypes, evVars
  <1> QED  BY <1>1, <1>2, <1>3, <1>5, <1>6, HandStep

LEMMA SkipStep ==
  ASSUME EvIInv, NEW t \in Threads, NEW from, NEW to, Continue(t, from, to),
         UNCHANGED <<monVars, evVars>>,
         \/ from = "syncGiveUp" /\ to = "syncCWait" /\ outer[t] = 0
         \/ from = "syncReenter" /\ to = "syncResult"
  PROVE  EvIInv'
PROOF
  <1>1. /\ EvVarTypes /\ interrupted \in [Threads -> BOOLEAN] /\ phase \in [Threads -> Phases]
        /\ event[t] = NoEvent <=> pc[t] \in IdlePcs
    BY DEF EvIInv, EvTypeOK, ACvTypeOK, EvVarTypes, ThreadInv
  <1>2. /\ OneGoes(t, from, to) /\ phase[t] = "out"
        /\ UNCHANGED <<holder, on, phase, interrupted, monVars>>
    BY DEF Continue, At, GoTo, OneGoes, acvVars
  <1>3. event[t] = NoEvent <=> to \in IdlePcs
    BY <1>1, <1>2 DEF OneGoes, IdlePcs
  <1>4. EvVarTypes' /\ event' = event /\ outer' = outer
    BY <1>1 DEF EvVarTypes, evVars
  <1> QED  BY <1>1, <1>2, <1>3, <1>4, HandStep

LEMMA InterruptStep ==
  ASSUME EvIInv, NEW u \in Threads, EvInterrupts(u)
  PROVE  EvIInv'
PROOF
  <1>1. /\ UNCHANGED <<pc, holder, on, monVars, evVars>>
        /\ interrupted' = [interrupted EXCEPT ![u] = TRUE]
        /\ phase' = [v \in Threads |-> IF v \in {u} \cap {t \in Threads : phase[t] = "waiting"}
                                       THEN "woken" ELSE phase[v]]
    BY DEF EvInterrupts, InterruptThread, Interrupt, Wake
  <1>2. /\ phase \in [Threads -> Phases] /\ interrupted \in [Threads -> BOOLEAN] /\ EvTypeOK
        /\ ThreadInv(u)
    BY DEF EvIInv, EvTypeOK, ACvTypeOK
  <1>3. /\ UNCHANGED <<entryCount, savedCount, mon, cacheVars, event, outer>>
    BY <1>1 DEF monVars, entryVars, evVars
  <1>4. /\ phase' \in [Threads -> Phases] /\ \A v \in Threads \ {u} : phase'[v] = phase[v]
        /\ phase'[u] = phase[u] \/ (phase[u] = "waiting" /\ phase'[u] = "woken")
    BY <1>1, <1>2 DEF Phases
  <1>5. OthersStay(u) /\ OwnersStay(u)
    BY <1>1, <1>3, <1>4 DEF OthersStay, OwnersStay
  <1>6. EvTypeOK'
    BY <1>1, <1>2, <1>3, <1>4
    DEF EvTypeOK, ACvTypeOK, MonTypeOK, evVars, cacheVars
  <1>7. ThreadInv(u)'
    BY <1>1, <1>2, <1>3, <1>4
    DEF ThreadInv, WaitInv, HeldInv, OuterInv, OwnInv, GetMonitorEntryCount, WaitPcs
  <1> QED  BY <1>1, <1>3, <1>5, <1>6, <1>7, PlainStep

LEMMA CacheStepKeepsInv ==
  ASSUME EvIInv, NEW t \in Threads,
         \/ SyncLooksUp(t)
         \/ HandlerAnswers(t)
         \/ \E e \in Events : RevokesSyncEvent(t, e)
         \/ SyncTakesResult(t)
         \/ /\ CExitMonitor(t, event[t], "resExit", "run")
            /\ event' = [event EXCEPT ![t] = NoEvent]
            /\ UNCHANGED <<queue, notifyCount, result, outer, fate>>
         \/ /\ CExitMonitor(t, event[t], "revExit", "revoking")
            /\ event' = [event EXCEPT ![t] = NoEvent]
            /\ UNCHANGED <<queue, notifyCount, result, outer, fate>>
  PROVE  EvIInv'
PROOF
  <1>1. EvVarTypes /\ (event[t] = NoEvent <=> pc[t] \in IdlePcs)
    BY DEF EvIInv, EvTypeOK, EvVarTypes, ThreadInv
  <1>2. CASE SyncLooksUp(t) \/ HandlerAnswers(t)
    <2>1. PICK from, to :
            /\ CreateMonitor(t, event[t], from, to) /\ UNCHANGED evVars
            /\ \/ from = "syncLookup" /\ to = "syncEnter"
               \/ from = "handled" /\ to = "resEnter"
      BY <1>2 DEF SyncLooksUp, HandlerAnswers
    <2>2. pc[t] = from
      BY <2>1 DEF CreateMonitor, Continue, At
    <2>3. event[t] \in Events
      BY <1>1, <2>1, <2>2 DEF EvVarTypes, IdlePcs
    <2> DEFINE e == event[t]
    <2>4. event'[t] = e /\ outer' = outer /\ EvVarTypes' /\ event' = event
      BY <1>1, <2>1 DEF evVars, EvVarTypes
    <2>5. e \in Events /\ CreateMonitor(t, e, from, to)
      BY <2>1, <2>3
    <2> HIDE DEF e
    <2> QED  BY <2>1, <2>4, <2>5, CreateStep
  <1>3. ASSUME NEW e \in Events, RevokesSyncEvent(t, e)  PROVE EvIInv'
    <2>1. /\ CreateMonitor(t, e, "revoking", "revEnter") /\ Dequeues(t, e)
          /\ event' = [event EXCEPT ![t] = e] /\ UNCHANGED <<notifyCount, result, outer, fate>>
      BY <1>3 DEF RevokesSyncEvent
    <2>2. EvVarTypes' /\ event'[t] = e /\ \A u \in Threads \ {t} : event'[u] = event[u]
      BY <1>1, <2>1, DequeueEffect DEF EvVarTypes
    <2> QED  BY <2>1, <2>2, CreateStep
  <1>4. CASE SyncTakesResult(t)
    <2>1. /\ CExitMonitor(t, event[t], "syncResult", "syncDestroy")
          /\ result' = [result EXCEPT ![event[t]] = "NULL"]
          /\ UNCHANGED <<queue, notifyCount, event, outer, fate>>
      BY <1>4 DEF SyncTakesResult
    <2>2. EvVarTypes'
      BY <1>1, <2>1 DEF EvVarTypes, Results
    <2>3. pc[t] = "syncResult"
      BY <2>1 DEF CExitMonitor, At
    <2>4. event[t] = NoEvent <=> "syncDestroy" \in IdlePcs
      BY <1>1, <2>3 DEF IdlePcs
    <2> DEFINE e == event[t]
    <2>5. e = event[t] /\ CExitMonitor(t, e, "syncResult", "syncDestroy")
      BY <2>1
    <2> HIDE DEF e
    <2> QED  BY <2>1, <2>2, <2>4, <2>5, CExitStep
  <1>5. CASE /\ CExitMonitor(t, event[t], "resExit", "run")
             /\ event' = [event EXCEPT ![t] = NoEvent]
             /\ UNCHANGED <<queue, notifyCount, result, outer, fate>>
    <2>1. /\ EvVarTypes' /\ event'[t] = NoEvent /\ \A u \in Threads \ {t} : event'[u] = event[u]
          /\ "run" \in IdlePcs
      BY <1>1, <1>5 DEF EvVarTypes, IdlePcs
    <2> DEFINE e == event[t]
    <2>2. e = event[t] /\ CExitMonitor(t, e, "resExit", "run")
      BY <1>5
    <2> HIDE DEF e
    <2> QED  BY <1>5, <2>1, <2>2, CExitStep
  <1>6. CASE /\ CExitMonitor(t, event[t], "revExit", "revoking")
             /\ event' = [event EXCEPT ![t] = NoEvent]
             /\ UNCHANGED <<queue, notifyCount, result, outer, fate>>
    <2>1. /\ EvVarTypes' /\ event'[t] = NoEvent /\ \A u \in Threads \ {t} : event'[u] = event[u]
          /\ "revoking" \in IdlePcs
      BY <1>1, <1>6 DEF EvVarTypes, IdlePcs
    <2> DEFINE e == event[t]
    <2>2. e = event[t] /\ CExitMonitor(t, e, "revExit", "revoking")
      BY <1>6
    <2> HIDE DEF e
    <2> QED  BY <1>6, <2>1, <2>2, CExitStep
  <1> QED  BY <1>2, <1>3, <1>4, <1>5, <1>6

LEMMA TellStepKeepsInv ==
  ASSUME EvIInv, NEW t \in Threads, NEW from, NEW to, CNotifies(t, from), GoTo(t, to),
         result' \in [Events -> Results], fate' \in [Events -> Fates],
         UNCHANGED <<monVars, queue, notifyCount, event, outer>>,
         \/ from = "resSet" /\ to = "resExit"
         \/ from = "revSet" /\ to = "revExit"
  PROVE  EvIInv'
PROOF
  <1>1. EvVarTypes' /\ interrupted \in [Threads -> BOOLEAN]
        /\ (event[t] = NoEvent <=> pc[t] \in IdlePcs)
    BY DEF EvIInv, EvTypeOK, ACvTypeOK, EvVarTypes, ThreadInv
  <1>2. OneGoes(t, from, to) /\ Notify(t, MonCvar[mon[t]])
    BY DEF CNotifies, MonNotify, At, GoTo, OneGoes
  <1>3. event[t] = NoEvent <=> to \in IdlePcs
    BY <1>1, <1>2 DEF OneGoes, IdlePcs
  <1> QED  BY <1>1, <1>2, <1>3, NotifyEffect, HandStep

LEMMA NextEvIInv == EvIInv /\ [EvNext]_vars => EvIInv'
PROOF
  <1> SUFFICES ASSUME EvIInv, [EvNext]_vars  PROVE EvIInv'
    OBVIOUS
  <1>1. CASE UNCHANGED vars
    <2>1. UNCHANGED <<holder, on, phase, interrupted, pc, entryCount, savedCount, cached,
                      cacheEntryCount, freeEntries, mon, queue, notifyCount, result, event,
                      outer, fate>>
      BY <1>1 DEF vars, clientVars, acvVars, monVars, entryVars, cacheVars, evVars
    <2>2. EvTypeOK' /\ CacheInv'
      BY <2>1 DEF EvIInv, EvTypeOK, ACvTypeOK, MonTypeOK, CacheInv, InUse
    <2>3. UsersInv'
      BY <2>1 DEF EvIInv, UsersInv, Users
    <2>4. \A t \in Threads : ThreadInv(t)'
      BY <2>1 DEF EvIInv, ThreadInv, WaitInv, HeldInv, OuterInv, OwnInv, GetMonitorEntryCount
    <2> QED  BY <2>2, <2>3, <2>4 DEF EvIInv
  <1>2. /\ EvVarTypes /\ MaxEntries \in Nat /\ entryCount[QueueMonitor] \in Nat
    BY EventAssumption, CacheMonitorsAreMonitors DEF EvIInv, EvTypeOK, MonTypeOK, EvVarTypes
  <1>3. ASSUME NEW t \in Threads, EvBegins(t)  PROVE EvIInv'
    <2>1. CASE UserEnters(t)
      <3>1. PICK n \in 1..MaxEntries : EnterTimes(t, QueueMonitor, n, "run", "run")
        BY <2>1 DEF UserEnters
      <3>2. n \in Nat \ {0} /\ n <= MaxEntries /\ holder[QueueMonitor] # t /\ UNCHANGED evVars
        BY <1>2, <2>1 DEF UserEnters
      <3> QED  BY <3>1, <3>2, QueueEnterStep
    <2>2. CASE RevokeEvents(t)
      BY <2>2, QueueEnterStep DEF RevokeEvents, EnterMonitor
    <2> QED  BY <1>3, <2>1, <2>2, HandStepKeepsInv DEF EvBegins
  <1>4. ASSUME NEW t \in Threads, EvGoesOn(t)  PROVE EvIInv'
    <2>1. outer[t] \in Nat
      BY <1>2 DEF EvVarTypes
    <2>2. CASE UserExits(t)
      BY <1>2, <2>2, QueueExitStep DEF UserExits, evVars
    <2>3. CASE \/ PostEnters(t, "postEnter", "postAppend") \/ PostEnters(t, "syncPost", "syncAppend")
               \/ WaitForEvent(t)
      BY <2>3, QueueEnterStep DEF PostEnters, WaitForEvent, EnterMonitor
    <2>4. CASE PostReturns(t)
      BY <2>4, QueueExitStep DEF PostReturns, ExitMonitor
    <2>5. CASE SyncPosted(t) \/ WaitForEventReturns(t)
      BY <2>5, QueueExitStep DEF SyncPosted, WaitForEventReturns, ExitMonitor, evVars
    <2>6. CASE RevokeReturns(t)
      BY <2>6, QueueExitStep DEF RevokeReturns, ExitMonitor, evVars
    <2>7. CASE SyncGivesUp(t)
      <3>1. CASE outer[t] = 0
        BY <2>7, <3>1, SkipStep DEF SyncGivesUp
      <3>2. CASE outer[t] # 0
        BY <2>1, <2>7, <3>2, QueueExitStep DEF SyncGivesUp, evVars
      <3> QED  BY <3>1, <3>2
    <2>8. CASE SyncReenters(t)
      <3>1. CASE outer[t] = 0
        BY <2>8, <3>1, SkipStep DEF SyncReenters
      <3>2. CASE outer[t] # 0
        BY <2>1, <2>8, <3>2, QueueEnterStep DEF SyncReenters
      <3> QED  BY <3>1, <3>2
    <2>9. CASE SyncWaits(t)
      BY <2>9, WaitBeginsStep, WaitFailsStep DEF SyncWaits
    <2>10. CASE SyncWoken(t)
      BY <2>10, WaitEndsStep DEF SyncWoken
    <2>11. CASE LoopWaits(t)
      <3>1. CASE MonWait(t, QueueMonitor, "loopWait", "loopWaiting")
        BY <2>11, <3>1, WaitBeginsStep DEF LoopWaits
      <3>2. CASE MonWaitFails(t, QueueMonitor, "loopWait", "leaveLoop")
        BY <2>11, <3>2, WaitFailsStep DEF LoopWaits
      <3>3. CASE MonWaitEnds(t, QueueMonitor, "loopWaiting",
                             IF interrupted[t] THEN "leaveLoop" ELSE "getEvent")
        <4>1. CASE interrupted[t]
          <5>1. MonWaitEnds(t, QueueMonitor, "loopWaiting", "leaveLoop") /\ UNCHANGED evVars
            BY <2>11, <3>3, <4>1 DEF LoopWaits
          <5> QED  BY <5>1, WaitEndsStep
        <4>2. CASE ~interrupted[t]
          <5>1. MonWaitEnds(t, QueueMonitor, "loopWaiting", "getEvent") /\ UNCHANGED evVars
            BY <2>11, <3>3, <4>2 DEF LoopWaits
          <5> QED  BY <5>1, WaitEndsStep
        <4> QED  BY <4>1, <4>2
      <3> QED  BY <2>11, <3>1, <3>2, <3>3 DEF LoopWaits
    <2>12. CASE SyncEnters(t)
      BY <2>12, CachedEnterStep DEF SyncEnters
    <2>13. CASE Answers(t)
      <3>1. CASE EnterMonitor(t, mon[t], "resEnter", "resSet") /\ UNCHANGED evVars
        BY <3>1, CachedEnterStep
      <3>2. CASE /\ TellsPoster(t) /\ GoTo(t, "resExit")
                 /\ result' = [result EXCEPT ![event[t]] = "value"]
                 /\ UNCHANGED <<monVars, queue, notifyCount, event, outer, fate>>
        <4>1. result' \in [Events -> Results] /\ fate' \in [Events -> Fates]
          BY <1>2, <3>2 DEF EvVarTypes, Results
        <4> QED  BY <3>2, <4>1, TellStepKeepsInv DEF TellsPoster
      <3> QED  BY <2>13, <3>1, <3>2, CacheStepKeepsInv DEF Answers
    <2>14. CASE Cancels(t)
      <3>1. CASE EnterMonitor(t, mon[t], "revEnter", "revSet") /\ UNCHANGED evVars
        BY <3>1, CachedEnterStep
      <3>2. CASE /\ CNotifies(t, "revSet") /\ GoTo(t, "revExit") /\ NoResult(event[t])
                 /\ fate' = [fate EXCEPT ![event[t]] = "revoked"]
                 /\ UNCHANGED <<monVars, queue, notifyCount, event, outer>>
        <4>1. result' \in [Events -> Results] /\ fate' \in [Events -> Fates]
          BY <1>2, <3>2 DEF EvVarTypes, Results, Fates, NoResult
        <4> QED  BY <3>2, <4>1, TellStepKeepsInv
      <3> QED  BY <2>14, <3>1, <3>2, CacheStepKeepsInv DEF Cancels
    <2>15. CASE Relock(t) /\ UNCHANGED <<monVars, evVars>>
      BY <2>15, RelockStep
    <2>16. CASE \/ Appends(t, "postAppend", "postExit") \/ Appends(t, "syncAppend", "syncPosted")
                \/ SyncInline(t) \/ SyncBegins(t) \/ SyncReturns(t) \/ EventLoop(t)
                \/ GetEvent(t) \/ HandleEvent(t) \/ HandlerDestroys(t)
                \/ \E e \in Events : RevokesEvent(t, e)
      BY <2>16, HandStepKeepsInv
    <2>17. CASE \/ SyncLooksUp(t) \/ SyncTakesResult(t) \/ HandlerAnswers(t)
                \/ \E e \in Events : RevokesSyncEvent(t, e)
      BY <2>17, CacheStepKeepsInv
    <2> QED  BY <1>4, <2>2, <2>3, <2>4, <2>5, <2>6, <2>7, <2>8, <2>9, <2>10, <2>11, <2>12,
                <2>13, <2>14, <2>15, <2>16, <2>17 DEF EvGoesOn
  <1> QED  BY <1>1, <1>3, <1>4, InterruptStep DEF EvNext

LEMMA InitEvIInv == EvInit => EvIInv
PROOF
  <1> SUFFICES ASSUME EvInit  PROVE EvIInv
    OBVIOUS
  <1> USE DEF EvInit, ACvInit, MonInit
  <1>1. FreeList \in Seq(CacheMonitors) /\ FreeList \in Seq(Monitors) /\ Len(FreeList) \in Nat
    <2>1. /\ FreeList \in Seq(Monitors) /\ Len(FreeList) \in Nat
          /\ FreeList \in [1..Len(FreeList) -> Monitors]
      BY MonitorAssumption, LenProperties
    <2>2. FreeList \in [1..Len(FreeList) -> CacheMonitors]
      BY <2>1 DEF CacheMonitors
    <2> QED  BY <2>1, <2>2, SeqDef
  <1>2. EvTypeOK
    BY <1>1, EventAssumption
    DEF EvTypeOK, ACvTypeOK, MonTypeOK, Phases, Results, Fates, Events
  <1>3. CacheInv
    <2>1. InUse = {} /\ Cardinality(InUse) = 0
      BY FS_EmptySet DEF InUse, Events
    <2>2. \A e \in Events, i \in DOMAIN freeEntries : freeEntries[i] # cached[e]
      BY CacheMonitorsAreMonitors DEF CacheMonitors, Events
    <2> QED  BY <1>1, <2>1, <2>2, MonitorAssumption DEF CacheInv, Events
  <1>4. UsersInv
    <2>1. \A e \in Events : Users(e) = {}
      BY DEF Users, CachedPcs, EnteredPcs
    <2> QED  BY <2>1, FS_EmptySet DEF UsersInv, Events
  <1>5. ASSUME NEW t \in Threads  PROVE ThreadInv(t)
    <2>1. \A m \in Monitors : holder[m] # t
      BY ACvAssumption, CacheMonitorsAreMonitors
    <2>2. QueueMonitor \in Monitors /\ pc[t] = "run" /\ phase[t] = "out" /\ event[t] = NoEvent
      BY CacheMonitorsAreMonitors
    <2> QED  BY <2>1, <2>2
             DEF ThreadInv, WaitInv, HeldInv, OuterInv, OwnInv, WaitPcs, CachedPcs,
                 EnteredPcs, QueuePcs, AwayPcs, IdlePcs, LookPcs, FreePcs
  <1> QED  BY <1>2, <1>3, <1>4, <1>5 DEF EvIInv

\* The invariant holds in every reachable state.
THEOREM SpecEvIInv == EvSpec => []EvIInv
PROOF
  BY InitEvIInv, NextEvIInv, PTL DEF EvSpec

\* Every event that is queued brings its byte, and a byte goes only with an event or
\* when there is none.
LEMMA NextEventsHaveBytes ==
  ASSUME EvIInv, EventsHaveBytes, [EvNext]_vars
  PROVE  EventsHaveBytes'
PROOF
  <1> USE DEF EventsHaveBytes
  <1>1. queue \in Seq(Events) /\ Len(queue) \in Nat /\ notifyCount \in Nat
    BY LenProperties DEF EvIInv, EvTypeOK
  <1>2. ASSUME UNCHANGED <<queue, notifyCount>>  PROVE EventsHaveBytes'
    BY <1>2
  <1>3. ASSUME NEW t \in Threads,
               Appends(t, "postAppend", "postExit") \/ Appends(t, "syncAppend", "syncPosted")
        PROVE  EventsHaveBytes'
    <2>1. event[t] \in Events
      <3>1. pc[t] \in {"postAppend", "syncAppend"}
        BY <1>3 DEF Appends, At
      <3>2. event[t] # NoEvent
        BY <3>1 DEF EvIInv, ThreadInv, IdlePcs
      <3> QED  BY <3>2 DEF EvIInv, EvTypeOK
    <2>2. queue' = Append(queue, event[t]) /\ notifyCount' = notifyCount + 1
      BY <1>3 DEF Appends, WritesByte
    <2>3. Len(queue') = Len(queue) + 1
      BY <1>1, <2>1, <2>2, AppendProperties
    <2> QED  BY <1>1, <2>2, <2>3
  <1>4. ASSUME NEW t \in Threads, GetEvent(t)  PROVE EventsHaveBytes'
    <2>1. CASE queue = << >>
      <3>1. queue' = queue /\ Len(queue') = 0
        BY <1>4, <2>1 DEF GetEvent
      <3> QED  BY <1>1, <1>4, <3>1 DEF GetEvent, MayRead
    <2>2. CASE queue # << >>
      <3>1. queue' = Tail(queue) /\ Len(queue') = Len(queue) - 1 /\ Len(queue) > 0
        BY <1>1, <1>4, <2>2, HeadTailProperties, EmptySeq DEF GetEvent
      <3> QED  BY <1>1, <1>4, <3>1 DEF GetEvent, MayRead
    <2> QED  BY <2>1, <2>2
  <1>5. ASSUME NEW t \in Threads, NEW e \in Events, Dequeues(t, e), notifyCount' = notifyCount
        PROVE  EventsHaveBytes'
    <2>1. Len(queue') \in Nat /\ Len(queue) > 0 /\ 1..Len(queue') = 1..(Len(queue) - 1)
      <3>1. queue' \in Seq(Events) /\ DOMAIN queue' = 1..(Len(queue) - 1) /\ DOMAIN queue # {}
        BY <1>5, DequeueEffect
      <3> QED  BY <1>1, <3>1, LenProperties
    <2>2. Len(queue') <= Len(queue) - 1
      BY <1>1, <2>1
    <2> QED  BY <1>1, <1>5, <2>1, <2>2
  <1>6. CASE UNCHANGED vars
    BY <1>2, <1>6 DEF vars, evVars
  <1>7. ASSUME NEW t \in Threads, EvBegins(t)  PROVE EventsHaveBytes'
    BY <1>2, <1>7 DEF EvBegins, UserEnters, PostEvent, PostSynchronousEvent, InitEvent,
                      RevokeEvents, evVars
  <1>8. ASSUME NEW t \in Threads, EvInterrupts(t)  PROVE EventsHaveBytes'
    BY <1>2, <1>8 DEF EvInterrupts, evVars
  <1>9. ASSUME NEW t \in Threads, EvGoesOn(t)  PROVE EventsHaveBytes'
    <2>1. CASE \E e \in Events : RevokesEvent(t, e) \/ RevokesSyncEvent(t, e)
      BY <1>5, <2>1 DEF RevokesEvent, RevokesSyncEvent
    <2>2. CASE \/ UserExits(t) \/ PostReturns(t)
               \/ PostEnters(t, "postEnter", "postAppend") \/ PostEnters(t, "syncPost", "syncAppend")
               \/ SyncLooksUp(t) \/ SyncEnters(t) \/ SyncInline(t) \/ SyncBegins(t)
      BY <1>2, <2>2 DEF UserExits, PostReturns, PostEnters, SyncLooksUp, SyncEnters,
                        SyncInline, SyncBegins, evVars
    <2>3. CASE \/ SyncPosted(t) \/ SyncGivesUp(t) \/ SyncWaits(t) \/ SyncWoken(t)
               \/ SyncReenters(t) \/ SyncTakesResult(t) \/ SyncReturns(t)
      BY <1>2, <2>3 DEF SyncPosted, SyncGivesUp, SyncWaits, SyncWoken, SyncReenters,
                        SyncTakesResult, SyncReturns, Destroys, evVars
    <2>4. CASE \/ EventLoop(t) \/ WaitForEvent(t) \/ LoopWaits(t) \/ WaitForEventReturns(t)
      BY <1>2, <2>4 DEF EventLoop, WaitForEvent, LoopWaits, WaitForEventReturns, evVars
    <2>5. CASE \/ HandleEvent(t) \/ HandlerDestroys(t) \/ HandlerAnswers(t) \/ Answers(t)
      BY <1>2, <2>5 DEF HandleEvent, HandlerDestroys, HandlerAnswers, Answers, Destroys, evVars
    <2>6. CASE Cancels(t) \/ RevokeReturns(t)
      BY <1>2, <2>6 DEF Cancels, RevokeReturns, evVars
    <2>7. CASE Appends(t, "postAppend", "postExit") \/ Appends(t, "syncAppend", "syncPosted")
      BY <1>3, <2>7
    <2>8. CASE GetEvent(t)
      BY <1>4, <2>8
    <2>9. CASE Relock(t) /\ UNCHANGED <<monVars, evVars>>
      BY <1>2, <2>9 DEF evVars
    <2> HIDE DEF EventsHaveBytes
    <2> QED  BY <1>9, <2>1, <2>2, <2>3, <2>4, <2>5, <2>6, <2>7, <2>8, <2>9 DEF EvGoesOn
  <1> QED  BY <1>6, <1>7, <1>8, <1>9 DEF EvNext

\* An entry of the cache of monitors counts exactly the threads that use its address,
\* and they have its monitor, whoever is interrupted; no entry is taken that is not
\* free, and every event in the queue has a byte in the pipe.
THEOREM SpecEvInv == EvSpec => []EvInv
PROOF
  <1>1. EvIInv => EvTypeOK /\ CacheEntriesAreCounted
    <2> SUFFICES ASSUME EvIInv  PROVE CacheEntriesAreCounted
      BY DEF EvIInv
    <2>1. \A t \in Threads : InCachedMonitor(t) <=> pc[t] \in CachedPcs
      BY DEF InCachedMonitor, CachedPcs, EnteredPcs
    <2>2. \A e \in Events : {t \in Threads : InCachedMonitor(t) /\ event[t] = e} = Users(e)
      BY <2>1 DEF Users
    <2> QED  BY <2>2 DEF EvIInv, UsersInv, CacheEntriesAreCounted
  <1>2. EvInit => EventsHaveBytes
    BY DEF EvInit, EventsHaveBytes
  <1>3. EvIInv /\ EventsHaveBytes /\ [EvNext]_vars => EventsHaveBytes'
    BY NextEventsHaveBytes
  <1>4. EvSpec => []EventsHaveBytes
    BY <1>2, <1>3, SpecEvIInv, PTL DEF EvSpec
  <1> QED  BY <1>1, <1>4, SpecEvIInv, PTL DEF EvInv


-----------------------------------------------------------------------------
(* The way of an event: who may have it in hand.                           *)

\* Steps that are about one event, if any, and one thread that has it in hand:
\* everything else stays, up to posters that the step wakes.
FocusedOn(t, e) ==
  /\ \A u \in Threads \ {t} : /\ pc'[u] = pc[u] /\ event'[u] = event[u]
                              /\ interrupted'[u] = interrupted[u]
                              /\ event[u] # e /\ pc[u] = "syncWait" => phase'[u] = phase[u]
  /\ event[t] \in {e, NoEvent} /\ event'[t] \in {e, NoEvent}
  /\ \A f \in Events \ {e} : /\ result'[f] = result[f] /\ fate'[f] = fate[f]
                             /\ Queued(f)' => Queued(f)
                             /\ QueuedOnce(f) => QueuedOnce(f)'

\* Nobody who waits for an answer is woken but t.
PhaseStays(t) == \A u \in Threads \ {t} : /\ interrupted'[u] = interrupted[u]
                                          /\ pc[u] = "syncWait" => phase'[u] = phase[u]

\* The kinds of labels do not overlap, and cover the labels of a thread with an event.
LEMMA LabelKinds ==
  /\ PostingPcs \cap TakenPcs = {} /\ PostingPcs \cap ToldPcs = {} /\ TakenPcs \cap ToldPcs = {}
  /\ (PostPcs \cup SyncPcs) \cap (TakenPcs \cup ToldPcs) = {}
  /\ PostingPcs \subseteq PostPcs \cup SyncPcs
  /\ Pcs = IdlePcs \cup PostPcs \cup SyncPcs \cup TakenPcs \cup ToldPcs
  /\ IdlePcs \cap (PostPcs \cup SyncPcs \cup TakenPcs \cup ToldPcs) = {}
BY DEF PostingPcs, TakenPcs, ToldPcs, PostPcs, SyncPcs, Pcs, IdlePcs, HandlePcs, RevokePcs

\* A thread without an event has nothing to say about one.
LEMMA IdleFate ==
  ASSUME NEW t \in Threads, pc[t] \in IdlePcs
  PROVE  FateInv(t) /\ ~Asks(t) /\ ~Woken(t) /\ ~Returns(t) /\ pc[t] # "syncDestroy"
BY DEF IdlePcs, FateInv, PostingPcs, Asks, Woken, Returns

LEMMA IdleFateNext ==
  ASSUME NEW t \in Threads, pc'[t] \in IdlePcs
  PROVE  FateInv(t)'
BY DEF IdlePcs, FateInv, PostingPcs, Asks, Woken, Returns

\* An event has one poster.
LEMMA OnePoster ==
  ASSUME WayInv, NEW t \in Threads, NEW u \in Threads, event[t] = event[u],
         pc[t] \in PostPcs \cup SyncPcs, pc[u] \in PostPcs \cup SyncPcs
  PROVE  t = u
BY EventAssumption DEF WayInv, PosterInv

\* Who has an event that is queued or taken: whoever took it, and its poster.
LEMMA OpenEvent ==
  ASSUME EvIInv, WayInv, NEW e \in Events, Queued(e) \/ Taken(e), NEW u \in Threads,
         event[u] = e, pc[u] \notin TakenPcs
  PROVE  Asks(u) \/ pc[u] = "postExit"
PROOF
  <1>1. pc[u] \in PostPcs \cup SyncPcs \cup ToldPcs
    BY LabelKinds, EventAssumption DEF EvIInv, EvTypeOK, ThreadInv, Pcs
  <1>2. EventInv(e)
    BY DEF WayInv
  <1>3. pc[u] \notin PostingPcs
    <2>1. CASE Queued(e)
      BY <1>2, <2>1 DEF EventInv, PlaceInv, OpenInv, ToldInv, Has
    <2>2. CASE Taken(e)
      BY <1>2, <2>2, LabelKinds DEF EventInv, PlaceInv, OpenInv, ToldInv, Has, Taken
    <2> QED  BY <2>1, <2>2
  <1>4. ~Woken(u) /\ ~Returns(u) /\ pc[u] # "syncDestroy"
    BY <1>2 DEF EventInv, PlaceInv, OpenInv, ToldInv
  <1>5. pc[u] \notin ToldPcs
    BY <1>2 DEF EventInv, PlaceInv, OpenInv, ToldInv, Woken
  <1> QED  BY <1>1, <1>3, <1>4, <1>5
           DEF PostPcs, SyncPcs, PostingPcs, Asks, Woken, Returns

\* Once nobody else has the event, its poster has it alone.
Alone(t) == \/ pc[t] \in PostingPcs \/ Returns(t) \/ pc[t] = "syncDestroy"
            \/ Woken(t) /\ \A u \in Threads : ~(pc[u] \in ToldPcs /\ event[u] = event[t])

LEMMA AlonePoster ==
  ASSUME EvIInv, WayInv, NEW t \in Threads, NEW e \in Events, e = event[t], Alone(t)
  PROVE  ~Queued(e) /\ \A u \in Threads \ {t} : event[u] # e
PROOF
  <1>1. EventInv(e) /\ FateInv(t) /\ \A u \in Threads : FateInv(u)
    BY DEF WayInv
  <1>2. pc[t] \in PostPcs \cup SyncPcs
    BY DEF Alone, PostingPcs, Returns, Woken, PostPcs, SyncPcs
  <1>3. ~Queued(e)
    BY <1>1 DEF EventInv, PlaceInv, OpenInv, ToldInv, Has, Alone
  <1>4. ASSUME NEW u \in Threads \ {t}, event[u] = e  PROVE FALSE
    <2>1. pc[u] \in PostPcs \cup SyncPcs \cup TakenPcs \cup ToldPcs
      BY <1>4, LabelKinds, EventAssumption DEF EvIInv, EvTypeOK, ThreadInv, Pcs
    <2>2. pc[u] \notin PostPcs \cup SyncPcs
      BY <1>2, <1>4, OnePoster
    <2>3. pc[u] \notin TakenPcs
      <3>1. SUFFICES ASSUME pc[u] \in TakenPcs  PROVE FALSE
        OBVIOUS
      <3>2. Taken(e) /\ Has(u, e)
        BY <1>4, <3>1 DEF Taken, Has
      <3> QED  BY <1>1, <1>4, <3>2 DEF EventInv, PlaceInv, OpenInv, ToldInv, Has, Alone
    <2>4. pc[u] \notin ToldPcs
      <3>1. SUFFICES ASSUME pc[u] \in ToldPcs  PROVE FALSE
        OBVIOUS
      <3>2. PICK w \in Threads : pc[w] = "syncWait" /\ event[w] = e
        BY <1>1, <1>4, <3>1 DEF EventInv, PlaceInv, OpenInv, ToldInv
      <3>3. w = t
        <4>1. pc[w] \in PostPcs \cup SyncPcs
          BY <3>2 DEF SyncPcs
        <4> QED  BY <1>2, <3>2, <4>1, OnePoster
      <3> QED  BY <1>4, <3>1, <3>2, <3>3 DEF Alone, PostingPcs, Returns
    <2> QED  BY <2>1, <2>2, <2>3, <2>4
  <1> QED  BY <1>3, <1>4

-----------------------------------------------------------------------------
(* The way of an event: kinds of steps.                                    *)

\* A step about the event e leaves what it does not touch as it is.
LEMMA FocusStep ==
  ASSUME EvIInv, WayInv, NEW t \in Threads, NEW e, FocusedOn(t, e),
         PosterInv(t)', FateInv(t)',
         \A u \in Threads \ {t} : event[u] = e /\ e \in Events => FateInv(u)',
         e \in Events => EventInv(e)', e \in Events \cup {NoEvent}
  PROVE  WayInv'
PROOF
  <1>1. event \in [Threads -> Events \cup {NoEvent}] /\ NoEvent \notin Events
    BY EventAssumption DEF EvIInv, EvTypeOK
  <1>2. ASSUME NEW u \in Threads  PROVE PosterInv(u)' /\ FateInv(u)'
    <2>1. CASE u = t
      BY <2>1
    <2>2. CASE u # t /\ pc[u] \in IdlePcs
      <3>1. pc'[u] = pc[u] /\ event'[u] = event[u] /\ interrupted'[u] = interrupted[u]
        BY <2>2 DEF FocusedOn
      <3> QED  BY <2>2, <3>1, IdleFateNext DEF WayInv, PosterInv
    <2>3. CASE u # t /\ pc[u] \notin IdlePcs
      <3>1. event[u] \in Events
        BY <1>1, <2>3 DEF EvIInv, ThreadInv
      <3>2. pc'[u] = pc[u] /\ event'[u] = event[u] /\ interrupted'[u] = interrupted[u]
        BY <2>3 DEF FocusedOn
      <3>3. PosterInv(u)'
        BY <3>2 DEF WayInv, PosterInv
      <3>4. FateInv(u)'
        <4>1. CASE event[u] = e
          BY <2>3, <3>1, <4>1
        <4>2. CASE event[u] # e
          <5>1. /\ result'[event[u]] = result[event[u]] /\ fate'[event[u]] = fate[event[u]]
                /\ pc[u] = "syncWait" => phase'[u] = phase[u]
            BY <2>3, <3>1, <4>2 DEF FocusedOn
          <5> QED  BY <3>2, <5>1 DEF WayInv, FateInv, Asks, Woken, Returns, Answered
        <4> QED  BY <4>1, <4>2
      <3> QED  BY <3>3, <3>4
    <2> QED  BY <2>1, <2>2, <2>3
  <1>3. ASSUME NEW f \in Events  PROVE EventInv(f)'
    <2>1. CASE f = e
      BY <2>1
    <2>2. CASE f # e
      <3>1. EventInv(f)
        BY DEF WayInv
      <3>2. /\ result'[f] = result[f] /\ fate'[f] = fate[f]
            /\ Queued(f)' => Queued(f)
            /\ QueuedOnce(f)'
        BY <2>2, <3>1 DEF FocusedOn, EventInv, PlaceInv, OpenInv, ToldInv
      <3>3. event[t] # f /\ event'[t] # f
        BY <1>1, <2>2 DEF FocusedOn
      <3>4. ASSUME NEW u \in Threads
            PROVE  /\ event'[u] = f <=> event[u] = f
                   /\ event[u] = f => /\ pc'[u] = pc[u]
                                      /\ pc[u] = "syncWait" => phase'[u] = phase[u]
        BY <2>2, <3>3 DEF FocusedOn
      <3>5. ASSUME NEW u \in Threads, event[u] = f
            PROVE  /\ Has(u, f)' <=> Has(u, f)
                   /\ Asks(u)' <=> Asks(u)
                   /\ Woken(u)' <=> Woken(u)
                   /\ Returns(u)' <=> Returns(u)
        BY <3>4, <3>5 DEF Has, Asks, Woken, Returns
      <3>6. \A u \in Threads : Has(u, f)' => Has(u, f)
        BY <3>4 DEF Has
      <3>7. Taken(f)' => Taken(f)
        BY <3>4 DEF Taken
      <3>8. (\E u \in Threads : Asks(u) /\ event[u] = f)
              => \E u \in Threads : Asks(u)' /\ event'[u] = f
        BY <3>4, <3>5
      <3>9. \A u \in Threads : event'[u] = f =>
              /\ event[u] = f /\ pc'[u] = pc[u]
              /\ Woken(u)' => Woken(u)
              /\ Returns(u)' => Returns(u)
        BY <3>4, <3>5
      <3>10. ASSUME NEW u \in Threads, pc'[u] \in ToldPcs, event'[u] = f
             PROVE  \E w \in Threads : pc'[w] = "syncWait" /\ phase'[w] = "woken" /\ event'[w] = f
        <4>1. PICK w \in Threads : pc[w] = "syncWait" /\ phase[w] = "woken" /\ event[w] = f
          BY <3>1, <3>4, <3>10 DEF EventInv, PlaceInv, OpenInv, ToldInv
        <4> QED  BY <3>4, <4>1
      <3>11. Queued(f)' => fate'[f] = "new" /\ \A u \in Threads : ~Has(u, f)'
        BY <3>1, <3>2, <3>6 DEF EventInv, PlaceInv, OpenInv, ToldInv
      <3>12. Queued(f)' \/ Taken(f)' =>
               /\ \/ result'[f] = "NULL"
                  \/ result'[f] = "TRUE" /\ \E u \in Threads : Asks(u)' /\ event'[u] = f
               /\ \A u \in Threads : event'[u] = f =>
                    ~Woken(u)' /\ ~Returns(u)' /\ pc'[u] # "syncDestroy"
        BY <3>1, <3>2, <3>4, <3>7, <3>8, <3>9 DEF EventInv, PlaceInv, OpenInv, ToldInv
      <3>13. \A u, w \in Threads : Has(u, f)' /\ Has(w, f)' => u = w
        BY <3>1, <3>6 DEF EventInv, PlaceInv, OpenInv, ToldInv
      <3>14. PlaceInv(f)'
        BY <3>2, <3>11, <3>13 DEF PlaceInv
      <3>15. OpenInv(f)'
        BY <3>12 DEF OpenInv
      <3>16. ToldInv(f)'
        BY <3>10 DEF ToldInv
      <3> QED  BY <3>14, <3>15, <3>16 DEF EventInv
    <2> QED  BY <2>1, <2>2
  <1> QED  BY <1>2, <1>3 DEF WayInv

\* What a step does not touch of the queue.
LEMMA QueueStays ==
  ASSUME queue' = queue, NEW f
  PROVE  /\ Queued(f)' <=> Queued(f)
         /\ QueuedOnce(f)' <=> QueuedOnce(f)
BY DEF Queued, QueuedOnce

\* The poster has the event alone, and goes on with it.
LEMMA AloneStep ==
  ASSUME EvIInv, WayInv, NEW t \in Threads, NEW e, e = event[t], Alone(t), queue' = queue,
         PhaseStays(t), \A u \in Threads \ {t} : pc'[u] = pc[u] /\ event'[u] = event[u],
         event'[t] \in {e, NoEvent}, pc'[t] \notin TakenPcs \cup ToldPcs,
         \A f \in Events \ {e} : result'[f] = result[f] /\ fate'[f] = fate[f],
         PosterInv(t)', FateInv(t)'
  PROVE  WayInv'
PROOF
  <1>1. e \in Events
    <2>1. pc[t] \notin IdlePcs
      BY DEF Alone, PostingPcs, Returns, Woken, IdlePcs
    <2> QED  BY <2>1, EventAssumption DEF EvIInv, EvTypeOK, ThreadInv
  <1>2. ~Queued(e) /\ \A u \in Threads \ {t} : event[u] # e
    BY <1>1, AlonePoster
  <1>3. FocusedOn(t, e)
    BY QueueStays DEF FocusedOn, PhaseStays
  <1>4. EventInv(e)'
    <2>1. ~Queued(e)' /\ QueuedOnce(e)'
      BY <1>2, QueueStays DEF Queued, QueuedOnce
    <2>2. \A u \in Threads \ {t} : event'[u] # e
      BY <1>2
    <2>3. ~Taken(e)' /\ \A u, w \in Threads : Has(u, e)' /\ Has(w, e)' => u = w
      BY <2>2 DEF Taken, Has
    <2> QED  BY <2>1, <2>2, <2>3 DEF EventInv, PlaceInv, OpenInv, ToldInv
  <1> QED  BY <1>1, <1>2, <1>3, <1>4, FocusStep

\* A thread without an event goes on without one.
LEMMA IdleStep ==
  ASSUME EvIInv, WayInv, NEW t \in Threads, event[t] = NoEvent, event'[t] = NoEvent,
         PhaseStays(t), UNCHANGED <<queue, result, fate>>,
         \A u \in Threads \ {t} : pc'[u] = pc[u] /\ event'[u] = event[u],
         pc'[t] \in IdlePcs, t \in SyncPosters => interrupted'[t] = FALSE
  PROVE  WayInv'
PROOF
  <1>1. FocusedOn(t, NoEvent)
    BY QueueStays DEF FocusedOn, PhaseStays
  <1>2. PosterInv(t)'
    <2>1. pc'[t] \notin PostPcs \cup SyncPcs
      BY LabelKinds
    <2> QED  BY <2>1 DEF PosterInv
  <1>3. FateInv(t)' /\ NoEvent \notin Events
    BY IdleFateNext, EventAssumption
  <1> QED  BY <1>1, <1>2, <1>3, FocusStep

\* A thread goes on with its event, and stays what it is to it.
LEMMA QuietStep ==
  ASSUME EvIInv, WayInv, NEW t \in Threads, NEW e, e = event[t], NEW from, NEW to,
         OneGoes(t, from, to), PhaseStays(t), UNCHANGED <<queue, result, event>>,
         fate' = fate \/ ~Queued(e), FateInv(t)',
         \A f \in Events \ {e} : fate'[f] = fate[f],
         \A u \in Threads \ {t} : event[u] = e => FateInv(u)',
         t \in SyncPosters => interrupted'[t] = FALSE,
         \/ from = "gotEvent" /\ to = "handle"
         \/ from = "handle" /\ to = "handled"
         \/ from = "handled" /\ to = "resEnter"
         \/ from = "resEnter" /\ to = "resSet"
         \/ from = "revEnter" /\ to = "revSet"
         \/ from = "syncPosted" /\ to = "syncGiveUp"
         \/ from = "syncGiveUp" /\ to = "syncCWait"
         \/ from = "syncCWait" /\ to = "syncWait" /\ phase'[t] = "waiting"
         \/ from = to /\ from # "syncWait"
  PROVE  WayInv'
PROOF
  <1>1. /\ PosterInv(t) /\ event \in [Threads -> Events \cup {NoEvent}] /\ NoEvent \notin Events
        /\ pc \in [Threads -> Pcs]
    BY EventAssumption DEF WayInv, EvIInv, EvTypeOK, Pcs
  <1>2. pc[t] = from /\ pc'[t] = to /\ \A u \in Threads \ {t} : pc'[u] = pc[u]
    BY <1>1 DEF OneGoes
  <1>3. PosterInv(t)'
    <2>1. /\ to \in PostPcs \cup SyncPcs => from \in PostPcs \cup SyncPcs
          /\ to \in SyncPcs => from \in SyncPcs
      BY DEF PostPcs, SyncPcs
    <2> QED  BY <1>1, <1>2, <2>1 DEF PosterInv
  <1>4. FocusedOn(t, e)
    <2>1. event[t] \in {e, NoEvent} /\ event'[t] \in {e, NoEvent}
      OBVIOUS
    <2> QED  BY <1>2, <2>1, QueueStays DEF FocusedOn, PhaseStays
  <1>5. ASSUME e \in Events  PROVE EventInv(e)'
    <2>1. EventInv(e)
      BY <1>5 DEF WayInv
    <2>2. ASSUME NEW u \in Threads, event[u] = e
          PROVE  /\ event'[u] = e
                 /\ Has(u, e)' <=> Has(u, e)
                 /\ pc'[u] \in TakenPcs <=> pc[u] \in TakenPcs
                 /\ pc'[u] \in ToldPcs <=> pc[u] \in ToldPcs
                 /\ Asks(u)' <=> Asks(u)
                 /\ Woken(u)' <=> Woken(u)
                 /\ Returns(u)' <=> Returns(u)
                 /\ pc'[u] = "syncDestroy" <=> pc[u] = "syncDestroy"
                 /\ pc[u] = "syncWait" => pc'[u] = "syncWait" /\ phase'[u] = phase[u]
      <3>1. CASE u # t
        BY <1>2, <2>2, <3>1 DEF PhaseStays, Has, Asks, Woken, Returns
      <3>2. CASE u = t
        BY <1>2, <2>2, <3>2
        DEF Has, Asks, Woken, Returns, TakenPcs, ToldPcs, PostingPcs
      <3> QED  BY <3>1, <3>2
    <2>3. /\ Taken(e)' <=> Taken(e)
          /\ Queued(e)' <=> Queued(e)
          /\ QueuedOnce(e)' <=> QueuedOnce(e)
      BY <2>2, QueueStays DEF Taken
    <2>4. \A u \in Threads : Has(u, e)' => Has(u, e)
      BY <2>2 DEF Has
    <2>5. Queued(e) => fate'[e] = fate[e]
      OBVIOUS
    <2>6. PlaceInv(e)'
      BY <2>1, <2>3, <2>4, <2>5 DEF EventInv, PlaceInv
    <2>7. OpenInv(e)'
      <3>1. result'[e] = result[e] /\ \A u \in Threads : event'[u] = e <=> event[u] = e
        OBVIOUS
      <3>2. (\E u \in Threads : Asks(u) /\ event[u] = e)
              => \E u \in Threads : Asks(u)' /\ event'[u] = e
        BY <2>2
      <3> QED  BY <2>1, <2>2, <2>3, <3>1, <3>2 DEF EventInv, OpenInv
    <2>8. ToldInv(e)'
      <3> SUFFICES ASSUME NEW u \in Threads, pc'[u] \in ToldPcs, event'[u] = e
                   PROVE  \E w \in Threads :
                            pc'[w] = "syncWait" /\ phase'[w] = "woken" /\ event'[w] = e
        BY DEF ToldInv
      <3>1. event[u] = e /\ pc[u] \in ToldPcs
        BY <2>2
      <3>2. PICK w \in Threads : pc[w] = "syncWait" /\ phase[w] = "woken" /\ event[w] = e
        BY <2>1, <3>1 DEF EventInv, ToldInv
      <3> QED  BY <2>2, <3>2
    <2> QED  BY <2>6, <2>7, <2>8 DEF EventInv
  <1> QED  BY <1>1, <1>3, <1>4, <1>5, FocusStep

\* Somebody who has told the poster, or has posted an event that nobody awaits, is
\* done with it.
LEMMA ForgetStep ==
  ASSUME EvIInv, WayInv, NEW t \in Threads, NEW e \in Events, e = event[t],
         NEW from \in ToldPcs \cup {"postExit"}, NEW to \in {"run", "revoking"},
         OneGoes(t, from, to), PhaseStays(t), interrupted' = interrupted,
         UNCHANGED <<queue, result, fate>>, event' = [event EXCEPT ![t] = NoEvent]
  PROVE  WayInv'
PROOF
  <1>1. /\ PosterInv(t) /\ event \in [Threads -> Events \cup {NoEvent}] /\ NoEvent \notin Events
        /\ pc \in [Threads -> Pcs] /\ EventInv(e) /\ \A u \in Threads : FateInv(u)
    BY EventAssumption DEF WayInv, EvIInv, EvTypeOK, Pcs
  <1>2. /\ pc[t] = from /\ pc'[t] = to /\ \A u \in Threads \ {t} : pc'[u] = pc[u]
        /\ event'[t] = NoEvent /\ \A u \in Threads \ {t} : event'[u] = event[u]
    BY <1>1 DEF OneGoes
  <1>3. to \in IdlePcs
    BY DEF IdlePcs
  <1>4. PosterInv(t)' /\ FateInv(t)'
    <2>1. to \notin PostPcs \cup SyncPcs
      BY <1>3, LabelKinds
    <2> QED  BY <1>1, <1>2, <1>3, <2>1, IdleFateNext DEF PosterInv
  <1>5. FocusedOn(t, e)
    BY <1>2, QueueStays DEF FocusedOn, PhaseStays
  <1>6. ASSUME NEW u \in Threads \ {t}
        PROVE  /\ FateInv(u)'
               /\ Has(u, e)' <=> Has(u, e)
               /\ Asks(u)' <=> Asks(u)
               /\ Woken(u)' <=> Woken(u)
               /\ Returns(u)' <=> Returns(u)
               /\ pc[u] = "syncWait" => phase'[u] = phase[u]
    BY <1>1, <1>2 DEF PhaseStays, Has, Asks, Woken, Returns, FateInv, Answered
  <1>7. /\ ~Has(t, e)' /\ ~Asks(t) /\ from \notin TakenPcs
    BY <1>1, <1>2 DEF Has, Asks, TakenPcs, ToldPcs
  <1>8. /\ Taken(e)' => Taken(e)
        /\ Queued(e)' <=> Queued(e)
        /\ QueuedOnce(e)' <=> QueuedOnce(e)
    BY <1>1, <1>2, QueueStays DEF Taken
  <1>9. PlaceInv(e)'
    <2>1. \A u \in Threads : Has(u, e)' => Has(u, e)
      BY <1>6, <1>7
    <2> QED  BY <1>1, <1>8, <2>1 DEF EventInv, PlaceInv
  <1>10. OpenInv(e)'
    <2>1. (\E u \in Threads : Asks(u) /\ event[u] = e)
            => \E u \in Threads : Asks(u)' /\ event'[u] = e
      BY <1>2, <1>6, <1>7
    <2>2. \A u \in Threads : event'[u] = e => u \in Threads \ {t}
      BY <1>1, <1>2
    <2> QED  BY <1>1, <1>2, <1>6, <1>8, <2>1, <2>2 DEF EventInv, OpenInv
  <1>11. ToldInv(e)'
    <2> SUFFICES ASSUME NEW u \in Threads, pc'[u] \in ToldPcs, event'[u] = e
                 PROVE  \E w \in Threads :
                          pc'[w] = "syncWait" /\ phase'[w] = "woken" /\ event'[w] = e
      BY DEF ToldInv
    <2>1. u # t /\ event[u] = e /\ pc[u] \in ToldPcs
      BY <1>1, <1>2
    <2>2. PICK w \in Threads : pc[w] = "syncWait" /\ phase[w] = "woken" /\ event[w] = e
      BY <1>1, <2>1 DEF EventInv, ToldInv
    <2>3. w # t
      BY <1>2, <2>2 DEF ToldPcs
    <2> QED  BY <1>2, <1>6, <2>2, <2>3
  <1>12. EventInv(e)'
    BY <1>9, <1>10, <1>11 DEF EventInv
  <1> QED  BY <1>4, <1>5, <1>6, <1>12, FocusStep

\* A thread takes an event from the queue.
LEMMA TakeStep ==
  ASSUME EvIInv, WayInv, NEW t \in Threads, NEW e \in Events, Queued(e),
         NEW to \in {"gotEvent", "revEnter"}, event[t] = NoEvent, pc[t] \in IdlePcs,
         pc' = [pc EXCEPT ![t] = to], event' = [event EXCEPT ![t] = e],
         UNCHANGED <<result, fate>>, to = "revEnter" => result[e] = "TRUE",
         ~Queued(e)', \A f \in Events : Queued(f)' => Queued(f),
         \A f \in Events : QueuedOnce(f) => QueuedOnce(f)',
         PhaseStays(t), interrupted' = interrupted
  PROVE  WayInv'
PROOF
  <1>1. /\ PosterInv(t) /\ event \in [Threads -> Events \cup {NoEvent}] /\ NoEvent \notin Events
        /\ pc \in [Threads -> Pcs] /\ EventInv(e) /\ \A u \in Threads : FateInv(u)
    BY EventAssumption DEF WayInv, EvIInv, EvTypeOK, Pcs
  <1>2. /\ pc'[t] = to /\ \A u \in Threads \ {t} : pc'[u] = pc[u]
        /\ event'[t] = e /\ \A u \in Threads \ {t} : event'[u] = event[u]
    BY <1>1
  <1>3. to \in TakenPcs /\ to \notin ToldPcs
    BY DEF TakenPcs, ToldPcs
  <1>4. PosterInv(t)'
    BY <1>1, <1>2, <1>3, LabelKinds DEF PosterInv
  <1>5. fate[e] = "new"
    BY <1>1 DEF EventInv, PlaceInv
  <1>6. FateInv(t)'
    BY <1>2, <1>5 DEF FateInv, PostingPcs, Asks, Woken, Returns
  <1>7. FocusedOn(t, e)
    BY <1>2 DEF FocusedOn, PhaseStays
  <1>8. ASSUME NEW u \in Threads \ {t}, event[u] = e
        PROVE  /\ FateInv(u)' /\ pc'[u] \notin TakenPcs \cup ToldPcs /\ ~Has(u, e)'
               /\ Asks(u)' <=> Asks(u)
               /\ ~Woken(u)' /\ ~Returns(u)' /\ pc'[u] # "syncDestroy"
    <2>1. ~Has(u, e)
      BY <1>1 DEF EventInv, PlaceInv
    <2>2. pc[u] \notin TakenPcs
      BY <1>8, <2>1 DEF Has
    <2>3. Asks(u) \/ pc[u] = "postExit"
      BY <1>8, <2>2, OpenEvent
    <2>4. pc[u] \notin ToldPcs /\ ~Woken(u) /\ ~Returns(u) /\ pc[u] # "syncDestroy"
      BY <2>3 DEF Asks, Woken, Returns, ToldPcs
    <2> QED  BY <1>1, <1>2, <1>8, <2>1, <2>2, <2>4
             DEF PhaseStays, Has, Asks, Woken, Returns, FateInv, Answered
  <1>9. PlaceInv(e)'
    <2>1. QueuedOnce(e)'
      BY <1>1 DEF EventInv, PlaceInv
    <2>2. \A u \in Threads : Has(u, e)' => u = t
      BY <1>2, <1>8 DEF Has
    <2> QED  BY <2>1, <2>2 DEF PlaceInv
  <1>10. OpenInv(e)'
    <2>1. (\E u \in Threads : Asks(u) /\ event[u] = e)
            => \E u \in Threads : Asks(u)' /\ event'[u] = e
      BY <1>1, <1>2, <1>8
    <2>2. \A u \in Threads : event'[u] = e => u = t \/ event[u] = e
      BY <1>2
    <2>3. ~Woken(t)' /\ ~Returns(t)' /\ pc'[t] # "syncDestroy"
      BY <1>2 DEF Woken, Returns
    <2> QED  BY <1>1, <1>8, <2>1, <2>2, <2>3 DEF EventInv, OpenInv
  <1>11. ToldInv(e)'
    BY <1>2, <1>3, <1>8 DEF ToldInv
  <1>12. EventInv(e)'
    BY <1>9, <1>10, <1>11 DEF EventInv
  <1> QED  BY <1>4, <1>6, <1>7, <1>8, <1>12, FocusStep

\* An event that nobody awaits is destroyed by whoever has taken it.
LEMMA DoneStep ==
  ASSUME EvIInv, WayInv, NEW t \in Threads, NEW e \in Events,
         \/ Queued(e) /\ event[t] = NoEvent
         \/ pc[t] \in TakenPcs /\ event[t] = e,
         result[e] = "NULL", result' = result, \A f \in Events \ {e} : fate'[f] = fate[f],
         \A u \in Threads \ {t} : pc'[u] = pc[u] /\ event'[u] = event[u],
         pc'[t] \in IdlePcs, event'[t] = NoEvent,
         ~Queued(e)', \A f \in Events : Queued(f)' => Queued(f),
         \A f \in Events : QueuedOnce(f) => QueuedOnce(f)',
         PhaseStays(t), interrupted' = interrupted
  PROVE  WayInv'
PROOF
  <1>1. /\ PosterInv(t) /\ NoEvent \notin Events
        /\ EventInv(e) /\ \A u \in Threads : FateInv(u)
    BY EventAssumption DEF WayInv
  <1>2. Queued(e) \/ Taken(e)
    BY DEF Taken
  <1>3. PosterInv(t)' /\ FateInv(t)'
    BY <1>1, IdleFateNext, LabelKinds DEF PosterInv
  <1>4. FocusedOn(t, e)
    BY DEF FocusedOn, PhaseStays
  <1>5. ASSUME NEW u \in Threads \ {t}, event[u] = e  PROVE pc'[u] = "postExit"
    <2>1. pc[u] \notin TakenPcs
      BY <1>1, <1>5 DEF EventInv, PlaceInv, Has
    <2>2. Asks(u) \/ pc[u] = "postExit"
      BY <1>2, <1>5, <2>1, OpenEvent
    <2>3. ~Asks(u)
      BY <1>1, <1>5 DEF FateInv
    <2> QED  BY <2>2, <2>3
  <1>6. \A u \in Threads \ {t} : event[u] = e => FateInv(u)'
    BY <1>5 DEF FateInv, PostingPcs, Asks, Woken, Returns
  <1>7. \A u \in Threads : event'[u] = e => pc'[u] = "postExit"
    BY <1>1, <1>5
  <1>8. EventInv(e)'
    <2>1. QueuedOnce(e)'
      BY <1>1 DEF EventInv, PlaceInv
    <2>2. \A u \in Threads : ~Has(u, e)'
      BY <1>7 DEF Has, PostingPcs, TakenPcs
    <2>3. ~Taken(e)'
      BY <1>7 DEF Taken, TakenPcs
    <2>4. ToldInv(e)'
      BY <1>7 DEF ToldInv, ToldPcs
    <2> QED  BY <2>1, <2>2, <2>3, <2>4 DEF EventInv, PlaceInv, OpenInv
  <1> QED  BY <1>3, <1>4, <1>6, <1>8, FocusStep

\* Who waits on the monitor of an event is its poster.
LEMMA OneWaits ==
  ASSUME EvIInv, WayInv, NEW t \in Threads, pc[t] \in {"resSet", "revSet"},
         NEW e \in Events, e = event[t]
  PROVE  \E u \in Threads : /\ u # t /\ pc[u] = "syncWait" /\ event[u] = e
                            /\ Waiting(MonCvar[mon[t]]) = {u}
PROOF
  <1>1. Taken(e) /\ EventInv(e) /\ FateInv(t) /\ ThreadInv(t)
    BY DEF Taken, TakenPcs, WayInv, EvIInv
  <1>2. PICK u \in Threads : Asks(u) /\ event[u] = e
    BY <1>1 DEF EventInv, OpenInv, FateInv
  <1>3. t \in Users(e) /\ u \in Users(e) /\ u # t /\ t \in Users(event[t])
    BY <1>2 DEF Users, CachedPcs, EnteredPcs, Asks
  <1>4. mon[t] = cached[e] /\ mon[u] = cached[e]
    BY <1>3 DEF EvIInv, UsersInv
  <1>5. holder[mon[t]] = t
    BY <1>1 DEF ThreadInv, HeldInv, EnteredPcs
  <1>6. pc[u] = "syncWait" /\ phase[u] = "waiting" /\ on[u] = MonCvar[mon[t]]
    <2>1. ThreadInv(u)
      BY DEF EvIInv
    <2>2. pc[u] \notin EnteredPcs
      BY <1>3, <1>4, <1>5, <2>1 DEF ThreadInv, HeldInv
    <2>3. pc[u] = "syncWait" /\ phase[u] = "waiting"
      BY <1>2, <2>2 DEF Asks, EnteredPcs
    <2> QED  BY <1>4, <2>1, <2>3 DEF ThreadInv, WaitInv
  <1>7. ASSUME NEW w \in Waiting(MonCvar[mon[t]])  PROVE w = u
    <2>1. w \in Threads /\ on[w] = MonCvar[mon[t]] /\ phase[w] = "waiting"
      BY DEF Waiting
    <2>2. ThreadInv(w) /\ mon[t] \in CacheMonitors
      BY <1>1, <2>1 DEF EvIInv, ThreadInv, HeldInv, CachedPcs, EnteredPcs
    <2>3. pc[w] \in WaitPcs
      BY <2>1, <2>2 DEF ThreadInv, WaitInv
    <2>4. pc[w] = "syncWait"
      BY <2>1, <2>2, <2>3, CacheMonitorsAreMonitors DEF WaitPcs, ThreadInv, WaitInv
    <2>5. mon[w] = mon[t]
      <3>1. mon[w] \in CacheMonitors /\ on[w] = MonCvar[mon[w]]
        BY <2>2, <2>4 DEF ThreadInv, HeldInv, WaitInv, CachedPcs
      <3> QED  BY <2>1, <2>2, <3>1, CacheMonitorsAreMonitors
    <2>6. event[w] \in Events
      BY <2>1, <2>2, <2>4, EventAssumption DEF EvIInv, EvTypeOK, ThreadInv, IdlePcs
    <2>7. w \in Users(event[w])
      BY <2>1, <2>4 DEF Users, CachedPcs
    <2>8. cached[event[w]] = cached[e] /\ cached[e] # NoMonitor
      BY <1>3, <1>4, <2>5, <2>6, <2>7 DEF EvIInv, UsersInv
    <2>9. event[w] = e
      BY <2>6, <2>8 DEF EvIInv, CacheInv, InUse
    <2> QED  BY <1>2, <1>6, <2>1, <2>4, <2>9, OnePoster DEF SyncPcs
  <1>8. u \in Waiting(MonCvar[mon[t]])
    BY <1>6 DEF Waiting
  <1> QED  BY <1>2, <1>3, <1>6, <1>7, <1>8

\* The poster is told, and nobody else.
LEMMA TellStep ==
  ASSUME EvIInv, WayInv, NEW t \in Threads, NEW e \in Events, e = event[t],
         NEW from, NEW to, CNotifies(t, from), GoTo(t, to), UNCHANGED <<queue, event>>,
         \A f \in Events \ {e} : result'[f] = result[f] /\ fate'[f] = fate[f],
         \/ /\ from = "resSet" /\ to = "resExit"
            /\ result'[e] = "value" /\ fate'[e] = fate[e]
         \/ /\ from = "revSet" /\ to = "revExit"
            /\ result'[e] = "NULL" /\ fate'[e] = "revoked"
  PROVE  WayInv'
PROOF
  <1>1. /\ PosterInv(t) /\ FateInv(t) /\ EventInv(e) /\ event \in [Threads -> Events \cup {NoEvent}]
        /\ pc \in [Threads -> Pcs] /\ phase \in [Threads -> Phases]
    BY DEF WayInv, EvIInv, EvTypeOK, ACvTypeOK, Pcs
  <1>2. /\ pc[t] = from /\ pc'[t] = to /\ \A u \in Threads \ {t} : pc'[u] = pc[u]
        /\ Notify(t, MonCvar[mon[t]])
    BY <1>1 DEF CNotifies, MonNotify, At, GoTo
  <1>3. PICK u \in Threads : /\ u # t /\ pc[u] = "syncWait" /\ event[u] = e
                             /\ Waiting(MonCvar[mon[t]]) = {u}
    BY <1>2, OneWaits
  <1>4. /\ interrupted' = interrupted
        /\ phase'[u] = "woken" /\ \A v \in Threads \ {u} : phase'[v] = phase[v]
    BY <1>2, <1>3 DEF Notify, Wake
  <1>5. FocusedOn(t, e)
    BY <1>2, <1>3, <1>4, QueueStays DEF FocusedOn
  <1>6. Answered(e)'
    BY <1>1, <1>2 DEF Answered, FateInv
  <1>7. PosterInv(t)'
    <2>1. to \notin PostPcs \cup SyncPcs
      BY DEF PostPcs, SyncPcs
    <2> QED  BY <1>1, <1>2, <1>4, <2>1 DEF PosterInv
  <1>8. FateInv(t)'
    BY <1>1, <1>2 DEF FateInv, PostingPcs, Asks, Woken, Returns
  <1>9. ASSUME NEW v \in Threads \ {t}, event[v] = e  PROVE v = u \/ pc[v] = "postExit"
    <2>1. Has(t, e) /\ Taken(e)
      BY <1>2 DEF Has, Taken, TakenPcs
    <2>2. pc[v] \notin TakenPcs
      BY <1>1, <1>9, <2>1 DEF EventInv, PlaceInv, Has
    <2>3. Asks(v) \/ pc[v] = "postExit"
      BY <1>9, <2>1, <2>2, OpenEvent
    <2>4. ASSUME Asks(v)  PROVE v = u
      <3>1. pc[v] \in PostPcs \cup SyncPcs /\ pc[u] \in PostPcs \cup SyncPcs
        BY <1>3, <2>4 DEF Asks, SyncPcs
      <3> QED  BY <1>3, <1>9, <3>1, OnePoster
    <2> QED  BY <2>3, <2>4
  <1>10. FateInv(u)' /\ pc'[u] = "syncWait"
    <2>1. pc'[u] = "syncWait" /\ event'[u] = e
      BY <1>2, <1>3
    <2> QED  BY <1>4, <1>6, <2>1 DEF FateInv, PostingPcs, Asks, Woken, Returns
  <1>11. \A v \in Threads \ {t} : event[v] = e => FateInv(v)'
    <2>1. ASSUME NEW v \in Threads \ {t}, pc[v] = "postExit"  PROVE FateInv(v)'
      BY <1>2, <2>1 DEF FateInv, PostingPcs, Asks, Woken, Returns
    <2> QED  BY <1>9, <1>10, <2>1
  <1>12. EventInv(e)'
    <2>1. ~Queued(e)' /\ QueuedOnce(e)'
      BY <1>1, <1>2, QueueStays DEF EventInv, PlaceInv, Has, TakenPcs
    <2>2. \A v \in Threads : event'[v] = e => pc'[v] \in {to, "syncWait", "postExit"}
      BY <1>2, <1>9, <1>10
    <2>3. \A v \in Threads : event'[v] = e => pc'[v] \notin PostingPcs \cup TakenPcs
      BY <2>2 DEF PostingPcs, TakenPcs
    <2>4. ~Taken(e)' /\ PlaceInv(e)'
      BY <2>1, <2>3 DEF Taken, PlaceInv, Has
    <2>5. ToldInv(e)'
      BY <1>3, <1>4, <1>10 DEF ToldInv
    <2> QED  BY <2>1, <2>4, <2>5 DEF EventInv, OpenInv
  <1> QED  BY <1>5, <1>7, <1>8, <1>11, <1>12, FocusStep

-----------------------------------------------------------------------------
(* The way of an event: the steps.                                         *)

LEMMA InitEventWay ==
  ASSUME EvIInv, WayInv, NEW t \in Threads, NEW to, InitEvent(t, to),
         \/ to = "postEnter"
         \/ to = "syncLookup" /\ t \in SyncPosters
  PROVE  WayInv'
PROOF
  <1> DEFINE e == EventOf[t]
  <1>1. /\ t \in Posters /\ fate[e] = "none" /\ pc[t] = "run" /\ pc' = [pc EXCEPT ![t] = to]
        /\ UNCHANGED <<phase, interrupted, queue>>
        /\ event' = [event EXCEPT ![t] = e] /\ fate' = [fate EXCEPT ![e] = "new"]
        /\ result' = [result EXCEPT ![e] = "NULL"]
    BY DEF InitEvent, Continue, At, GoTo, acvVars
  <1>2. e \in Events /\ NoEvent \notin Events
    BY <1>1, EventAssumption
  <1> HIDE DEF e
  <1>3. /\ PosterInv(t) /\ EventInv(e) /\ event \in [Threads -> Events \cup {NoEvent}]
        /\ pc \in [Threads -> Pcs] /\ result \in [Events -> Results] /\ fate \in [Events -> Fates]
        /\ event[t] = NoEvent
    BY <1>1, <1>2 DEF WayInv, EvIInv, EvTypeOK, Pcs, ThreadInv, IdlePcs
  <1>4. /\ pc'[t] = to /\ event'[t] = e /\ fate'[e] = "new" /\ result'[e] = "NULL"
        /\ \A u \in Threads \ {t} : pc'[u] = pc[u] /\ event'[u] = event[u]
        /\ \A f \in Events \ {e} : result'[f] = result[f] /\ fate'[f] = fate[f]
    BY <1>1, <1>2, <1>3
  <1>5. FocusedOn(t, e)
    BY <1>1, <1>3, <1>4, QueueStays DEF FocusedOn
  <1>6. PosterInv(t)' /\ FateInv(t)'
    <2>1. to \in PostPcs \cup SyncPcs /\ (to \in SyncPcs => t \in SyncPosters)
      BY DEF PostPcs, SyncPcs
    <2>2. PosterInv(t)'
      BY <1>1, <1>3, <1>4, <2>1 DEF PosterInv, e
    <2>3. FateInv(t)'
      BY <1>4 DEF FateInv, PostingPcs, Asks, Woken, Returns
    <2> QED  BY <2>2, <2>3
  <1>7. ASSUME NEW u \in Threads \ {t}  PROVE event[u] # e
    <2>1. SUFFICES ASSUME event[u] = e  PROVE FALSE
      OBVIOUS
    <2>2. FateInv(u) /\ PosterInv(u)
      BY DEF WayInv
    <2>3. pc[u] \in PostPcs \cup SyncPcs \cup TakenPcs \cup ToldPcs
      BY <1>2, <2>1, LabelKinds DEF EvIInv, EvTypeOK, ThreadInv, Pcs
    <2>4. pc[u] \notin PostPcs \cup SyncPcs
      BY <1>1, <2>1, <2>2, EventAssumption DEF PosterInv, e
    <2> QED  BY <1>1, <2>1, <2>2, <2>3, <2>4 DEF FateInv, TakenPcs, ToldPcs
  <1>8. EventInv(e)'
    <2>1. ~Queued(e)' /\ QueuedOnce(e)'
      BY <1>1, <1>3, QueueStays DEF EventInv, PlaceInv
    <2>2. \A u \in Threads : event'[u] = e => u = t
      BY <1>4, <1>7
    <2>3. pc'[t] \notin TakenPcs \cup ToldPcs
      BY <1>4 DEF TakenPcs, ToldPcs
    <2>4. ~Taken(e)' /\ PlaceInv(e)' /\ ToldInv(e)'
      BY <2>1, <2>2, <2>3 DEF Taken, PlaceInv, Has, ToldInv
    <2> QED  BY <2>1, <2>4 DEF EventInv, OpenInv
  <1> QED  BY <1>2, <1>5, <1>6, <1>7, <1>8, FocusStep

LEMMA AppendsWay ==
  ASSUME EvIInv, WayInv, NEW t \in Threads, NEW e, e = event[t],
         NEW from, NEW to, Appends(t, from, to),
         \/ from = "postAppend" /\ to = "postExit"
         \/ from = "syncAppend" /\ to = "syncPosted"
  PROVE  WayInv'
PROOF
  <1>1. /\ pc[t] = from /\ pc' = [pc EXCEPT ![t] = to] /\ queue' = Append(queue, e)
        /\ Notify(t, MonCvar[QueueMonitor]) /\ UNCHANGED <<result, event, fate>>
    BY DEF Appends, WakesHandler, MonNotify, At, GoTo
  <1>3. /\ PosterInv(t) /\ FateInv(t) /\ ThreadInv(t) /\ pc \in [Threads -> Pcs]
        /\ queue \in Seq(Events) /\ phase \in [Threads -> Phases]
        /\ event[t] \in Events \cup {NoEvent}
    BY DEF WayInv, EvIInv, EvTypeOK, ACvTypeOK, Pcs
  <1>4. e \in Events /\ Alone(t) /\ EventInv(e)
    BY <1>1, <1>3 DEF ThreadInv, IdlePcs, Alone, PostingPcs, WayInv
  <1>5. ~Queued(e) /\ \A u \in Threads \ {t} : event[u] # e
    BY <1>4, AlonePoster
  <1>6. pc'[t] = to /\ \A u \in Threads \ {t} : pc'[u] = pc[u]
    BY <1>1, <1>3
  <1>7. /\ interrupted' = interrupted
        /\ \A u \in Threads : pc[u] = "syncWait" => phase'[u] = phase[u]
    <2>1. ASSUME NEW u \in Threads, pc[u] = "syncWait"
          PROVE  u \notin Waiting(MonCvar[QueueMonitor])
      <3>1. mon[u] \in CacheMonitors /\ on[u] = MonCvar[mon[u]]
        BY <2>1 DEF EvIInv, ThreadInv, WaitInv, HeldInv, CachedPcs
      <3>2. mon[u] # QueueMonitor /\ MonCvar[mon[u]] # MonCvar[QueueMonitor]
        BY <3>1, CacheMonitorsAreMonitors
      <3> QED  BY <3>1, <3>2 DEF Waiting
    <2> QED  BY <1>1, <1>3, <2>1 DEF Notify, Wake
  <1>8. /\ DOMAIN queue' = 1..(Len(queue) + 1) /\ Len(queue) \in Nat
        /\ queue'[Len(queue) + 1] = e /\ DOMAIN queue = 1..Len(queue)
        /\ \A i \in 1..Len(queue) : queue'[i] = queue[i]
    BY <1>1, <1>3, <1>4, AppendProperties, LenProperties
  <1>9. /\ \A f \in Events \ {e} : /\ Queued(f)' => Queued(f)
                                   /\ QueuedOnce(f) => QueuedOnce(f)'
        /\ QueuedOnce(e)'
    <2>1. \A i \in DOMAIN queue' : \/ i = Len(queue) + 1
                                   \/ i \in DOMAIN queue /\ queue'[i] = queue[i]
      BY <1>8
    <2>2. \A i \in DOMAIN queue : queue[i] # e
      BY <1>5 DEF Queued
    <2>3. QueuedOnce(e)'
      BY <2>1, <2>2 DEF QueuedOnce
    <2>4. \A f \in Events \ {e} : \A i \in DOMAIN queue' :
            queue'[i] = f => i \in DOMAIN queue /\ queue[i] = f
      BY <1>8, <2>1
    <2>5. \A f \in Events \ {e} : Queued(f)' => Queued(f)
      BY <2>4 DEF Queued
    <2>6. \A f \in Events \ {e} : QueuedOnce(f) => QueuedOnce(f)'
      BY <2>4 DEF QueuedOnce
    <2> QED  BY <2>3, <2>5, <2>6
  <1>10. FocusedOn(t, e)
    BY <1>1, <1>6, <1>7, <1>9 DEF FocusedOn
  <1>11. PosterInv(t)' /\ FateInv(t)'
    <2>1. PosterInv(t)'
      BY <1>1, <1>3, <1>6, <1>7 DEF PosterInv, PostPcs, SyncPcs
    <2>2. FateInv(t)'
      BY <1>1, <1>3, <1>6 DEF FateInv, PostingPcs, Asks, Woken, Returns
    <2> QED  BY <2>1, <2>2
  <1>12. EventInv(e)'
    <2>1. \A u \in Threads : event'[u] = e => u = t
      BY <1>1, <1>5
    <2>2. pc'[t] \notin PostingPcs \cup TakenPcs \cup ToldPcs /\ pc'[t] # "syncDestroy"
      BY <1>6 DEF PostingPcs, TakenPcs, ToldPcs
    <2>3. fate'[e] = "new"
      BY <1>1, <1>3 DEF FateInv, PostingPcs
    <2>4. PlaceInv(e)' /\ ToldInv(e)'
      <3>1. \A u \in Threads : ~Has(u, e)'
        BY <2>1, <2>2 DEF Has
      <3>2. PlaceInv(e)'
        BY <1>9, <2>3, <3>1 DEF PlaceInv
      <3> QED  BY <2>1, <2>2, <3>2 DEF ToldInv
    <2>5. ~Woken(t)' /\ ~Returns(t)'
      BY <1>6 DEF Woken, Returns
    <2>6. result'[e] = "NULL" \/ (result'[e] = "TRUE" /\ Asks(t)' /\ event'[t] = e)
      BY <1>1, <1>3, <1>6 DEF FateInv, Asks
    <2> QED  BY <2>1, <2>2, <2>4, <2>5, <2>6 DEF EventInv, OpenInv
  <1> QED  BY <1>4, <1>5, <1>10, <1>11, <1>12, FocusStep

LEMMA StillPhases ==
  ASSUME UNCHANGED <<phase, interrupted>>, NEW t \in Threads
  PROVE  PhaseStays(t)
BY DEF PhaseStays

LEMMA LeaveIsStill ==
  ASSUME NEW t \in Threads, NEW m, NEW n, LeaveTimes(t, m, n)
  PROVE  UNCHANGED <<phase, interrupted>>
BY DEF LeaveTimes, Release, acvVars

\* Who has an event does not show in what others may say about it.
LEMMA FateStays ==
  ASSUME WayInv, NEW t \in Threads, PhaseStays(t), UNCHANGED <<result, fate>>,
         NEW u \in Threads \ {t}, pc'[u] = pc[u], event'[u] = event[u]
  PROVE  FateInv(u)'
BY DEF WayInv, PhaseStays, FateInv, Asks, Woken, Returns, Answered

LEMMA NoInterrupt ==
  ASSUME WayInv, EvIInv, NEW t \in SyncPosters
  PROVE  interrupted[t] = FALSE
PROOF
  <1>1. t \in Threads
    BY EventAssumption
  <1> QED  BY <1>1 DEF WayInv, PosterInv, EvIInv, EvTypeOK, ACvTypeOK

\* The poster goes on, while it has the event alone.
LEMMA PosterGoes ==
  ASSUME EvIInv, WayInv, NEW t \in Threads, NEW e, e = event[t], NEW from, NEW to,
         OneGoes(t, from, to), UNCHANGED <<queue, event>>, PhaseStays(t),
         interrupted'[t] \in {interrupted[t], FALSE}, Alone(t),
         \A f \in Events \ {e} : result'[f] = result[f] /\ fate'[f] = fate[f],
         \/ /\ result' = result /\ fate' = fate
            /\ \/ from = "syncLookup" /\ to = "syncEnter"
               \/ from = "syncEnter" /\ to = "syncBegin"
               \/ from = "syncPost" /\ to = "syncAppend"
               \/ from = "postEnter" /\ to = "postAppend"
               \/ from = "syncWait" /\ to = "syncReenter"
               \/ from = "syncReenter" /\ to = "syncResult"
               \/ from = "syncWait" /\ to = "syncWait" /\ phase'[t] = "back"
         \/ from = "syncBegin" /\ to = "syncResult"
              /\ result'[e] = "value" /\ fate'[e] = "handled"
         \/ from = "syncBegin" /\ to = "syncPost" /\ result'[e] = "TRUE" /\ fate'[e] = fate[e]
         \/ from = "syncResult" /\ to = "syncDestroy" /\ fate'[e] = fate[e]
  PROVE  WayInv'
PROOF
  <1>1. /\ PosterInv(t) /\ FateInv(t) /\ pc \in [Threads -> Pcs]
        /\ t \in SyncPosters => interrupted[t] = FALSE
    BY NoInterrupt DEF WayInv, EvIInv, EvTypeOK, Pcs
  <1>2. pc[t] = from /\ pc'[t] = to /\ \A u \in Threads \ {t} : pc'[u] = pc[u]
    BY <1>1 DEF OneGoes
  <1>3. PosterInv(t)'
    <2>1. /\ to \in PostPcs \cup SyncPcs => from \in PostPcs \cup SyncPcs
          /\ to \in SyncPcs => from \in SyncPcs
      BY DEF PostPcs, SyncPcs
    <2> QED  BY <1>1, <1>2, <2>1 DEF PosterInv
  <1>4. FateInv(t)'
    <2>1. CASE result' = result /\ fate' = fate
      BY <1>1, <1>2, <2>1
      DEF FateInv, PostingPcs, Asks, Woken, Returns, Answered, Alone
    <2>2. CASE from = "syncBegin" /\ to = "syncResult"
                 /\ result'[e] = "value" /\ fate'[e] = "handled"
      BY <1>2, <2>2 DEF FateInv, PostingPcs, Asks, Woken, Returns, Answered
    <2>3. CASE from = "syncBegin" /\ to = "syncPost" /\ result'[e] = "TRUE" /\ fate'[e] = fate[e]
      BY <1>1, <1>2, <2>3 DEF FateInv, PostingPcs, Asks, Woken, Returns
    <2>4. CASE from = "syncResult" /\ to = "syncDestroy" /\ fate'[e] = fate[e]
      BY <1>1, <1>2, <2>4 DEF FateInv, PostingPcs, Asks, Woken, Returns, Answered
    <2> QED  BY <2>1, <2>2, <2>3, <2>4
  <1>5. to \notin TakenPcs \cup ToldPcs
    BY DEF TakenPcs, ToldPcs
  <1> QED  BY <1>2, <1>3, <1>4, <1>5, AloneStep

\* A thread without an event takes a step of its own.
LEMMA IdleGoes ==
  ASSUME EvIInv, WayInv, NEW t \in Threads, NEW from \in IdlePcs, NEW to \in IdlePcs,
         OneGoes(t, from, to), UNCHANGED <<queue, result, event, fate>>, PhaseStays(t),
         interrupted'[t] \in {interrupted[t], FALSE}
  PROVE  WayInv'
PROOF
  <1>1. pc \in [Threads -> Pcs] /\ (event[t] = NoEvent <=> pc[t] \in IdlePcs)
        /\ (t \in SyncPosters => interrupted[t] = FALSE)
    BY NoInterrupt DEF EvIInv, EvTypeOK, ThreadInv, Pcs
  <1> QED  BY <1>1, IdleStep DEF OneGoes

LEMMA IdleStepsWay ==
  ASSUME EvIInv, WayInv, NEW t \in Threads,
         \/ UserEnters(t) \/ RevokeEvents(t) \/ UserExits(t) \/ EventLoop(t) \/ WaitForEvent(t)
         \/ LoopWaits(t) \/ RevokeReturns(t)
         \/ WaitForEventReturns(t) /\ pc[t] = "leaveLoop"
         \/ GetEvent(t) /\ queue = << >>
  PROVE  WayInv'
PROOF
  <1> USE DEF OneGoes
  <1>1. /\ QueueMonitor \in Monitors /\ MaxEntries \in Nat /\ phase \in [Threads -> Phases]
        /\ interrupted \in [Threads -> BOOLEAN]
    BY CacheMonitorsAreMonitors, EventAssumption DEF EvIInv, EvTypeOK, ACvTypeOK
  <1>2. ASSUME NEW n \in Nat, NEW from \in IdlePcs, NEW to \in IdlePcs,
               EnterTimes(t, QueueMonitor, n, from, to), UNCHANGED evVars
        PROVE  WayInv'
    <2>1. UNCHANGED <<queue, result, event, outer, fate>>
      BY <1>2 DEF evVars
    <2>2. OneGoes(t, from, to) /\ UNCHANGED <<phase, interrupted>>
      BY <1>1, <1>2, <2>1, EnterEffect
    <2> QED  BY <2>1, <2>2, StillPhases, IdleGoes
  <1>3. ASSUME NEW n, NEW from \in IdlePcs, NEW to \in IdlePcs,
               ExitTimes(t, QueueMonitor, n, from, to), UNCHANGED evVars
        PROVE  WayInv'
    <2>1. UNCHANGED <<queue, result, event, fate>>
      BY <1>3 DEF evVars
    <2>2. OneGoes(t, from, to) /\ UNCHANGED <<phase, interrupted>>
      BY <1>3, LeaveIsStill DEF ExitTimes, At, GoTo
    <2> QED  BY <2>1, <2>2, StillPhases, IdleGoes
  <1>4. {"run", "revoking", "loopEnter", "getEvent", "loopWait", "loopWaiting", "leaveLoop"}
          \subseteq IdlePcs
    BY DEF IdlePcs
  <1>5. CASE UserEnters(t)
    BY <1>1, <1>2, <1>4, <1>5 DEF UserEnters
  <1>6. CASE RevokeEvents(t) \/ WaitForEvent(t)
    BY <1>2, <1>4, <1>6 DEF RevokeEvents, WaitForEvent, EnterMonitor
  <1>7. CASE UserExits(t)
    BY <1>3, <1>4, <1>7 DEF UserExits
  <1>8. CASE RevokeReturns(t)
    BY <1>3, <1>4, <1>8 DEF RevokeReturns, ExitMonitor
  <1>9. CASE WaitForEventReturns(t) /\ pc[t] = "leaveLoop"
    <2>1. ExitTimes(t, QueueMonitor, 1, "leaveLoop", "run") /\ UNCHANGED evVars
      BY <1>9 DEF WaitForEventReturns, ExitMonitor, ExitTimes, At
    <2> QED  BY <1>3, <1>4, <2>1
  <1>10. CASE EventLoop(t)
    <2>1. /\ OneGoes(t, "run", "loopEnter")
          /\ UNCHANGED <<phase, interrupted, queue, result, event, fate>>
      BY <1>10 DEF EventLoop, Continue, At, GoTo, acvVars, evVars
    <2> QED  BY <1>4, <2>1, StillPhases, IdleGoes
  <1>11. CASE GetEvent(t) /\ queue = << >>
    <2>1. /\ OneGoes(t, "getEvent", "loopWait")
          /\ UNCHANGED <<phase, interrupted, queue, result, event, fate>>
      BY <1>11 DEF GetEvent, Continue, At, GoTo, acvVars
    <2> QED  BY <1>4, <2>1, StillPhases, IdleGoes
  <1>12. CASE LoopWaits(t)
    <2>1. /\ UNCHANGED <<queue, result, event, fate>>
          /\ \E from, to \in IdlePcs : OneGoes(t, from, to)
      <3>1. UNCHANGED <<queue, result, event, fate>>
        BY <1>12 DEF LoopWaits, evVars
      <3>2. \/ OneGoes(t, "loopWait", "loopWaiting") \/ OneGoes(t, "loopWait", "leaveLoop")
            \/ OneGoes(t, "loopWaiting", "leaveLoop") \/ OneGoes(t, "loopWaiting", "getEvent")
        BY <1>12
        DEF LoopWaits, MonWait, Wait, MonWaitFails, WaitFails, MonWaitEnds, WaitEnds, At, GoTo
      <3> QED  BY <1>4, <3>1, <3>2
    <2>2. \/ BeginWait(t, MonCvar[QueueMonitor]) \/ RefuseWait(t, MonCvar[QueueMonitor])
          \/ EndWait(t)
      BY <1>12 DEF LoopWaits, MonWait, Wait, MonWaitFails, WaitFails, MonWaitEnds, WaitEnds
    <2>3. PhaseStays(t) /\ interrupted'[t] \in {interrupted[t], FALSE}
      BY <1>1, <2>2 DEF BeginWait, RefuseWait, EndWait, PhaseStays
    <2> QED  BY <2>1, <2>3, IdleGoes
  <1> QED  BY <1>5, <1>6, <1>7, <1>8, <1>9, <1>10, <1>11, <1>12

LEMMA PosterStepsWay ==
  ASSUME EvIInv, WayInv, NEW t \in Threads, NEW e, e = event[t],
         \/ SyncLooksUp(t) \/ SyncEnters(t) \/ SyncInline(t) \/ SyncBegins(t)
         \/ PostEnters(t, "postEnter", "postAppend") \/ PostEnters(t, "syncPost", "syncAppend")
         \/ SyncWoken(t) \/ SyncReenters(t) \/ SyncTakesResult(t)
  PROVE  WayInv'
PROOF
  <1> USE DEF OneGoes
  <1>1. /\ QueueMonitor \in Monitors /\ phase \in [Threads -> Phases] /\ ThreadInv(t)
        /\ result \in [Events -> Results] /\ fate \in [Events -> Fates] /\ outer[t] \in Nat
        /\ interrupted \in [Threads -> BOOLEAN] /\ event \in [Threads -> Events \cup {NoEvent}]
    BY CacheMonitorsAreMonitors, EventAssumption DEF EvIInv, EvTypeOK, ACvTypeOK
  <1>2. ASSUME NEW m \in Monitors, NEW n \in Nat, NEW from, NEW to,
               EnterTimes(t, m, n, from, to), UNCHANGED evVars
        PROVE  /\ OneGoes(t, from, to) /\ PhaseStays(t) /\ interrupted'[t] = interrupted[t]
               /\ UNCHANGED <<queue, result, event, fate>>
    <2>1. UNCHANGED <<queue, result, event, outer, fate>>
      BY <1>2 DEF evVars
    <2>2. OneGoes(t, from, to) /\ UNCHANGED <<phase, interrupted>>
      BY <1>1, <1>2, <2>1, EnterEffect
    <2> QED  BY <2>1, <2>2, StillPhases
  <1>3. pc[t] \in PostingPcs \/ Returns(t) => Alone(t)
    BY DEF Alone
  <1>4. CASE SyncLooksUp(t)
    <2>1. /\ OneGoes(t, "syncLookup", "syncEnter") /\ UNCHANGED <<phase, interrupted>>
          /\ UNCHANGED <<queue, result, event, fate>>
      BY <1>4 DEF SyncLooksUp, CreateMonitor, Continue, At, GoTo, acvVars, evVars
    <2>2. Alone(t)
      BY <1>3, <2>1 DEF PostingPcs
    <2> QED  BY <2>1, <2>2, StillPhases, PosterGoes
  <1>5. CASE SyncEnters(t)
    <2>1. EnterTimes(t, mon[t], 1, "syncEnter", "syncBegin") /\ UNCHANGED evVars
      BY <1>5 DEF SyncEnters, EnterMonitor
    <2>2. pc[t] = "syncEnter"
      BY <2>1 DEF EnterTimes, At
    <2>3. mon[t] \in Monitors /\ Alone(t)
      BY <1>1, <1>3, <2>2, CacheMonitorsAreMonitors
      DEF ThreadInv, HeldInv, CachedPcs, PostingPcs
    <2>4. /\ OneGoes(t, "syncEnter", "syncBegin") /\ PhaseStays(t)
          /\ interrupted'[t] = interrupted[t] /\ UNCHANGED <<queue, result, event, fate>>
      BY <1>2, <2>1, <2>3
    <2> QED  BY <2>3, <2>4, PosterGoes
  <1>6. CASE SyncInline(t)
    <2>1. /\ OneGoes(t, "syncBegin", "syncResult") /\ UNCHANGED <<phase, interrupted>>
          /\ UNCHANGED <<queue, event>>
          /\ result' = [result EXCEPT ![e] = "value"] /\ fate' = [fate EXCEPT ![e] = "handled"]
      BY <1>6 DEF SyncInline, Continue, At, GoTo, acvVars
    <2>2. Alone(t) /\ e \in Events
      BY <1>1, <1>3, <2>1 DEF PostingPcs, ThreadInv, IdlePcs
    <2> QED  BY <1>1, <2>1, <2>2, StillPhases, PosterGoes
  <1>7. CASE SyncBegins(t)
    <2>1. /\ OneGoes(t, "syncBegin", "syncPost") /\ UNCHANGED <<phase, interrupted>>
          /\ UNCHANGED <<queue, event, fate>> /\ result' = [result EXCEPT ![e] = "TRUE"]
      BY <1>7 DEF SyncBegins, Continue, At, GoTo, acvVars
    <2>2. Alone(t) /\ e \in Events
      BY <1>1, <1>3, <2>1 DEF PostingPcs, ThreadInv, IdlePcs
    <2> QED  BY <1>1, <2>1, <2>2, StillPhases, PosterGoes
  <1>8. CASE PostEnters(t, "postEnter", "postAppend") \/ PostEnters(t, "syncPost", "syncAppend")
    <2>1. PICK from, to :
            /\ EnterTimes(t, QueueMonitor, 1, from, to) /\ UNCHANGED evVars
            /\ \/ from = "postEnter" /\ to = "postAppend"
               \/ from = "syncPost" /\ to = "syncAppend"
      BY <1>8 DEF PostEnters, EnterMonitor
    <2>2. /\ OneGoes(t, from, to) /\ PhaseStays(t) /\ interrupted'[t] = interrupted[t]
          /\ UNCHANGED <<queue, result, event, fate>>
      BY <1>1, <1>2, <2>1
    <2>3. Alone(t)
      BY <1>3, <2>1, <2>2 DEF PostingPcs
    <2> QED  BY <2>1, <2>2, <2>3, PosterGoes
  <1>9. CASE SyncWoken(t)
    <2>1. /\ OneGoes(t, "syncWait", "syncReenter") /\ EndWait(t)
          /\ UNCHANGED <<queue, result, event, fate>>
      BY <1>9 DEF SyncWoken, MonWaitEnds, WaitEnds, GoTo, evVars
    <2>2. PhaseStays(t) /\ interrupted'[t] \in {interrupted[t], FALSE} /\ phase[t] = "back"
      BY <1>1, <2>1 DEF EndWait, PhaseStays
    <2>3. e \in Events
      BY <1>1, <2>1 DEF ThreadInv, IdlePcs
    <2>4. \A u \in Threads : ~(pc[u] \in ToldPcs /\ event[u] = e)
      <3> SUFFICES ASSUME NEW u \in Threads, pc[u] \in ToldPcs, event[u] = e  PROVE FALSE
        OBVIOUS
      <3>1. PICK w \in Threads : pc[w] = "syncWait" /\ phase[w] = "woken" /\ event[w] = e
        BY <2>3 DEF WayInv, EventInv, ToldInv
      <3>2. w = t
        BY <2>1, <3>1, OnePoster DEF SyncPcs
      <3> QED  BY <2>2, <3>1, <3>2
    <2>5. Alone(t)
      BY <2>1, <2>2, <2>4 DEF Alone, Woken
    <2> QED  BY <2>1, <2>2, <2>5, PosterGoes
  <1>10. CASE SyncReenters(t)
    <2>1. /\ OneGoes(t, "syncReenter", "syncResult") /\ PhaseStays(t)
          /\ interrupted'[t] = interrupted[t] /\ UNCHANGED <<queue, result, event, fate>>
      <3>1. CASE EnterTimes(t, QueueMonitor, outer[t], "syncReenter", "syncResult")
        BY <1>1, <1>2, <1>10, <3>1 DEF SyncReenters
      <3>2. CASE Continue(t, "syncReenter", "syncResult")
        BY <1>10, <3>2, StillPhases DEF SyncReenters, Continue, At, GoTo, acvVars, evVars
      <3> QED  BY <1>10, <3>1, <3>2 DEF SyncReenters
    <2>2. Alone(t)
      BY <1>3, <2>1 DEF Returns
    <2> QED  BY <2>1, <2>2, PosterGoes
  <1>11. CASE SyncTakesResult(t)
    <2>1. /\ OneGoes(t, "syncResult", "syncDestroy") /\ UNCHANGED <<phase, interrupted>>
          /\ UNCHANGED <<queue, event, fate>> /\ result' = [result EXCEPT ![e] = "NULL"]
      BY <1>11, LeaveIsStill DEF SyncTakesResult, CExitMonitor, At, GoTo
    <2>2. Alone(t) /\ e \in Events
      BY <1>1, <1>3, <2>1 DEF Returns, ThreadInv, IdlePcs
    <2> QED  BY <1>1, <2>1, <2>2, StillPhases, PosterGoes
  <1> QED  BY <1>4, <1>5, <1>6, <1>7, <1>8, <1>9, <1>10, <1>11

LEMMA SyncReturnsWay ==
  ASSUME EvIInv, WayInv, NEW t \in Threads, NEW e, e = event[t], SyncReturns(t)
  PROVE  WayInv'
PROOF
  <1>1. /\ pc[t] = "syncDestroy" /\ pc' = [pc EXCEPT ![t] = "run"]
        /\ UNCHANGED <<phase, interrupted>> /\ UNCHANGED <<queue, result>>
        /\ fate' = [fate EXCEPT ![e] = "none"] /\ event' = [event EXCEPT ![t] = NoEvent]
    BY DEF SyncReturns, Destroys, Continue, At, GoTo, acvVars
  <1>2. /\ pc \in [Threads -> Pcs] /\ event \in [Threads -> Events \cup {NoEvent}]
        /\ fate \in [Events -> Fates] /\ PosterInv(t)
    BY DEF EvIInv, EvTypeOK, WayInv, Pcs
  <1>3. pc'[t] = "run" /\ "run" \in IdlePcs
    BY <1>1, <1>2 DEF IdlePcs
  <1>4. PosterInv(t)' /\ FateInv(t)' /\ pc'[t] \notin TakenPcs \cup ToldPcs
    <2>1. pc'[t] \notin PostPcs \cup SyncPcs \cup TakenPcs \cup ToldPcs
      BY <1>3, LabelKinds
    <2> QED  BY <1>1, <1>2, <1>3, <2>1, IdleFateNext DEF PosterInv
  <1> QED  BY <1>1, <1>2, <1>4, StillPhases, AloneStep DEF Alone

\* The poster goes on to wait for its answer.
LEMMA AskStepsWay ==
  ASSUME EvIInv, WayInv, NEW t \in Threads, NEW e, e = event[t],
         SyncPosted(t) \/ SyncGivesUp(t) \/ SyncWaits(t)
  PROVE  WayInv'
PROOF
  <1>1. /\ phase \in [Threads -> Phases] /\ pc \in [Threads -> Pcs]
        /\ PosterInv(t) /\ FateInv(t) /\ (t \in SyncPosters => interrupted[t] = FALSE)
    BY NoInterrupt DEF EvIInv, EvTypeOK, ACvTypeOK, WayInv, Pcs
  <1>2. UNCHANGED <<queue, result, event, fate>>
    BY DEF SyncPosted, SyncGivesUp, SyncWaits, evVars
  <1>3. \/ /\ OneGoes(t, "syncPosted", "syncGiveUp") \/ OneGoes(t, "syncGiveUp", "syncCWait")
           /\ UNCHANGED <<phase, interrupted>>
        \/ /\ OneGoes(t, "syncCWait", "syncWait")
           /\ BeginWait(t, MonCvar[mon[t]])
    <2>1. CASE SyncPosted(t) \/ SyncGivesUp(t)
      BY <2>1, LeaveIsStill
      DEF SyncPosted, SyncGivesUp, ExitMonitor, ExitTimes, Continue, At, GoTo, acvVars, OneGoes
    <2>2. CASE SyncWaits(t)
      <3>1. pc[t] = "syncCWait"
        BY <2>2 DEF SyncWaits, MonWait, Wait, MonWaitFails, WaitFails, At
      <3>2. interrupted[t] = FALSE
        BY <1>1, <3>1 DEF PosterInv, SyncPcs
      <3> QED  BY <2>2, <3>1, <3>2
               DEF SyncWaits, MonWait, Wait, MonWaitFails, WaitFails, RefuseWait, At, GoTo, OneGoes
    <2> QED  BY <2>1, <2>2
  <1>4. PICK from, to :
          /\ OneGoes(t, from, to) /\ PhaseStays(t) /\ interrupted' = interrupted
          /\ \/ from = "syncPosted" /\ to = "syncGiveUp"
             \/ from = "syncGiveUp" /\ to = "syncCWait"
             \/ from = "syncCWait" /\ to = "syncWait" /\ phase'[t] = "waiting"
    <2>1. CASE /\ OneGoes(t, "syncPosted", "syncGiveUp") \/ OneGoes(t, "syncGiveUp", "syncCWait")
               /\ UNCHANGED <<phase, interrupted>>
      BY <2>1, StillPhases
    <2>2. CASE OneGoes(t, "syncCWait", "syncWait") /\ BeginWait(t, MonCvar[mon[t]])
      BY <1>1, <2>2 DEF BeginWait, PhaseStays
    <2> QED  BY <1>3, <2>1, <2>2
  <1>5. FateInv(t)'
    <2>1. pc[t] = from /\ pc'[t] = to
      BY <1>1, <1>4 DEF OneGoes
    <2> QED  BY <1>1, <1>2, <1>4, <2>1 DEF FateInv, PostingPcs, Asks, Woken, Returns
  <1>6. \A u \in Threads \ {t} : FateInv(u)'
    <2>1. \A u \in Threads \ {t} : pc'[u] = pc[u]
      BY <1>1, <1>4 DEF OneGoes
    <2> QED  BY <1>2, <1>4, <2>1, FateStays
  <1> QED  BY <1>1, <1>2, <1>4, <1>5, <1>6, QuietStep

\* The queue without an event.
LEMMA Subqueue ==
  ASSUME EvIInv, WayInv, NEW e \in Events, NEW i \in DOMAIN queue, e = queue[i],
         DOMAIN queue' = 1..(Len(queue) - 1),
         \A j \in DOMAIN queue' : queue'[j] = IF j < i THEN queue[j] ELSE queue[j + 1]
  PROVE  /\ Queued(e) /\ ~Queued(e)'
         /\ \A f \in Events : /\ Queued(f)' => Queued(f)
                              /\ QueuedOnce(f) => QueuedOnce(f)'
PROOF
  <1>1. /\ queue \in Seq(Events) /\ Len(queue) \in Nat /\ DOMAIN queue = 1..Len(queue)
        /\ QueuedOnce(e)
    BY LenProperties DEF EvIInv, EvTypeOK, WayInv, EventInv, PlaceInv
  <1> DEFINE at(j) == IF j < i THEN j ELSE j + 1
  <1>2. ASSUME NEW j \in DOMAIN queue'
        PROVE  /\ at(j) \in DOMAIN queue /\ at(j) # i /\ queue'[j] = queue[at(j)]
               /\ j \in Nat /\ at(j) \in Nat
    BY <1>1
  <1>3. ASSUME NEW j \in DOMAIN queue', NEW k \in DOMAIN queue', at(j) = at(k)  PROVE j = k
    <2>1. j \in Nat /\ k \in Nat /\ i \in Nat
      BY <1>1
    <2> QED  BY <1>3, <2>1
  <1> HIDE DEF at
  <1>4. Queued(e)
    BY DEF Queued
  <1>5. ~Queued(e)'
    BY <1>1, <1>2 DEF Queued, QueuedOnce
  <1>6. ASSUME NEW f \in Events  PROVE Queued(f)' => Queued(f)
    BY <1>2 DEF Queued
  <1>7. ASSUME NEW f \in Events, QueuedOnce(f)  PROVE QueuedOnce(f)'
    <2> SUFFICES ASSUME NEW j \in DOMAIN queue', NEW k \in DOMAIN queue',
                        queue'[j] = f, queue'[k] = f
                 PROVE  j = k
      BY DEF QueuedOnce
    <2>1. at(j) = at(k)
      BY <1>2, <1>7 DEF QueuedOnce
    <2> QED  BY <1>3, <2>1
  <1> QED  BY <1>4, <1>5, <1>6, <1>7

LEMMA GetEventWay ==
  ASSUME EvIInv, WayInv, NEW t \in Threads, GetEvent(t), queue # << >>,
         NEW e, e = Head(queue)
  PROVE  WayInv'
PROOF
  <1>1. /\ pc[t] = "getEvent" /\ pc' = [pc EXCEPT ![t] = "gotEvent"]
        /\ UNCHANGED <<phase, interrupted>> /\ UNCHANGED <<result, fate>>
        /\ queue' = Tail(queue) /\ event' = [event EXCEPT ![t] = e]
    BY DEF GetEvent, Continue, At, GoTo, acvVars
  <1>2. queue \in Seq(Events) /\ event[t] = NoEvent /\ pc[t] \in IdlePcs
    BY <1>1 DEF EvIInv, EvTypeOK, ThreadInv, IdlePcs
  <1>3. /\ 1 \in DOMAIN queue /\ e = queue[1] /\ e \in Events
        /\ queue' \in Seq(Events) /\ Len(queue') = Len(queue) - 1
        /\ \A j \in 1..Len(queue') : queue'[j] = queue[j + 1]
    BY <1>1, <1>2, HeadTailProperties, LenProperties
  <1>4. /\ DOMAIN queue' = 1..(Len(queue) - 1)
        /\ \A j \in DOMAIN queue' : queue'[j] = IF j < 1 THEN queue[j] ELSE queue[j + 1]
    BY <1>3, LenProperties
  <1>5. /\ Queued(e) /\ ~Queued(e)'
        /\ \A f \in Events : /\ Queued(f)' => Queued(f)
                             /\ QueuedOnce(f) => QueuedOnce(f)'
    BY <1>3, <1>4, Subqueue
  <1> QED  BY <1>1, <1>2, <1>3, <1>5, StillPhases, TakeStep

\* Handling and revoking, while the event stays in the same hand.
LEMMA HandledWay ==
  ASSUME EvIInv, WayInv, NEW t \in Threads, NEW e, e = event[t],
         \/ WaitForEventReturns(t) /\ pc[t] = "gotEvent"
         \/ HandleEvent(t) \/ HandlerAnswers(t)
         \/ EnterMonitor(t, mon[t], "resEnter", "resSet") /\ UNCHANGED evVars
         \/ EnterMonitor(t, mon[t], "revEnter", "revSet") /\ UNCHANGED evVars
  PROVE  WayInv'
PROOF
  <1>1. /\ pc \in [Threads -> Pcs] /\ ThreadInv(t) /\ fate \in [Events -> Fates]
        /\ PosterInv(t) /\ FateInv(t) /\ (t \in SyncPosters => interrupted[t] = FALSE)
        /\ event[t] \in Events \cup {NoEvent} /\ NoEvent \notin Events
    BY NoInterrupt, EventAssumption DEF EvIInv, EvTypeOK, WayInv, Pcs
  <1>2. ASSUME NEW from, NEW to, from \in {"resEnter", "revEnter"},
               EnterMonitor(t, mon[t], from, to), UNCHANGED evVars
        PROVE  /\ OneGoes(t, from, to) /\ UNCHANGED <<phase, interrupted>>
               /\ UNCHANGED <<queue, result, event, fate>>
    <2>1. EnterTimes(t, mon[t], 1, from, to) /\ pc[t] = from
      BY <1>2 DEF EnterMonitor, EnterTimes, At
    <2>2. mon[t] \in Monitors
      BY <1>1, <1>2, <2>1, CacheMonitorsAreMonitors DEF ThreadInv, HeldInv, CachedPcs
    <2>3. UNCHANGED <<queue, result, event, outer, fate>>
      BY <1>2 DEF evVars
    <2> QED  BY <2>1, <2>2, <2>3, EnterEffect DEF OneGoes
  <1>3. PICK from, to :
          /\ OneGoes(t, from, to) /\ UNCHANGED <<phase, interrupted>>
          /\ UNCHANGED <<queue, result, event>>
          /\ \/ from = "gotEvent" /\ to = "handle" /\ fate' = fate
             \/ from = "handle" /\ to = "handled" /\ fate' = [fate EXCEPT ![e] = "handled"]
             \/ from = "handled" /\ to = "resEnter" /\ fate' = fate /\ result[e] # "NULL"
             \/ from = "resEnter" /\ to = "resSet" /\ fate' = fate
             \/ from = "revEnter" /\ to = "revSet" /\ fate' = fate
    <2>1. CASE WaitForEventReturns(t) /\ pc[t] = "gotEvent"
      <3>1. ExitTimes(t, QueueMonitor, 1, "gotEvent", "handle") /\ UNCHANGED evVars
        BY <2>1 DEF WaitForEventReturns, ExitMonitor, ExitTimes, At
      <3> QED  BY <3>1, LeaveIsStill DEF ExitTimes, At, GoTo, OneGoes, evVars
    <2>2. CASE HandleEvent(t)
      BY <2>2 DEF HandleEvent, Continue, At, GoTo, acvVars, OneGoes
    <2>3. CASE HandlerAnswers(t)
      BY <2>3 DEF HandlerAnswers, MustDestroy, CreateMonitor, Continue, At, GoTo, acvVars,
                  OneGoes, evVars
    <2>4. CASE EnterMonitor(t, mon[t], "resEnter", "resSet") /\ UNCHANGED evVars
      BY <1>2, <2>4
    <2>5. CASE EnterMonitor(t, mon[t], "revEnter", "revSet") /\ UNCHANGED evVars
      BY <1>2, <2>5
    <2> QED  BY <2>1, <2>2, <2>3, <2>4, <2>5
  <1>4. pc[t] = from /\ pc'[t] = to /\ \A u \in Threads \ {t} : pc'[u] = pc[u]
    BY <1>1, <1>3 DEF OneGoes
  <1>5. /\ e \in Events /\ pc[t] \in TakenPcs /\ Taken(e) /\ EventInv(e) /\ ~Queued(e)
    <2>1. e \in Events /\ pc[t] \in TakenPcs
      BY <1>1, <1>3, <1>4 DEF ThreadInv, IdlePcs, TakenPcs
    <2> QED  BY <2>1 DEF Taken, WayInv, EventInv, PlaceInv, Has
  <1>6. result[e] \in {"NULL", "TRUE"}
    BY <1>5 DEF EventInv, OpenInv
  <1>7. FateInv(t)'
    BY <1>1, <1>3, <1>4, <1>5, <1>6 DEF FateInv, PostingPcs, Asks, Woken, Returns
  <1>8. ASSUME NEW u \in Threads \ {t}, event[u] = e  PROVE FateInv(u)'
    <2>1. CASE fate' = fate
      BY <1>3, <1>4, <2>1, StillPhases, FateStays
    <2>2. CASE fate' # fate
      <3>1. fate' = [fate EXCEPT ![e] = "handled"]
        BY <1>3, <2>2
      <3>2. pc[u] \notin TakenPcs
        BY <1>5, <1>8 DEF EventInv, PlaceInv, Has
      <3>3. Asks(u) \/ pc[u] = "postExit"
        BY <1>5, <1>8, <3>2, OpenEvent
      <3>4. FateInv(u) /\ pc'[u] = pc[u] /\ event'[u] = e /\ phase' = phase /\ result' = result
        BY <1>3, <1>4, <1>8 DEF WayInv
      <3>5. fate'[e] = "handled"
        BY <1>1, <1>5, <3>1
      <3> QED  BY <1>8, <3>3, <3>4, <3>5 DEF FateInv, PostingPcs, Asks, Woken, Returns
    <2> QED  BY <2>1, <2>2
  <1> QED  BY <1>1, <1>3, <1>5, <1>7, <1>8, StillPhases, QuietStep

LEMMA HandlerDestroysWay ==
  ASSUME EvIInv, WayInv, NEW t \in Threads, NEW e, e = event[t], HandlerDestroys(t)
  PROVE  WayInv'
PROOF
  <1>1. /\ pc[t] = "handled" /\ pc' = [pc EXCEPT ![t] = "run"] /\ result[e] = "NULL"
        /\ UNCHANGED <<phase, interrupted>> /\ UNCHANGED <<queue, result>>
        /\ fate' = [fate EXCEPT ![e] = "none"] /\ event' = [event EXCEPT ![t] = NoEvent]
    BY DEF HandlerDestroys, MustDestroy, Destroys, Continue, At, GoTo, acvVars
  <1>2. /\ pc \in [Threads -> Pcs] /\ event \in [Threads -> Events \cup {NoEvent}]
        /\ fate \in [Events -> Fates] /\ e \in Events /\ pc[t] \in TakenPcs
    BY <1>1 DEF EvIInv, EvTypeOK, Pcs, ThreadInv, IdlePcs, TakenPcs
  <1>3. pc'[t] = "run" /\ "run" \in IdlePcs
    BY <1>1, <1>2 DEF IdlePcs
  <1>4. ~Queued(e)
    BY <1>2 DEF WayInv, EventInv, PlaceInv, Has
  <1>5. ~Queued(e)' /\ \A f \in Events : /\ Queued(f)' => Queued(f)
                                         /\ QueuedOnce(f) => QueuedOnce(f)'
    BY <1>1, <1>4, QueueStays
  <1> QED  BY <1>1, <1>2, <1>3, <1>5, StillPhases, DoneStep

\* An answer is given, and the monitor left.
LEMMA AnswersWay ==
  ASSUME EvIInv, WayInv, NEW t \in Threads, NEW e, e = event[t],
         Answers(t) \/ Cancels(t) \/ PostReturns(t)
  PROVE  WayInv'
PROOF
  <1>1. /\ ThreadInv(t) /\ event[t] \in Events \cup {NoEvent} /\ FateInv(t)
        /\ result \in [Events -> Results] /\ fate \in [Events -> Fates]
    BY DEF EvIInv, EvTypeOK, WayInv
  <1>2. ASSUME NEW from, NEW to, CNotifies(t, from), GoTo(t, to), UNCHANGED <<queue, event>>,
               \/ /\ from = "resSet" /\ to = "resExit" /\ fate' = fate
                  /\ result' = [result EXCEPT ![e] = "value"]
               \/ /\ from = "revSet" /\ to = "revExit" /\ fate' = [fate EXCEPT ![e] = "revoked"]
                  /\ result' = [result EXCEPT ![e] = "NULL"]
        PROVE  WayInv'
    <2>1. e \in Events
      BY <1>1, <1>2 DEF CNotifies, At, ThreadInv, IdlePcs
    <2> QED  BY <1>1, <1>2, <2>1, TellStep
  <1>3. ASSUME NEW from \in ToldPcs \cup {"postExit"}, NEW to \in {"run", "revoking"},
               NEW m, LeaveTimes(t, m, 1), At(t, from), GoTo(t, to),
               event' = [event EXCEPT ![t] = NoEvent], UNCHANGED <<queue, result, fate>>
        PROVE  WayInv'
    <2>1. e \in Events
      BY <1>1, <1>3 DEF At, ThreadInv, IdlePcs, ToldPcs
    <2>2. OneGoes(t, from, to) /\ PhaseStays(t) /\ interrupted' = interrupted
      BY <1>3, LeaveIsStill, StillPhases DEF At, GoTo, OneGoes
    <2> QED  BY <1>3, <2>1, <2>2, ForgetStep
  <1>4. "resExit" \in ToldPcs /\ "revExit" \in ToldPcs
    BY DEF ToldPcs
  <1>5. CASE PostReturns(t)
    BY <1>3, <1>5 DEF PostReturns, ExitMonitor, ExitTimes
  <1>6. CASE Answers(t)
    <2>1. CASE EnterMonitor(t, mon[t], "resEnter", "resSet") /\ UNCHANGED evVars
      BY <2>1, HandledWay
    <2>2. CASE /\ TellsPoster(t) /\ GoTo(t, "resExit")
               /\ result' = [result EXCEPT ![event[t]] = "value"]
               /\ UNCHANGED <<monVars, queue, notifyCount, event, outer, fate>>
      BY <1>2, <2>2 DEF TellsPoster
    <2>3. CASE /\ CExitMonitor(t, event[t], "resExit", "run")
               /\ event' = [event EXCEPT ![t] = NoEvent]
               /\ UNCHANGED <<queue, notifyCount, result, outer, fate>>
      BY <1>3, <1>4, <2>3 DEF CExitMonitor
    <2> QED  BY <1>6, <2>1, <2>2, <2>3 DEF Answers
  <1>7. CASE Cancels(t)
    <2>1. CASE EnterMonitor(t, mon[t], "revEnter", "revSet") /\ UNCHANGED evVars
      BY <2>1, HandledWay
    <2>2. CASE /\ CNotifies(t, "revSet") /\ GoTo(t, "revExit") /\ NoResult(event[t])
               /\ fate' = [fate EXCEPT ![event[t]] = "revoked"]
               /\ UNCHANGED <<monVars, queue, notifyCount, event, outer>>
      BY <1>2, <2>2 DEF NoResult
    <2>3. CASE /\ CExitMonitor(t, event[t], "revExit", "revoking")
               /\ event' = [event EXCEPT ![t] = NoEvent]
               /\ UNCHANGED <<queue, notifyCount, result, outer, fate>>
      BY <1>3, <1>4, <2>3 DEF CExitMonitor
    <2> QED  BY <1>7, <2>1, <2>2, <2>3 DEF Cancels
  <1> QED  BY <1>5, <1>6, <1>7

LEMMA RevokesWay ==
  ASSUME EvIInv, WayInv, NEW t \in Threads, NEW e \in Events,
         RevokesEvent(t, e) \/ RevokesSyncEvent(t, e)
  PROVE  WayInv'
PROOF
  <1>1. pc[t] = "revoking" /\ pc[t] \in IdlePcs /\ event[t] = NoEvent /\ Dequeues(t, e)
    BY DEF RevokesEvent, RevokesSyncEvent, At, EvIInv, ThreadInv, IdlePcs
  <1>2. /\ Queued(e) /\ ~Queued(e)'
        /\ \A f \in Events : /\ Queued(f)' => Queued(f)
                             /\ QueuedOnce(f) => QueuedOnce(f)'
    <2>1. PICK i \in DOMAIN queue :
            /\ e = queue[i]
            /\ DOMAIN queue' = 1..(Len(queue) - 1)
            /\ \A j \in DOMAIN queue' : queue'[j] = IF j < i THEN queue[j] ELSE queue[j + 1]
      BY <1>1, DequeueEffect
    <2> QED  BY <2>1, Subqueue
  <1>3. EventInv(e) /\ pc \in [Threads -> Pcs] /\ event \in [Threads -> Events \cup {NoEvent}]
        /\ fate \in [Events -> Fates]
    BY DEF WayInv, EvIInv, EvTypeOK, Pcs
  <1>4. CASE RevokesEvent(t, e)
    <2>1. /\ result[e] # "TRUE" /\ pc' = [pc EXCEPT ![t] = "revoking"]
          /\ UNCHANGED <<phase, interrupted>> /\ UNCHANGED <<result, event>>
          /\ fate' = [fate EXCEPT ![e] = "none"]
      BY <1>4 DEF RevokesEvent, Continue, At, GoTo, acvVars
    <2>2. result[e] = "NULL"
      BY <1>2, <1>3, <2>1 DEF EventInv, OpenInv
    <2>3. /\ pc'[t] = "revoking" /\ pc'[t] \in IdlePcs
          /\ \A u \in Threads \ {t} : pc'[u] = pc[u]
      BY <1>1, <1>3, <2>1
    <2>4. \A f \in Events \ {e} : fate'[f] = fate[f]
      BY <1>3, <2>1
    <2> QED  BY <1>1, <1>2, <2>1, <2>2, <2>3, <2>4, StillPhases, DoneStep
  <1>5. CASE RevokesSyncEvent(t, e)
    <2>1. /\ result[e] = "TRUE" /\ pc' = [pc EXCEPT ![t] = "revEnter"]
          /\ UNCHANGED <<phase, interrupted>> /\ UNCHANGED <<result, fate>>
          /\ event' = [event EXCEPT ![t] = e]
      BY <1>5 DEF RevokesSyncEvent, CreateMonitor, Continue, At, GoTo, acvVars
    <2> QED  BY <1>1, <1>2, <2>1, StillPhases, TakeStep
  <1> QED  BY <1>4, <1>5

\* A woken poster gets its monitor when whoever told it has left.
LEMMA RelockWay ==
  ASSUME EvIInv, WayInv, NEW t \in Threads, NEW e, e = event[t],
         Relock(t), UNCHANGED <<monVars, evVars>>
  PROVE  WayInv'
PROOF
  <1>1. /\ phase[t] = "woken" /\ holder[CvLock[on[t]]] = NoThread
        /\ phase' = [phase EXCEPT ![t] = "back"] /\ interrupted' = interrupted /\ pc' = pc
        /\ UNCHANGED <<queue, result, event, fate>>
    BY DEF Relock, Regain, Give, evVars
  <1>2. /\ ThreadInv(t) /\ phase \in [Threads -> Phases] /\ pc \in [Threads -> Pcs]
        /\ event[t] \in Events \cup {NoEvent}
    BY DEF EvIInv, EvTypeOK, ACvTypeOK, Pcs
  <1>3. pc[t] \in WaitPcs
    BY <1>1, <1>2 DEF ThreadInv, WaitInv
  <1>4. PhaseStays(t) /\ phase'[t] = "back"
    BY <1>1, <1>2 DEF PhaseStays
  <1>5. CASE pc[t] = "loopWaiting"
    <2>1. OneGoes(t, "loopWaiting", "loopWaiting") /\ "loopWaiting" \in IdlePcs
      BY <1>1, <1>2, <1>5 DEF OneGoes, IdlePcs
    <2> QED  BY <1>1, <1>4, <2>1, IdleGoes
  <1>6. CASE pc[t] = "syncWait"
    <2>1. OneGoes(t, "syncWait", "syncWait") /\ e \in Events
      BY <1>1, <1>2, <1>6 DEF OneGoes, ThreadInv, IdlePcs
    <2>2. on[t] = MonCvar[mon[t]] /\ mon[t] \in CacheMonitors /\ t \in Users(e)
      BY <1>2, <1>6 DEF ThreadInv, WaitInv, HeldInv, CachedPcs, Users
    <2>3. holder[mon[t]] = NoThread /\ mon[t] = cached[e]
      BY <1>1, <2>1, <2>2, CacheMonitorsAreMonitors DEF EvIInv, UsersInv
    <2>4. \A u \in Threads : ~(pc[u] \in ToldPcs /\ event[u] = e)
      <3> SUFFICES ASSUME NEW u \in Threads, pc[u] \in ToldPcs, event[u] = e  PROVE FALSE
        OBVIOUS
      <3>1. u \in Users(e) /\ pc[u] \in EnteredPcs
        BY DEF Users, CachedPcs, EnteredPcs, ToldPcs
      <3>2. holder[mon[u]] = u /\ mon[u] = cached[e]
        BY <2>1, <3>1 DEF EvIInv, UsersInv, ThreadInv, HeldInv
      <3> QED  BY <2>3, <3>2, ACvAssumption
    <2>5. Alone(t)
      BY <1>1, <1>6, <2>4 DEF Alone, Woken
    <2> QED  BY <1>1, <1>4, <2>1, <2>5, PosterGoes
  <1> QED  BY <1>3, <1>5, <1>6 DEF WaitPcs

LEMMA InterruptWay ==
  ASSUME EvIInv, WayInv, PostersAreNotInterrupted, NEW t \in Threads, NEW e, e = event[t],
         EvInterrupts(t)
  PROVE  WayInv'
PROOF
  <1>1. /\ interrupted' = [interrupted EXCEPT ![t] = TRUE] /\ pc' = pc
        /\ phase' = [u \in Threads |-> IF u \in {t} \cap {v \in Threads : phase[v] = "waiting"}
                                       THEN "woken" ELSE phase[u]]
        /\ UNCHANGED <<queue, result, event, fate>>
    BY DEF EvInterrupts, InterruptThread, Interrupt, Wake, evVars
  <1>2. /\ ThreadInv(t) /\ phase \in [Threads -> Phases] /\ pc \in [Threads -> Pcs]
        /\ interrupted \in [Threads -> BOOLEAN] /\ PosterInv(t) /\ FateInv(t)
    BY DEF EvIInv, EvTypeOK, ACvTypeOK, WayInv, Pcs
  <1>3. t \notin SyncPosters /\ pc[t] \notin SyncPcs
    BY <1>2 DEF EvInterrupts, PostersAreNotInterrupted, PosterInv
  <1>4. PhaseStays(t)
    BY <1>1, <1>2 DEF PhaseStays
  <1>5. CASE pc[t] \in IdlePcs
    BY <1>1, <1>2, <1>3, <1>4, <1>5, IdleStep DEF ThreadInv
  <1>6. CASE pc[t] \notin IdlePcs
    <2>1. pc[t] # "syncWait" /\ pc'[t] = pc[t]
      BY <1>1, <1>3 DEF SyncPcs
    <2>2. FateInv(t)'
      BY <1>1, <1>2, <1>3, <2>1 DEF FateInv, Asks, Woken, Returns, SyncPcs
    <2>3. \A u \in Threads \ {t} : FateInv(u)'
      BY <1>1, <1>4, FateStays
    <2>4. \E from, to : OneGoes(t, from, to) /\ from = to /\ from # "syncWait"
      BY <1>1, <1>2, <2>1 DEF OneGoes
    <2> QED  BY <1>1, <1>3, <1>4, <2>2, <2>3, <2>4, QuietStep
  <1> QED  BY <1>5, <1>6

LEMMA NextWayInv == PostersAreNotInterrupted /\ EvIInv /\ WayInv /\ [EvNext]_vars => WayInv'
PROOF
  <1> SUFFICES ASSUME PostersAreNotInterrupted, EvIInv, WayInv, [EvNext]_vars  PROVE WayInv'
    OBVIOUS
  <1>1. CASE UNCHANGED vars
    <2>1. UNCHANGED <<phase, interrupted, pc, queue, result, event, fate>>
      BY <1>1 DEF vars, clientVars, acvVars, evVars
    <2> QED  BY <2>1
             DEF WayInv, PosterInv, FateInv, EventInv, PlaceInv, OpenInv, ToldInv, Asks, Woken,
                 Returns, Answered, Has, Taken, Queued, QueuedOnce
  <1>2. ASSUME NEW t \in Threads, EvBegins(t)  PROVE WayInv'
    <2>1. CASE UserEnters(t) \/ RevokeEvents(t)
      BY <2>1, IdleStepsWay
    <2>2. CASE PostEvent(t)
      BY <2>2, InitEventWay DEF PostEvent
    <2>3. CASE PostSynchronousEvent(t)
      BY <2>3, InitEventWay DEF PostSynchronousEvent
    <2> QED  BY <1>2, <2>1, <2>2, <2>3 DEF EvBegins
  <1>3. ASSUME NEW t \in Threads, EvGoesOn(t)  PROVE WayInv'
    <2>1. PICK e : e = event[t]
      OBVIOUS
    <2>2. CASE \/ UserExits(t) \/ EventLoop(t) \/ WaitForEvent(t) \/ LoopWaits(t)
               \/ RevokeReturns(t)
      BY <2>2, IdleStepsWay
    <2>3. CASE \/ SyncLooksUp(t) \/ SyncEnters(t) \/ SyncInline(t) \/ SyncBegins(t)
               \/ PostEnters(t, "postEnter", "postAppend")
               \/ PostEnters(t, "syncPost", "syncAppend")
               \/ SyncWoken(t) \/ SyncReenters(t) \/ SyncTakesResult(t)
      BY <2>1, <2>3, PosterStepsWay
    <2>4. CASE Appends(t, "postAppend", "postExit") \/ Appends(t, "syncAppend", "syncPosted")
      BY <2>1, <2>4, AppendsWay
    <2>5. CASE SyncPosted(t) \/ SyncGivesUp(t) \/ SyncWaits(t)
      BY <2>1, <2>5, AskStepsWay
    <2>6. CASE SyncReturns(t)
      BY <2>1, <2>6, SyncReturnsWay
    <2>7. CASE GetEvent(t)
      <3>1. PICK f : f = Head(queue)
        OBVIOUS
      <3> QED  BY <2>7, <3>1, GetEventWay, IdleStepsWay
    <2>8. CASE WaitForEventReturns(t)
      <3>1. pc[t] \in {"gotEvent", "leaveLoop"}
        BY <2>8 DEF WaitForEventReturns, ExitMonitor, ExitTimes, At
      <3> QED  BY <2>1, <2>8, <3>1, HandledWay, IdleStepsWay
    <2>9. CASE HandleEvent(t) \/ HandlerAnswers(t)
      BY <2>1, <2>9, HandledWay
    <2>10. CASE HandlerDestroys(t)
      BY <2>1, <2>10, HandlerDestroysWay
    <2>11. CASE Answers(t) \/ Cancels(t) \/ PostReturns(t)
      BY <2>1, <2>11, AnswersWay
    <2>12. CASE \E f \in Events : RevokesEvent(t, f) \/ RevokesSyncEvent(t, f)
      BY <2>12, RevokesWay
    <2>13. CASE Relock(t) /\ UNCHANGED <<monVars, evVars>>
      BY <2>1, <2>13, RelockWay
    <2> QED  BY <1>3, <2>2, <2>3, <2>4, <2>5, <2>6, <2>7, <2>8, <2>9, <2>10, <2>11, <2>12,
                <2>13 DEF EvGoesOn
  <1>4. ASSUME NEW t \in Threads, EvInterrupts(t)  PROVE WayInv'
    <2>1. PICK e : e = event[t]
      OBVIOUS
    <2> QED  BY <1>4, <2>1, InterruptWay
  <1> QED  BY <1>1, <1>2, <1>3, <1>4 DEF EvNext

LEMMA InitWayInv == EvInit => WayInv
PROOF
  <1> SUFFICES ASSUME EvInit  PROVE WayInv
    OBVIOUS
  <1>1. ASSUME NEW t \in Threads
        PROVE  /\ pc[t] = "run" /\ event[t] = NoEvent /\ interrupted[t] = FALSE
               /\ pc[t] \in IdlePcs
    BY DEF EvInit, ACvInit, IdlePcs
  <1>2. ASSUME NEW t \in Threads  PROVE PosterInv(t) /\ FateInv(t)
    <2>1. pc[t] \notin PostPcs \cup SyncPcs
      BY <1>1, LabelKinds
    <2> QED  BY <1>1, <2>1, IdleFate DEF PosterInv
  <1>3. ASSUME NEW e \in Events  PROVE EventInv(e)
    <2>1. ~Queued(e) /\ QueuedOnce(e)
      BY DEF EvInit, Queued, QueuedOnce
    <2>2. \A t \in Threads : event[t] # e
      BY <1>1, EventAssumption
    <2>3. ~Taken(e) /\ PlaceInv(e) /\ ToldInv(e)
      BY <2>1, <2>2 DEF Taken, PlaceInv, ToldInv, Has
    <2> QED  BY <2>1, <2>3 DEF EventInv, OpenInv
  <1> QED  BY <1>2, <1>3 DEF WayInv

\* If nobody interrupts the posters of synchronous events, each event is in one place,
\* and has a poster that waits for the answer or needs none.
THEOREM SpecWayInv == PostersAreNotInterrupted /\ EvSpec => [](EvIInv /\ WayInv)
PROOF
  <1>1. EvInit => EvIInv /\ WayInv
    BY InitEvIInv, InitWayInv
  <1>2. PostersAreNotInterrupted /\ (EvIInv /\ WayInv) /\ [EvNext]_vars => (EvIInv /\ WayInv)'
    BY NextEvIInv, NextWayInv
  <1>3. CASE PostersAreNotInterrupted
    <2>1. (EvIInv /\ WayInv) /\ [EvNext]_vars => (EvIInv /\ WayInv)'
      BY <1>2, <1>3
    <2> QED  BY <1>1, <2>1, PTL DEF EvSpec
  <1>4. CASE ~PostersAreNotInterrupted
    BY <1>4
  <1> QED  BY <1>3, <1>4

\* Then whoever handles, awaits or revokes an event has one that exists, and every
\* event in the queue does: it is destroyed once, and not before the last use of it.
THEOREM SpecEventsInUseExist == PostersAreNotInterrupted /\ EvSpec => []EventsInUseExist
PROOF
  <1>1. EvIInv /\ WayInv => EventsInUseExist
    <2> SUFFICES ASSUME EvIInv, WayInv  PROVE EventsInUseExist
      OBVIOUS
    <2>1. ASSUME NEW i \in DOMAIN queue  PROVE fate[queue[i]] = "new"
      <3>1. queue[i] \in Events
        <4>1. queue \in Seq(Events)
          BY DEF EvIInv, EvTypeOK
        <4> QED  BY <4>1, LenProperties
      <3>2. \A e \in Events : queue[i] = e => fate[e] = "new"
        BY DEF Queued, WayInv, EventInv, PlaceInv
      <3> QED  BY <3>1, <3>2
    <2>2. ASSUME NEW t \in Threads, event[t] # NoEvent, pc[t] # "postExit"
          PROVE  fate[event[t]] # "none"
      <3>1. /\ pc[t] \in PostPcs \cup SyncPcs \cup TakenPcs \cup ToldPcs /\ FateInv(t)
        BY <2>2, LabelKinds DEF EvIInv, EvTypeOK, ThreadInv, Pcs, WayInv
      <3> QED  BY <2>2, <3>1
               DEF FateInv, PostPcs, SyncPcs, TakenPcs, ToldPcs, PostingPcs, Asks, Woken,
                   Returns, Answered
    <2> QED  BY <2>1, <2>2 DEF EventsInUseExist
  <1> QED  BY <1>1, SpecWayInv, PTL

\* And PL_PostSynchronousEvent returns what the handler answered, or NULL if the event
\* was revoked, never the mark "TRUE" that it was posted with.
THEOREM SpecSyncResultIsAnswer == PostersAreNotInterrupted /\ EvSpec => []SyncResultIsAnswer
PROOF
  <1>1. WayInv => SyncResultIsAnswer
    BY DEF WayInv, FateInv, Returns, Answered, SyncResultIsAnswer
  <1> QED  BY <1>1, SpecWayInv, PTL

-----------------------------------------------------------------------------
(* Nobody waits in a circle.                                               *)

\* Where a thread relies on the handler.
RelyPcs == {"syncPost", "syncAppend", "syncPosted", "syncGiveUp", "syncCWait", "syncWait",
            "syncReenter"}

\* The handler answers its own events itself.
InlineInv == \A t \in Threads : pc[t] \in RelyPcs => t # handlerThread

LEMMA InlineNext == EvIInv /\ InlineInv /\ [EvNext]_vars => InlineInv'
PROOF
  <1> SUFFICES ASSUME EvIInv, InlineInv, [EvNext]_vars  PROVE InlineInv'
    OBVIOUS
  <1>1. pc \in [Threads -> Pcs]
    BY DEF EvIInv, EvTypeOK, Pcs
  <1>2. handlerThread' = handlerThread
    BY DEF EvNext, vars
  <1>3. ASSUME NEW t \in Threads, NEW from, NEW to, pc[t] = from, pc' = [pc EXCEPT ![t] = to],
               to \in RelyPcs => from \in RelyPcs \/ t # handlerThread
        PROVE  InlineInv'
    BY <1>1, <1>2, <1>3 DEF InlineInv
  <1>4. ASSUME pc' = pc  PROVE InlineInv'
    BY <1>2, <1>4 DEF InlineInv
  <1>5. ASSUME NEW t \in Threads, EvBegins(t)  PROVE InlineInv'
    <2>1. PICK to : pc[t] = "run" /\ pc' = [pc EXCEPT ![t] = to] /\ to \notin RelyPcs
      BY <1>5 DEF EvBegins, UserEnters, PostEvent, PostSynchronousEvent, InitEvent,
                  RevokeEvents, EnterMonitor, EnterTimes, Continue, At, GoTo, RelyPcs
    <2> QED  BY <1>3, <2>1
  <1>6. ASSUME NEW t \in Threads, EvGoesOn(t)  PROVE InlineInv'
    <2>1. CASE UserExits(t) \/ PostReturns(t) \/ SyncPosted(t) \/ WaitForEventReturns(t)
               \/ RevokeReturns(t)
      <3>1. PICK from, to : /\ pc[t] = from /\ pc' = [pc EXCEPT ![t] = to]
                            /\ to \in RelyPcs => from \in RelyPcs
        BY <2>1 DEF UserExits, PostReturns, SyncPosted, WaitForEventReturns, RevokeReturns,
                    ExitMonitor, ExitTimes, At, GoTo, RelyPcs
      <3> QED  BY <1>3, <3>1
    <2>2. CASE \/ PostEnters(t, "postEnter", "postAppend") \/ PostEnters(t, "syncPost", "syncAppend")
               \/ WaitForEvent(t) \/ SyncEnters(t)
      <3>1. PICK from, to : /\ pc[t] = from /\ pc' = [pc EXCEPT ![t] = to]
                            /\ to \in RelyPcs => from \in RelyPcs
        BY <2>2 DEF PostEnters, WaitForEvent, SyncEnters, EnterMonitor, EnterTimes, At, GoTo,
                    RelyPcs
      <3> QED  BY <1>3, <3>1
    <2>3. CASE \/ Appends(t, "postAppend", "postExit") \/ Appends(t, "syncAppend", "syncPosted")
      <3>1. PICK from, to : /\ pc[t] = from /\ pc' = [pc EXCEPT ![t] = to]
                            /\ to \in RelyPcs => from \in RelyPcs
        BY <2>3 DEF Appends, At, GoTo, RelyPcs
      <3> QED  BY <1>3, <3>1
    <2>4. CASE \/ SyncLooksUp(t) \/ SyncInline(t) \/ SyncReturns(t) \/ EventLoop(t)
                \/ HandleEvent(t) \/ HandlerDestroys(t) \/ HandlerAnswers(t)
      <3>1. PICK to \in {"syncEnter", "syncResult", "run", "loopEnter", "handled", "resEnter"} :
              pc' = [pc EXCEPT ![t] = to]
        <4>1. CASE SyncLooksUp(t) \/ HandlerAnswers(t)
          BY <4>1 DEF SyncLooksUp, HandlerAnswers, CreateMonitor, Continue, GoTo
        <4>2. CASE SyncReturns(t) \/ HandlerDestroys(t)
          BY <4>2 DEF SyncReturns, HandlerDestroys, Destroys, Continue, GoTo
        <4>3. CASE SyncInline(t) \/ EventLoop(t) \/ HandleEvent(t)
          BY <4>3 DEF SyncInline, EventLoop, HandleEvent, Continue, GoTo
        <4> QED  BY <2>4, <4>1, <4>2, <4>3
      <3>2. to \notin RelyPcs
        BY DEF RelyPcs
      <3> QED  BY <1>3, <3>1, <3>2
    <2>5. ASSUME NEW e \in Events, RevokesEvent(t, e) \/ RevokesSyncEvent(t, e)
           PROVE  InlineInv'
      <3>1. PICK to : pc' = [pc EXCEPT ![t] = to] /\ to \notin RelyPcs
        BY <2>5 DEF RevokesEvent, RevokesSyncEvent, CreateMonitor, Continue, GoTo, RelyPcs
      <3> QED  BY <1>3, <3>1
    <2>6. CASE SyncBegins(t)
      BY <1>3, <2>6 DEF SyncBegins, Continue, At, GoTo
    <2>7. CASE SyncGivesUp(t) \/ SyncReenters(t)
      <3>1. PICK from, to : /\ pc[t] = from /\ pc' = [pc EXCEPT ![t] = to]
                            /\ to \in RelyPcs => from \in RelyPcs
        BY <2>7 DEF SyncGivesUp, SyncReenters, ExitTimes, EnterTimes, Continue, At, GoTo, RelyPcs
      <3> QED  BY <1>3, <3>1
    <2>8. CASE SyncWaits(t) \/ SyncWoken(t) \/ LoopWaits(t)
      <3>1. PICK from, to : /\ pc[t] = from /\ pc' = [pc EXCEPT ![t] = to]
                            /\ to \in RelyPcs => from \in RelyPcs
        BY <2>8 DEF SyncWaits, SyncWoken, LoopWaits, MonWait, MonWaitFails, MonWaitEnds, Wait,
                    WaitFails, WaitEnds, At, GoTo, RelyPcs
      <3> QED  BY <1>3, <3>1
    <2>9. CASE GetEvent(t) \/ SyncTakesResult(t)
      <3>1. PICK to : pc' = [pc EXCEPT ![t] = to] /\ to \notin RelyPcs
        BY <2>9 DEF GetEvent, SyncTakesResult, CExitMonitor, Continue, At, GoTo, RelyPcs
      <3> QED  BY <1>3, <3>1
    <2>10. CASE Answers(t) \/ Cancels(t)
      <3>1. PICK to : pc' = [pc EXCEPT ![t] = to] /\ to \notin RelyPcs
        BY <2>10 DEF Answers, Cancels, EnterMonitor, EnterTimes, CExitMonitor, At, GoTo, RelyPcs
      <3> QED  BY <1>3, <3>1
    <2>11. CASE Relock(t)
      BY <1>4, <2>11 DEF Relock
    <2> QED  BY <1>6, <2>1, <2>2, <2>3, <2>4, <2>5, <2>6, <2>7, <2>8,
                <2>9, <2>10, <2>11 DEF EvGoesOn
  <1>7. ASSUME NEW t \in Threads, EvInterrupts(t)  PROVE InlineInv'
    BY <1>4, <1>7 DEF EvInterrupts, InterruptThread
  <1>8. CASE UNCHANGED vars
    BY <1>4, <1>8 DEF vars, clientVars
  <1> QED  BY <1>5, <1>6, <1>7, <1>8 DEF EvNext

\* Who holds a monitor of the cache that another thread stands before is busy with the
\* same event, ...
LEMMA SameEvent ==
  ASSUME EvIInv, NEW t \in Threads, NEW u \in Threads, NEW m \in Monitors \ {QueueMonitor},
         m = Wanted(t), holder[m] = u
  PROVE  /\ pc[t] \in {"syncEnter", "resEnter", "revEnter", "syncWait"}
         /\ event[t] \in Events /\ event[u] = event[t]
         /\ pc[u] \in HoldPcs /\ phase[u] \in {"back", "out"}
PROOF
  <1>1. NoMonitor \notin Monitors /\ NoMonitor \notin CacheMonitors
    BY MonitorAssumption, CacheMonitorsAreMonitors
  <1>2. pc[t] \in {"syncEnter", "resEnter", "revEnter", "syncWait"} /\ m = mon[t]
    BY <1>1 DEF Wanted
  <1>3. pc[u] \in HoldPcs /\ phase[u] \in {"back", "out"} /\ m = mon[u]
    BY DEF EvIInv, ThreadInv, OwnInv
  <1>4. /\ pc[t] \in CachedPcs \ IdlePcs /\ pc[u] \in CachedPcs \ IdlePcs
    BY <1>2, <1>3 DEF HoldPcs, CachedPcs, EnteredPcs, IdlePcs
  <1>5. event[t] \in Events /\ event[u] \in Events
    BY <1>4 DEF EvIInv, EvTypeOK, ThreadInv
  <1>6. mon[t] = cached[event[t]] /\ mon[u] = cached[event[u]]
    BY <1>4, <1>5 DEF EvIInv, UsersInv, Users
  <1>7. event[t] \in InUse /\ event[u] \in InUse /\ cached[event[t]] = cached[event[u]]
    BY <1>1, <1>2, <1>3, <1>5, <1>6 DEF InUse
  <1>8. event[u] = event[t]
    BY <1>7 DEF EvIInv, CacheInv
  <1> QED  BY <1>2, <1>3, <1>5, <1>8

\* ... and waits for nobody: if it is the poster, it has not posted the event or has
\* been told the answer, and then nobody else is about to enter.
LEMMA HolderGoesOn ==
  ASSUME EvIInv, WayInv, NEW t \in Threads, NEW u \in Threads \ {t}, NEW v,
         NEW m \in Monitors \ {QueueMonitor}, m = Wanted(t), holder[m] = u
  PROVE  ~WaitsFor(u, v)
PROOF
  <1>1. /\ pc[t] \in {"syncEnter", "resEnter", "revEnter", "syncWait"}
        /\ event[t] \in Events /\ event[u] = event[t]
        /\ pc[u] \in HoldPcs /\ phase[u] \in {"back", "out"}
    BY SameEvent
  <1> SUFFICES ASSUME WaitsFor(u, v)  PROVE FALSE
    OBVIOUS
  <1>2. Wanted(u) # NoMonitor
    BY <1>1, MonitorAssumption DEF WaitsFor
  <1>3. pc[u] \in {"syncPost", "syncReenter"}
    BY <1>1, <1>2 DEF Wanted, HoldPcs, EnteredPcs
  <1>4. PosterInv(u) /\ PosterInv(t) /\ EventInv(event[t])
    BY <1>1 DEF WayInv
  <1>5. u \in Posters /\ event[u] = EventOf[u]
    BY <1>3, <1>4 DEF PosterInv, SyncPcs
  <1>6. CASE pc[t] \in {"syncEnter", "syncWait"}
    <2>1. t \in Posters /\ event[t] = EventOf[t]
      BY <1>4, <1>6 DEF PosterInv, SyncPcs
    <2> QED  BY <1>1, <1>5, <2>1, EventAssumption
  <1>7. CASE pc[t] \in {"resEnter", "revEnter"}
    <2>1. pc[t] \in TakenPcs
      BY <1>7 DEF TakenPcs
    <2>2. Taken(event[t]) /\ Has(t, event[t])
      BY <2>1 DEF Taken, Has
    <2>3. ~Returns(u) /\ ~Has(u, event[t])
      BY <1>1, <1>4, <2>2 DEF EventInv, OpenInv, PlaceInv
    <2> QED  BY <1>1, <1>3, <2>3 DEF Returns, Has, PostingPcs
  <1> QED  BY <1>1, <1>6, <1>7

\* Posters, the handler and those who revoke events never wait for each other, for a
\* monitor or an answer, in a circle, if nobody interrupts the posters of synchronous
\* events.
THEOREM SpecNobodyWaitsInCircle ==
  PostersAreNotInterrupted /\ EvSpec => []NobodyWaitsInCircle
PROOF
  <1>1. EvIInv /\ WayInv /\ InlineInv => NobodyWaitsInCircle
    <2> SUFFICES ASSUME EvIInv, WayInv, InlineInv, NEW S \in (SUBSET Threads) \ {{}},
                        \A t \in S : \E u \in S : WaitsFor(t, u)
                 PROVE  FALSE
      BY DEF NobodyWaitsInCircle
    <2>1. ASSUME NEW t \in S, NEW u \in S, u # t, NEW m \in Monitors, m = Wanted(t),
                 holder[m] = u
          PROVE  FALSE
      <3>1. m = QueueMonitor
        <4>1. PICK v \in S : WaitsFor(u, v)
          OBVIOUS
        <4> QED  BY <2>1, <4>1, HolderGoesOn
      <3>2. PICK v \in S : WaitsFor(u, v)
        OBVIOUS
      <3>3. pc[u] \notin AwayPcs
        BY <2>1, <3>1 DEF EvIInv, ThreadInv, OuterInv
      <3>4. PICK n \in Monitors : n = Wanted(u) /\ holder[n] = v /\ u # v
        BY <3>2, <3>3 DEF WaitsFor, AwayPcs
      <3>5. n # QueueMonitor
        BY <2>1, <3>1, <3>4
      <3>6. PICK w \in S : WaitsFor(v, w)
        OBVIOUS
      <3> QED  BY <3>4, <3>5, <3>6, HolderGoesOn
    <2>2. \A t \in S : pc[t] = "syncWait"
      BY <2>1 DEF WaitsFor
    <2>3. \A t \in S : t \in Posters /\ event[t] = EventOf[t] /\ t # handlerThread
      BY <2>2 DEF WayInv, PosterInv, SyncPcs, InlineInv, RelyPcs
    <2>4. \A t, u \in S : event[t] = event[u] => t = u
      BY <2>3, EventAssumption
    <2> QED  BY <2>1, <2>3, <2>4 DEF WaitsFor
  <1>2. EvInit => InlineInv
    BY DEF EvInit, InlineInv, RelyPcs
  <1>3. EvSpec => []InlineInv
    BY <1>2, InlineNext, SpecEvIInv, PTL DEF EvSpec
  <1> QED  BY <1>1, <1>3, SpecWayInv, PTL

\* PL_HandleEvent calls the handler of an event with no monitor entered, so what the
\* handler waits for may depend on any of them.
HandlerIsFree == \A t \in Threads, m \in Monitors : pc[t] = "handle" => holder[m] # t

\* That is so whoever is interrupted.
THEOREM SpecHandlerIsFree == EvSpec => []HandlerIsFree
PROOF
  <1>1. EvIInv => HandlerIsFree
    BY DEF EvIInv, ThreadInv, OwnInv, HandlerIsFree, HoldPcs, EnteredPcs, FreePcs
  <1> QED  BY <1>1, SpecEvIInv, PTL
=============================================================================
