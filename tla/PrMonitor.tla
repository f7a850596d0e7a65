------------------------------ MODULE PrMonitor ------------------------------
(***************************************************************************)
(* NSPR's monitors, prmon.c: a lock that its owner may enter again, and a    *)
(* condition; and the monitors that prcmon.c keeps for addresses as long as  *)
(* somebody has entered them.                                              *)
(*                                                                         *)
(* The cache is read and written under _pr_mcacheLock only, by code that      *)
(* never waits, so what happens under that lock is one step.               *)
(***************************************************************************)
EXTENDS CvClient, Integers, Sequences

CONSTANTS Monitors,    \* the PRMonitors; a monitor names its lock, too
          MonCvar,     \* mon->cvar
          FreeList,    \* free_entries at first: the monitors of the cache
          Addresses,   \* the addresses that threads enter
          NoMonitor    \* "no entry for the address"

ASSUME MonitorAssumption ==
  /\ Monitors \subseteq Locks
  /\ MonCvar \in [Monitors -> CVars] /\ \A m \in Monitors : CvLock[MonCvar[m]] = m
  /\ FreeList \in Seq(Monitors)
  /\ \A i, j \in DOMAIN FreeList : FreeList[i] = FreeList[j] => i = j
  /\ IsFiniteSet(Addresses)
  /\ Len(FreeList) >= Cardinality(Addresses)   \* bound: the cache is large enough
  /\ NoMonitor \notin Monitors

VARIABLES entryCount,        \* mon->entryCount
          savedCount,        \* entryCount of a thread in PR_Wait
          cached,            \* the monitor in the cache entry of an address
          cacheEntryCount,   \* its cacheEntryCount
          freeEntries,       \* free_entries
          mon                \* the monitor a thread has looked up in the cache

entryVars == <<entryCount, savedCount>>
cacheVars == <<cached, cacheEntryCount, freeEntries>>
monVars   == <<entryVars, cacheVars, mon>>

MonInit == /\ entryCount = [m \in Monitors |-> 0]
           /\ savedCount = [t \in Threads |-> 0]
           /\ cached = [a \in Addresses |-> NoMonitor]
           /\ cacheEntryCount = [a \in Addresses |-> 0]
           /\ freeEntries = FreeList
           /\ mon = [t \in Threads |-> NoMonitor]

-----------------------------------------------------------------------------
(* Slips.                                                                  *)

\* PR_CExitMonitor frees the entry when the owner leaves, whoever waits for it.
SlipFreeInUse(a) == cacheEntryCount[a] > 0

-----------------------------------------------------------------------------
(* prmon.c.  An operator for a call takes the labels it leads from and to.  *)

SetCount(m, n) == entryCount' = [entryCount EXCEPT ![m] = n]

\* PR_EnterMonitor: n entries, when the caller loops.
EnterTimes(t, m, n, from, to) ==
  /\ At(t, from)
  /\ \/ holder[m] = t /\ SetCount(m, entryCount[m] + n) /\ UNCHANGED acvVars
     \/ Take(t, m) /\ SetCount(m, n)
  /\ GoTo(t, to)
  /\ UNCHANGED <<savedCount, cacheVars, mon>>

EnterMonitor(t, m, from, to) == EnterTimes(t, m, 1, from, to)

\* The part of PR_ExitMonitor that the owner does: the last exit unlocks.
LeaveTimes(t, m, n) ==
  /\ holder[m] = t
  /\ SetCount(m, entryCount[m] - n)
  /\ IF entryCount[m] = n THEN Release(t, m) ELSE UNCHANGED acvVars

ExitTimes(t, m, n, from, to) == /\ At(t, from)
                                /\ LeaveTimes(t, m, n)
                                /\ GoTo(t, to)
                                /\ UNCHANGED <<savedCount, cacheVars, mon>>

ExitMonitor(t, m, from, to) == ExitTimes(t, m, 1, from, to)

GetMonitorEntryCount(t, m) == IF holder[m] = t THEN entryCount[m] ELSE 0

\* PR_Wait without a timeout: the count goes with the lock and comes back ...
MonWait(t, m, from, to) == /\ Wait(t, MonCvar[m], from, to)
                           /\ savedCount' = [savedCount EXCEPT ![t] = entryCount[m]]
                           /\ SetCount(m, 0)
                           /\ UNCHANGED <<cacheVars, mon>>

\* ... as it was, and at once if the wait fails.
MonWaitFails(t, m, from, to) == /\ WaitFails(t, MonCvar[m], from, to)
                                /\ UNCHANGED monVars

MonWaitEnds(t, m, from, to) == /\ WaitEnds(t, from, to)
                               /\ SetCount(m, savedCount[t])
                               /\ savedCount' = [savedCount EXCEPT ![t] = 0]
                               /\ UNCHANGED <<cacheVars, mon>>

\* PR_Notify, by the owner.
MonNotify(t, m) == holder[m] = t /\ Notify(t, MonCvar[m])

-----------------------------------------------------------------------------
(* prcmon.c.                                                               *)

\* PR_CEnterMonitor(a) up to PR_EnterMonitor: CreateMonitor finds the entry of
\* the address, or takes a free one.
CreateMonitor(t, a, from, to) ==
  LET new == cached[a] = NoMonitor
      m   == IF new THEN Head(freeEntries) ELSE cached[a]
  IN  /\ Continue(t, from, to)
      /\ cached' = [cached EXCEPT ![a] = m]
      /\ freeEntries' = IF new THEN Tail(freeEntries) ELSE freeEntries
      /\ cacheEntryCount' = [cacheEntryCount EXCEPT ![a] = @ + 1]
      /\ mon' = [mon EXCEPT ![t] = m]
      /\ UNCHANGED entryVars

LastUser(a) == cacheEntryCount[a] = 1

\* PR_CExitMonitor(a): the last to leave frees the entry, then it unlocks.
CExitMonitor(t, a, from, to) ==
  LET m == cached[a]
  IN  /\ At(t, from)
      /\ m # NoMonitor
      /\ LeaveTimes(t, m, 1)
      /\ IF LastUser(a)
         THEN /\ cached' = [cached EXCEPT ![a] = NoMonitor]
              /\ freeEntries' = <<m>> \o freeEntries
              /\ cacheEntryCount' = [cacheEntryCount EXCEPT ![a] = 0]
         ELSE /\ cacheEntryCount' = [cacheEntryCount EXCEPT ![a] = @ - 1]
              /\ UNCHANGED <<cached, freeEntries>>
      /\ mon' = [mon EXCEPT ![t] = NoMonitor]
      /\ GoTo(t, to)
      /\ UNCHANGED savedCount

MonTypeOK == /\ entryCount \in [Monitors -> Nat]
             /\ savedCount \in [Threads -> Nat]
             /\ cached \in [Addresses -> Monitors \cup {NoMonitor}]
             /\ cacheEntryCount \in [Addresses -> Nat]
             /\ freeEntries \in Seq(Monitors)
             /\ mon \in [Threads -> Monitors \cup {NoMonitor}]
=============================================================================
