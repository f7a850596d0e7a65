------------------------------- MODULE PlEvent -------------------------------
(***************************************************************************)
(* An event queue of NSPR, plevent.c: threads post events, wait for the       *)
(* result of some of them and revoke those of an owner, while one thread      *)
(* handles them.                                                           *)
(*                                                                         *)
(* A thread stands in the queue's monitor once while it is in a call: the    *)
(* calls enter it again for the calls they make, and leave again.  What a    *)
(* call does between entering and leaving, with nothing that blocks in       *)
(* between, is one step.                                                   *)
(***************************************************************************)
EXTENDS PrMonitor

CONSTANTS QueueMonitor,    \* queue->monitor
          Handlers,        \* the threads that may be the queue's handler
          EventOf,         \* the event that a thread posts
          Owner,           \* event->owner
          NoEvent,         \* "no event"
          Revokes,         \* whose events a thread revokes, if it does
          SyncPosters,     \* the threads that call PL_PostSynchronousEvent
          Interruptible,   \* the threads that somebody interrupts
          MaxEntries,      \* bound: entries of the monitor before a post
          MaxNotifies      \* bound: no new post with so many bytes in the pipe

Events  == Addresses
Posters == DOMAIN EventOf

ASSUME EventAssumption ==
  /\ QueueMonitor \in Monitors
  /\ \A i \in DOMAIN FreeList : FreeList[i] # QueueMonitor
  /\ Handlers \subseteq Threads /\ SyncPosters \subseteq Posters
  /\ EventOf \in [Posters -> Events] /\ Posters \subseteq Threads
  /\ \A t, u \in Posters : EventOf[t] = EventOf[u] => t = u
  /\ NoEvent \notin Events
  /\ Interruptible \subseteq Threads
  /\ MaxEntries \in Nat /\ MaxNotifies \in Nat

VARIABLES handlerThread, \* queue->handlerThread
          queue,         \* queue->queue
          notifyCount,   \* queue->notifyCount, and the bytes in the pipe
          result,        \* event->synchronousResult
          event,         \* the event a thread is busy with
          outer,         \* entryCount, if inEventQueueMon, of a synchronous post
          fate           \* history: what has become of an event

evVars == <<queue, notifyCount, result, event, outer, fate>>

vars == <<clientVars, monVars, evVars, handlerThread>>

Results == {"NULL", "TRUE", "value"}

\* none: the event does not exist, or does no more.
Fates == {"none", "new", "handled", "revoked"}

PostPcs   == {"postEnter", "postAppend", "postExit"}
SyncPcs   == {"syncLookup", "syncEnter", "syncBegin", "syncPost",
              "syncAppend", "syncPosted", "syncGiveUp", "syncCWait", "syncWait",
              "syncReenter", "syncResult", "syncDestroy"}
HandlePcs == {"loopEnter", "getEvent", "loopWait", "gotEvent", "leaveLoop", "handle",
              "handled", "resEnter", "resSet", "resExit"}
RevokePcs == {"revoking", "revEnter", "revSet", "revExit"}

EvInit == /\ ACvInit /\ MonInit
          /\ pc = [t \in Threads |-> "run"]
          /\ handlerThread \in Handlers
          /\ queue = << >>
          /\ notifyCount = 0
          /\ result = [e \in Events |-> "NULL"]
          /\ event = [t \in Threads |-> NoEvent]
          /\ outer = [t \in Threads |-> 0]
          /\ fate = [e \in Events |-> "none"]

-----------------------------------------------------------------------------
(* Slips.                                                                  *)

\* PL_PostEvent relies on the pipe alone.
SlipPipeOnly(t) == UNCHANGED acvVars

\* PL_HandleEvent destroys synchronous events, too.
SlipAlwaysDestroy(e) == TRUE

\* Revoking a synchronous event leaves its result alone.
SlipKeepResult(e) == UNCHANGED result

\* A synchronous post waits for its answer inside the queue's monitor.
SlipStayInside(t) == /\ Continue(t, "syncGiveUp", "syncCWait")
                     /\ UNCHANGED <<monVars, evVars>>

\* PL_HandleEvent sets the result and leaves the poster to find it.
SlipNoAnswer(t) == At(t, "resSet") /\ UNCHANGED acvVars

-----------------------------------------------------------------------------
(* Code of the program.                                                    *)

\* It enters the queue's monitor around a post, as plevent.h asks for, ...
UserEnters(t) == /\ t \in Posters
                 /\ holder[QueueMonitor] # t
                 /\ \E n \in 1..MaxEntries :
                      EnterTimes(t, QueueMonitor, n, "run", "run")
                 /\ UNCHANGED evVars

\* ... and leaves it as often.
UserExits(t) == /\ ExitTimes(t, QueueMonitor, entryCount[QueueMonitor], "run", "run")
                /\ UNCHANGED evVars

\* PL_InitEvent, at the address of an earlier event that is no more.
InitEvent(t, to) == /\ t \in Posters
                    /\ fate[EventOf[t]] = "none"
                    /\ notifyCount < MaxNotifies
                    /\ Continue(t, "run", to)
                    /\ event' = [event EXCEPT ![t] = EventOf[t]]
                    /\ fate' = [fate EXCEPT ![EventOf[t]] = "new"]
                    /\ result' = [result EXCEPT ![EventOf[t]] = "NULL"]
                    /\ UNCHANGED <<monVars, queue, notifyCount, outer>>

-----------------------------------------------------------------------------
(* PL_PostEvent.                                                           *)

PostEvent(t) == InitEvent(t, "postEnter")

PostEnters(t, from, to) == /\ EnterMonitor(t, QueueMonitor, from, to)
                           /\ UNCHANGED evVars

WritesByte == TRUE

WakesHandler(t) == MonNotify(t, QueueMonitor)

\* _pl_NativeNotify writes a byte, which select sees; PR_Notify is for a thread
\* in PL_WaitForEvent.
Appends(t, from, to) ==
  /\ At(t, from)
  /\ queue' = Append(queue, event[t])
  /\ notifyCount' = IF WritesByte THEN notifyCount + 1 ELSE notifyCount
  /\ WakesHandler(t)
  /\ GoTo(t, to)
  /\ UNCHANGED <<monVars, result, event, outer, fate>>

PostReturns(t) == /\ ExitMonitor(t, QueueMonitor, "postExit", "run")
                  /\ event' = [event EXCEPT ![t] = NoEvent]
                  /\ UNCHANGED <<queue, notifyCount, result, outer, fate>>

-----------------------------------------------------------------------------
(* PL_PostSynchronousEvent.                                                *)

PostSynchronousEvent(t) == t \in SyncPosters /\ InitEvent(t, "syncLookup")

SyncLooksUp(t) == /\ CreateMonitor(t, event[t], "syncLookup", "syncEnter")
                  /\ UNCHANGED evVars

SyncEnters(t) == /\ EnterMonitor(t, mon[t], "syncEnter", "syncBegin")
                 /\ UNCHANGED evVars

\* The handler thread handles its own event.
SyncInline(t) == /\ t = handlerThread
                 /\ Continue(t, "syncBegin", "syncResult")
                 /\ fate' = [fate EXCEPT ![event[t]] = "handled"]
                 /\ result' = [result EXCEPT ![event[t]] = "value"]
                 /\ UNCHANGED <<monVars, queue, notifyCount, event, outer>>

SyncBegins(t) == /\ t # handlerThread
                 /\ Continue(t, "syncBegin", "syncPost")
                 /\ outer' = [outer EXCEPT ![t] = GetMonitorEntryCount(t, QueueMonitor)]
                 /\ result' = [result EXCEPT ![event[t]] = "TRUE"]
                 /\ UNCHANGED <<monVars, queue, notifyCount, event, fate>>

SyncPosted(t) == /\ ExitMonitor(t, QueueMonitor, "syncPosted", "syncGiveUp")
                 /\ UNCHANGED evVars

\* The poster leaves the queue's monitor before it waits.
SyncGivesUp(t) == /\ \/ outer[t] > 0 /\ ExitTimes(t, QueueMonitor, outer[t],
                                                  "syncGiveUp", "syncCWait")
                     \/ /\ outer[t] = 0
                        /\ Continue(t, "syncGiveUp", "syncCWait")
                        /\ UNCHANGED monVars
                  /\ UNCHANGED evVars

\* PR_CWait, once: whatever ends it, the poster goes on.
SyncWaits(t) == /\ \/ MonWait(t, mon[t], "syncCWait", "syncWait")
                   \/ MonWaitFails(t, mon[t], "syncCWait", "syncReenter")
                /\ UNCHANGED evVars

SyncWoken(t) == /\ MonWaitEnds(t, mon[t], "syncWait", "syncReenter")
                /\ UNCHANGED evVars

SyncReenters(t) == /\ \/ outer[t] > 0 /\ EnterTimes(t, QueueMonitor, outer[t],
                                                    "syncReenter", "syncResult")
                      \/ /\ outer[t] = 0
                         /\ Continue(t, "syncReenter", "syncResult")
                         /\ UNCHANGED monVars
                   /\ UNCHANGED evVars

SyncTakesResult(t) == /\ CExitMonitor(t, event[t], "syncResult", "syncDestroy")
                      /\ result' = [result EXCEPT ![event[t]] = "NULL"]
                      /\ UNCHANGED <<queue, notifyCount, event, outer, fate>>

\* PL_DestroyEvent.
Destroys(t, from, to) == /\ Continue(t, from, to)
                         /\ fate' = [fate EXCEPT ![event[t]] = "none"]
                         /\ event' = [event EXCEPT ![t] = NoEvent]
                         /\ UNCHANGED <<monVars, queue, notifyCount, result>>

SyncReturns(t) == /\ Destroys(t, "syncDestroy", "run")
                  /\ outer' = [outer EXCEPT ![t] = 0]

-----------------------------------------------------------------------------
(* PL_EventLoop of the handler.                                            *)

\* Not from inside the monitor.
EventLoop(t) == /\ t = handlerThread
                /\ holder[QueueMonitor] # t
                /\ Continue(t, "run", "loopEnter")
                /\ UNCHANGED <<monVars, evVars>>

WaitForEvent(t) == /\ EnterMonitor(t, QueueMonitor, "loopEnter", "getEvent")
                   /\ UNCHANGED evVars

MayRead == notifyCount > 0

\* PL_GetEvent reads a byte if it may, and takes the first event.
GetEvent(t) == /\ Continue(t, "getEvent", IF queue = << >> THEN "loopWait"
                                                          ELSE "gotEvent")
               /\ notifyCount' = IF MayRead THEN notifyCount - 1 ELSE notifyCount
               /\ IF queue = << >>
                  THEN UNCHANGED <<queue, event>>
                  ELSE /\ queue' = Tail(queue)
                       /\ event' = [event EXCEPT ![t] = Head(queue)]
               /\ UNCHANGED <<monVars, result, outer, fate>>

\* An interrupt ends the loop, otherwise it looks again.
LoopWaits(t) ==
  /\ \/ MonWait(t, QueueMonitor, "loopWait", "loopWaiting")
     \/ MonWaitFails(t, QueueMonitor, "loopWait", "leaveLoop")
     \/ MonWaitEnds(t, QueueMonitor, "loopWaiting",
                    IF interrupted[t] THEN "leaveLoop" ELSE "getEvent")
  /\ UNCHANGED evVars

WaitForEventReturns(t) == /\ \/ ExitMonitor(t, QueueMonitor, "gotEvent", "handle")
                             \/ ExitMonitor(t, QueueMonitor, "leaveLoop", "run")
                          /\ UNCHANGED evVars

\* PL_HandleEvent: the handler runs, without any monitor.
HandleEvent(t) == /\ Continue(t, "handle", "handled")
                  /\ fate' = [fate EXCEPT ![event[t]] = "handled"]
                  /\ UNCHANGED <<monVars, queue, notifyCount, result, event, outer>>

MustDestroy(e) == result[e] = "NULL"

HandlerDestroys(t) == /\ At(t, "handled")
                      /\ MustDestroy(event[t])
                      /\ Destroys(t, "handled", "run")
                      /\ UNCHANGED outer

HandlerAnswers(t) == /\ At(t, "handled")
                     /\ ~MustDestroy(event[t])
                     /\ CreateMonitor(t, event[t], "handled", "resEnter")
                     /\ UNCHANGED evVars

CNotifies(t, from) == At(t, from) /\ MonNotify(t, mon[t])

TellsPoster(t) == CNotifies(t, "resSet")

\* The result of a synchronous event goes to its poster, which destroys it.
Answers(t) ==
  \/ EnterMonitor(t, mon[t], "resEnter", "resSet") /\ UNCHANGED evVars
  \/ /\ TellsPoster(t)
     /\ GoTo(t, "resExit")
     /\ result' = [result EXCEPT ![event[t]] = "value"]
     /\ UNCHANGED <<monVars, queue, notifyCount, event, outer, fate>>
  \/ /\ CExitMonitor(t, event[t], "resExit", "run")
     /\ event' = [event EXCEPT ![t] = NoEvent]
     /\ UNCHANGED <<queue, notifyCount, result, outer, fate>>

-----------------------------------------------------------------------------
(* PL_RevokeEvents.                                                        *)

RevokeEvents(t) == /\ t \in DOMAIN Revokes
                   /\ EnterMonitor(t, QueueMonitor, "run", "revoking")
                   /\ UNCHANGED evVars

Revocable(t) == {i \in DOMAIN queue : Owner[queue[i]] = Revokes[t]}

\* PL_MapEvents and PL_DequeueEvent: the next event of the owner.
Dequeues(t, e) == \E i \in Revocable(t) :
  /\ \A j \in Revocable(t) : i <= j
  /\ e = queue[i]
  /\ queue' = [j \in 1..(Len(queue) - 1) |-> IF j < i THEN queue[j] ELSE queue[j + 1]]

RevokesEvent(t, e) ==
  /\ At(t, "revoking")
  /\ result[e] # "TRUE"
  /\ Continue(t, "revoking", "revoking")
  /\ Dequeues(t, e)
  /\ fate' = [fate EXCEPT ![e] = "none"]
  /\ UNCHANGED <<monVars, notifyCount, result, event, outer>>

RevokesSyncEvent(t, e) ==
  /\ At(t, "revoking")
  /\ result[e] = "TRUE"
  /\ CreateMonitor(t, e, "revoking", "revEnter")
  /\ Dequeues(t, e)
  /\ event' = [event EXCEPT ![t] = e]
  /\ UNCHANGED <<notifyCount, result, outer, fate>>

NoResult(e) == result' = [result EXCEPT ![e] = "NULL"]

Cancels(t) ==
  \/ EnterMonitor(t, mon[t], "revEnter", "revSet") /\ UNCHANGED evVars
  \/ /\ CNotifies(t, "revSet")
     /\ GoTo(t, "revExit")
     /\ NoResult(event[t])
     /\ fate' = [fate EXCEPT ![event[t]] = "revoked"]
     /\ UNCHANGED <<monVars, queue, notifyCount, event, outer>>
  \/ /\ CExitMonitor(t, event[t], "revExit", "revoking")
     /\ event' = [event EXCEPT ![t] = NoEvent]
     /\ UNCHANGED <<queue, notifyCount, result, outer, fate>>

RevokeReturns(t) == /\ At(t, "revoking")
                    /\ Revocable(t) = {}
                    /\ ExitMonitor(t, QueueMonitor, "revoking", "run")
                    /\ UNCHANGED evVars

-----------------------------------------------------------------------------
EvBegins(t) == \/ UserEnters(t) \/ PostEvent(t) \/ PostSynchronousEvent(t)
               \/ RevokeEvents(t)

\* The program leaves the monitor again, and the handler calls its loop again.
EvGoesOn(t) ==
  \/ UserExits(t)
  \/ PostEnters(t, "postEnter", "postAppend") \/ PostEnters(t, "syncPost", "syncAppend")
  \/ Appends(t, "postAppend", "postExit") \/ Appends(t, "syncAppend", "syncPosted")
  \/ PostReturns(t)
  \/ SyncLooksUp(t) \/ SyncEnters(t) \/ SyncInline(t) \/ SyncBegins(t)
  \/ SyncPosted(t) \/ SyncGivesUp(t) \/ SyncWaits(t) \/ SyncWoken(t)
  \/ SyncReenters(t) \/ SyncTakesResult(t) \/ SyncReturns(t)
  \/ EventLoop(t) \/ WaitForEvent(t) \/ GetEvent(t) \/ LoopWaits(t) \/ WaitForEventReturns(t)
  \/ HandleEvent(t) \/ HandlerDestroys(t) \/ HandlerAnswers(t) \/ Answers(t)
  \/ \E e \in Events : RevokesEvent(t, e) \/ RevokesSyncEvent(t, e)
  \/ Cancels(t) \/ RevokeReturns(t)
  \/ Relock(t) /\ UNCHANGED <<monVars, evVars>>

EvInterrupts(u) == /\ u \in Interruptible
                   /\ InterruptThread(u)
                   /\ UNCHANGED <<monVars, evVars>>

EvNext == /\ \E t \in Threads : EvBegins(t) \/ EvGoesOn(t) \/ EvInterrupts(t)
          /\ UNCHANGED handlerThread

EvSpec == EvInit /\ [][EvNext]_vars

\* Strong, because the threads compete for the monitors.  Whatever else the
\* handler does, it calls its loop again and again, and whoever has entered the
\* queue's monitor leaves it some time.
EvFairness ==
  /\ \A t \in Threads : SF_vars(EvGoesOn(t) /\ UNCHANGED handlerThread)
  /\ SF_vars(EventLoop(handlerThread) /\ UNCHANGED handlerThread)
  /\ SF_vars(\E t \in Threads : UserExits(t) /\ UNCHANGED handlerThread)

EvFairSpec == EvSpec /\ EvFairness

-----------------------------------------------------------------------------
(* Correctness.                                                            *)

EvTypeOK ==
  /\ ACvTypeOK /\ MonTypeOK
  /\ pc \in [Threads -> {"run", "loopWaiting"} \cup PostPcs \cup SyncPcs
                          \cup HandlePcs \cup RevokePcs]
  /\ queue \in Seq(Events)
  /\ notifyCount \in Nat
  /\ result \in [Events -> Results]
  /\ event \in [Threads -> Events \cup {NoEvent}]
  /\ outer \in [Threads -> 0..MaxEntries]
  /\ fate \in [Events -> Fates]

\* Between PR_CEnterMonitor and PR_CExitMonitor, for the event it is busy with.
InCachedMonitor(t) ==
  pc[t] \in {"syncEnter", "syncBegin", "syncPost", "syncAppend", "syncPosted",
             "syncGiveUp", "syncCWait", "syncWait", "syncReenter", "syncResult",
             "resEnter", "resSet", "resExit", "revEnter", "revSet", "revExit"}

\* A cached monitor belongs to its address as long as somebody has entered it,
\* waits in it or is about to enter it: its entry counts exactly those threads.
CacheEntriesAreCounted ==
  \A e \in Events :
    LET users == {t \in Threads : InCachedMonitor(t) /\ event[t] = e}
    IN  /\ cacheEntryCount[e] = Cardinality(users)
        /\ \A t \in users : mon[t] = cached[e]

\* A handler that selects on the pipe does not sleep beside an event: the pipe has
\* a byte for each of them, however reads, which come before the look at the queue,
\* and revocations, which leave their bytes behind, fall.
EventsHaveBytes == Len(queue) <= notifyCount

\* The queue of plevent.c, its pipe and the cached monitors of prcmon.c are
\* consistent.
EvInv == EvTypeOK /\ CacheEntriesAreCounted /\ EventsHaveBytes

\* Nobody has an event in hand that does not exist, and every event in the queue
\* does: whoever handles, awaits or revokes it, it is destroyed once, after that.
EventsInUseExist ==
  /\ \A i \in DOMAIN queue : fate[queue[i]] = "new"
  /\ \A t \in Threads : event[t] # NoEvent /\ pc[t] # "postExit" => fate[event[t]] # "none"

\* A synchronous post returns the handler's result, or NULL if it was revoked.
SyncResultIsAnswer ==
  \A t \in Threads : pc[t] = "syncResult" =>
    \/ fate[event[t]] = "handled" /\ result[event[t]] = "value"
    \/ fate[event[t]] = "revoked" /\ result[event[t]] = "NULL"

\* The monitor that a call of t stands before, if any.
Wanted(t) ==
  CASE \/ pc[t] \in {"postEnter", "syncPost", "loopEnter"}
       \/ pc[t] = "syncReenter" /\ outer[t] > 0
       \/ pc[t] = "loopWaiting" /\ phase[t] = "woken"      -> QueueMonitor
    [] \/ pc[t] \in {"syncEnter", "resEnter", "revEnter"}
       \/ pc[t] = "syncWait" /\ phase[t] = "woken"         -> mon[t]
    [] OTHER                                              -> NoMonitor

\* t cannot go on before u leaves a monitor, or before u answers the event that t
\* has posted: u has it in hand, or is the handler, and the event in the queue.
WaitsFor(t, u) ==
  \/ u # t /\ \E m \in Monitors : m = Wanted(t) /\ holder[m] = u
  \/ /\ pc[t] = "syncWait" /\ phase[t] = "waiting"
     /\ \/ u # t /\ event[u] = event[t]
        \/ u = handlerThread /\ \E i \in DOMAIN queue : queue[i] = event[t]

\* Posters, the handler and those who revoke events enter the queue's monitor and
\* those of events in different orders, and posters wait for the others, but
\* never in a circle.
NobodyWaitsInCircle ==
  ~ \E S \in (SUBSET Threads) \ {{}} : \A t \in S : \E u \in S : WaitsFor(t, u)

\* PL_EventLoop processes "events as they arrive": no notify is lost, whatever
\* the handler does when the event is posted, and however often its loop is
\* interrupted.
EventsAreProcessed ==
  \A e \in Events : e \in {queue[i] : i \in DOMAIN queue} ~>
                    e \notin {queue[i] : i \in DOMAIN queue}

\* A synchronous post returns: its poster lets the handler in, and is woken.
SyncPostReturns == \A t \in Threads : pc[t] \in SyncPcs ~> pc[t] = "run"
=============================================================================
