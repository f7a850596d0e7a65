------------------------------ MODULE PrMWait ------------------------------
(***************************************************************************)
(* Wait groups of NSPR, prmwait.c: descriptors are added to a group, threads *)
(* wait for one that is complete, and one of the waiting threads polls for   *)
(* all of them.  A descriptor stands for its file, too.                      *)
(***************************************************************************)
EXTENDS CvClient, Sequences, SequencesExt, Integers

CONSTANTS Descs,          \* the PRRecvWait objects
          Timed,          \* those that have a timeout
          Workers,        \* the threads that call PR_WaitRecvReady
          Producers,      \* the threads that add and cancel descriptors
          Cancellers,     \* the threads that call PR_CancelWaitGroup
          Interruptible,  \* the threads that somebody interrupts
          Ml,             \* group->ml
          IoComplete,     \* group->io_complete
          NewBusiness,    \* group->new_business
          MwManage,       \* group->mw_manage
          NoDesc          \* "no descriptor"

ASSUME MWaitAssumption ==
  /\ Timed \subseteq Descs /\ NoDesc \notin Descs
  /\ Workers \subseteq Threads /\ Producers \subseteq Threads
  /\ Cancellers \subseteq Threads /\ Interruptible \subseteq Threads
  /\ {IoComplete, NewBusiness, MwManage} \subseteq CVars
  /\ \A c \in {IoComplete, NewBusiness, MwManage} : CvLock[c] = Ml
  /\ IoComplete # NewBusiness /\ IoComplete # MwManage /\ NewBusiness # MwManage
  /\ IsFiniteSet(Threads)

VARIABLES state,      \* group->state
          waiting,    \* group->waiting_threads
          poller,     \* group->poller
          table,      \* the descriptors in group->waiter
          ready,      \* group->io_ready, with the outcomes
          listed,     \* the descriptors in group->polling_list, in a poll
          flagged,    \* those of them whose out_flags are still to be looked at
          desc,       \* the descriptor a thread adds, or is given
          free,       \* the descriptors the program owns
          arrived,    \* the files with data, or an error, to be received
          reclaimed,  \* history: PR_CancelWaitGroup has returned NULL
          abandoned   \* history: an interrupted thread has left completions behind

countVars == <<state, waiting>>
doneVars  == <<table, ready>>
pollVars  == <<poller, listed, flagged>>
ownedVars == <<desc, free, reclaimed, abandoned>>
groupVars == <<countVars, doneVars, pollVars, ownedVars>>
mwVars == <<clientVars, groupVars, arrived>>


WaitPcs == {"wrTest", "wrBusiness", "wrBusinessWait", "wrComplete", "wrIoWait",
            "wrLeave"}
PollPcs == {"pollTop", "pollScan", "polling", "pollBack", "pollCollect", "pollFailed"}
CancelPcs == {"cgWait", "cgWaiting", "cgTake"}

\* desc->outcome; PR_MW_PENDING is that of the descriptors in the table, and what a
\* caller learns of PR_MW_FAILURE does not show.
Outcomes == {"success", "timeout", "interrupt"}

MwInit == /\ ACvInit
          /\ pc = [t \in Threads |-> "run"]
          /\ state = "running" /\ waiting = 0 /\ poller = NoThread
          /\ table = {} /\ ready = << >>
          /\ listed = {} /\ flagged = {}
          /\ desc = [t \in Threads |-> NoDesc]
          /\ free = Descs
          /\ arrived = {}
          /\ reclaimed = FALSE /\ abandoned = FALSE

-----------------------------------------------------------------------------
(* Slips.                                                                  *)

\* The results of PR_Poll are believed for descriptors that were cancelled.
SlipAnyFlagged(d) == TRUE

\* A failed PR_Poll leaves group->poller.
SlipKeepPoller == poller' = poller

\* PR_AddWaitFileDesc adds to a group that is being cancelled.
SlipAddAlways == TRUE

\* _MW_DoneInternal notifies only when the list of finished I/O was empty.
SlipFirstOnly == ready = << >>

\* The walk writes to the first entry of the polling list only.
SlipOneEntry == {CHOOSE d \in table : TRUE}

-----------------------------------------------------------------------------
(* What several functions do with the group's lock.                        *)

NotifiesDone == TRUE

\* _MW_DoneInternal.
Done(t, d, o) ==
  /\ ready' = Append(ready, [desc |-> d, outcome |-> o])
  /\ IF NotifiesDone THEN Notify(t, IoComplete) ELSE UNCHANGED acvVars
  /\ table' = table \ {d}

\* MW_TestForShutdownInternal, with n waiting threads.
TestForShutdown(t, n) ==
  IF state = "stopping" /\ n = 0 /\ ready = << >> /\ table = {}
  THEN state' = "stopped" /\ Notify(t, MwManage)
  ELSE UNCHANGED <<acvVars, state>>

Returns(t) == /\ Unlock(t, Ml, "mwUnlock", "run")
              /\ desc' = [desc EXCEPT ![t] = NoDesc]
              /\ free' = IF desc[t] = NoDesc THEN free ELSE free \cup {desc[t]}
              /\ UNCHANGED <<reclaimed, abandoned, countVars, doneVars, pollVars>>

-----------------------------------------------------------------------------
(* PR_AddWaitFileDesc, for a descriptor that the program owns.             *)

MayAdd == state = "running"

\* Without a right to add it, the program is handed the descriptor back.
AddWaitFileDesc(t, d) == /\ d \in free
                         /\ Lock(t, Ml, "run", IF MayAdd THEN "add" ELSE "mwUnlock")
                         /\ desc' = [desc EXCEPT ![t] = d]
                         /\ free' = free \ {d}
                         /\ UNCHANGED <<reclaimed, abandoned, countVars, doneVars, pollVars>>

AddsDesc(t) == /\ At(t, "add")
               /\ table' = table \cup {desc[t]}
               /\ desc' = [desc EXCEPT ![t] = NoDesc]
               /\ Notify(t, NewBusiness)
               /\ GoTo(t, "mwUnlock")
               /\ UNCHANGED <<ready, free, reclaimed, abandoned, countVars, pollVars>>

-----------------------------------------------------------------------------
(* PR_WaitRecvReady.                                                       *)

\* The caller is counted, unless the group is being cancelled.
WaitRecvReady(t) ==
  /\ Lock(t, Ml, "run", IF state = "running" THEN "wrTest" ELSE "wrRefused")
  /\ waiting' = IF state = "running" THEN waiting + 1 ELSE waiting
  /\ UNCHANGED <<state, doneVars, pollVars, ownedVars>>

Refused(t) == /\ At(t, "wrRefused")
              /\ TestForShutdown(t, waiting)
              /\ GoTo(t, "mwUnlock")
              /\ UNCHANGED <<waiting, doneVars, pollVars, ownedVars>>

\* The first descriptor that is complete; _MW_InitialRecv, or after it the program,
\* receives what has arrived for a successful one.
Takes(t, from) ==
  LET d == Head(ready).desc
  IN  /\ ready # << >>
      /\ Continue(t, from, "wrLeave")
      /\ ready' = Tail(ready)
      /\ desc' = [desc EXCEPT ![t] = d]
      /\ arrived' = IF Head(ready).outcome = "success" THEN arrived \ {d} ELSE arrived
      /\ abandoned' = (abandoned /\ ready' # << >>)
      /\ UNCHANGED <<table, free, reclaimed, countVars, pollVars>>

TakesReady(t) == Takes(t, "wrTest") \/ Takes(t, "wrComplete")

\* Without finished I/O a thread looks for a descriptor to poll for, and looks again
\* only for that when it is woken.
LooksFrom == IF ready = << >> THEN {"wrTest", "wrBusiness"} ELSE {"wrBusiness"}

\* Wait for new business; an interrupt or a cancelled group ends the call.
BusinessWaits(t, from) == /\ table = {} /\ state = "running"
                          /\ \/ Wait(t, NewBusiness, from, "wrBusinessWait")
                             \/ WaitFails(t, NewBusiness, from, "wrLeave")
                          /\ UNCHANGED groupVars

BusinessAborts(t, from) == /\ table = {} /\ state # "running"
                           /\ Continue(t, from, "wrLeave")
                           /\ UNCHANGED groupVars

BusinessWoken(t) == /\ WaitEnds(t, "wrBusinessWait",
                                IF interrupted[t] THEN "wrLeave" ELSE "wrBusiness")
                    /\ UNCHANGED groupVars

\* Somebody else polls.
LeavesPolling(t, from) == /\ table # {} /\ poller # NoThread
                          /\ Continue(t, from, "wrComplete")
                          /\ UNCHANGED groupVars

IoWaits(t) == /\ ready = << >>
              /\ \/ Wait(t, IoComplete, "wrComplete", "wrIoWait")
                 \/ WaitFails(t, IoComplete, "wrComplete", "wrLeave")
              /\ UNCHANGED groupVars

IoWoken(t) == /\ ~interrupted[t]
              /\ WaitEnds(t, "wrIoWait", "wrComplete")
              /\ UNCHANGED groupVars

\* It takes nothing, even if a completion has woken it.
IoInterrupted(t) == /\ interrupted[t]
                    /\ WaitEnds(t, "wrIoWait", "wrLeave")
                    /\ abandoned' = (abandoned \/ ready # << >>)
                    /\ UNCHANGED <<desc, free, reclaimed, countVars, doneVars,
                                   pollVars>>

Leaves(t) == /\ At(t, "wrLeave")
             /\ waiting' = waiting - 1
             /\ TestForShutdown(t, waiting - 1)
             /\ GoTo(t, "mwUnlock")
             /\ UNCHANGED <<doneVars, pollVars, ownedVars>>

-----------------------------------------------------------------------------
(* _MW_PollInternal.                                                       *)

PollInternal(t, from) == /\ table # {} /\ poller = NoThread
                         /\ Unlock(t, Ml, from, "pollTop")
                         /\ poller' = t
                         /\ UNCHANGED <<listed, flagged, countVars, doneVars, ownedVars>>

ScanBegins(t) == /\ Lock(t, Ml, "pollTop", "pollScan")
                 /\ UNCHANGED groupVars

\* The walk over the table comes to a descriptor whose time is over, ...
Expires(t, d) == /\ At(t, "pollScan")
                 /\ d \in table \cap Timed
                 /\ Done(t, d, "timeout")
                 /\ UNCHANGED <<pc, countVars, pollVars, ownedVars>>

\* ... and puts the others in the list.
Listing == table

ScanEnds(t) == /\ table # {}
               /\ Unlock(t, Ml, "pollScan", "polling")
               /\ listed' = Listing
               /\ UNCHANGED <<poller, flagged, countVars, doneVars, ownedVars>>

\* PR_Poll, for a limited time; a pending interrupt makes it fail.
PollReturns(t) == /\ Continue(t, "polling", "pollBack")
                  /\ flagged' = listed \cap arrived
                  /\ listed' = {}
                  /\ UNCHANGED <<poller, countVars, doneVars, ownedVars>>

PollFails(t) == /\ At(t, "polling")
                /\ interrupted[t]
                /\ ClearInterrupt(t)
                /\ GoTo(t, "pollFailed")
                /\ listed' = {}
                /\ UNCHANGED <<poller, flagged, countVars, doneVars, ownedVars>>

GivesPollerUp == poller' = NoThread

PollGivesUp(t) == /\ Lock(t, Ml, "pollFailed", "wrLeave")
                  /\ GivesPollerUp
                  /\ UNCHANGED <<listed, flagged, countVars, doneVars, ownedVars>>

PollLocks(t) == /\ Lock(t, Ml, "pollBack", "pollCollect")
                /\ UNCHANGED groupVars

\* _MW_LookupInternal: the descriptor may have been cancelled meanwhile.
Lookup(d) == d \in table

Collects(t, d) == /\ At(t, "pollCollect")
                  /\ d \in flagged /\ Lookup(d)
                  /\ flagged' = flagged \ {d}
                  /\ Done(t, d, "success")
                  /\ UNCHANGED <<pc, poller, listed, countVars, ownedVars>>

Collected == {d \in flagged : Lookup(d)} = {}

PollAgain(t) == /\ Collected
                /\ state = "running" /\ waiting # 0
                /\ Unlock(t, Ml, "pollCollect", "pollTop")
                /\ flagged' = {}
                /\ UNCHANGED <<poller, listed, countVars, doneVars, ownedVars>>

\* Nothing is left to poll, or the group is being cancelled.
PollEnds(t) == /\ \/ table = {} /\ Continue(t, "pollScan", "wrTest")
                  \/ /\ Collected
                     /\ state # "running" \/ waiting = 0
                     /\ Continue(t, "pollCollect", "wrTest")
               /\ poller' = NoThread
               /\ flagged' = {}
               /\ UNCHANGED <<listed, countVars, doneVars, ownedVars>>

-----------------------------------------------------------------------------
(* PR_CancelWaitFileDesc, for a descriptor the program does not own now.    *)

Cancellable(d) == state = "running" /\ d \in table

\* One that is complete already, or not there, is left alone.
CancelWaitFileDesc(t, d) ==
  /\ d \notin free
  /\ Lock(t, Ml, "run", IF Cancellable(d) THEN "cancel" ELSE "mwUnlock")
  /\ desc' = IF Cancellable(d) THEN [desc EXCEPT ![t] = d] ELSE desc
  /\ UNCHANGED <<free, reclaimed, abandoned, countVars, doneVars, pollVars>>

\* The caller is not given the descriptor: whoever waits is.
Cancels(t) == /\ At(t, "cancel")
              /\ Done(t, desc[t], "interrupt")
              /\ desc' = [desc EXCEPT ![t] = NoDesc]
              /\ GoTo(t, "mwUnlock")
              /\ UNCHANGED <<free, reclaimed, abandoned, countVars, pollVars>>

-----------------------------------------------------------------------------
(* PR_CancelWaitGroup.                                                     *)

\* Nothing new comes in; without other threads the group stops at once.
CancelWaitGroup(t) ==
  /\ Lock(t, Ml, "run", IF state = "stopped" THEN "cgTake" ELSE "cgWait")
  /\ state' = IF waiting = 0 THEN "stopped"
              ELSE IF state = "running" THEN "stopping" ELSE state
  /\ UNCHANGED <<waiting, doneVars, pollVars, ownedVars>>

CancelWaits(t) == /\ state # "stopped"
                  /\ \/ Wait(t, MwManage, "cgWait", "cgWaiting")
                     \/ WaitFails(t, MwManage, "cgWait", "cgWait")
                  /\ UNCHANGED groupVars

CancelWoken(t) == /\ WaitEnds(t, "cgWaiting", "cgWait")
                  /\ UNCHANGED groupVars

\* The descriptors that are left look interrupted.
CancelMarks(t, d) == /\ At(t, "cgWait")
                     /\ state = "stopped" /\ d \in table
                     /\ Done(t, d, "interrupt")
                     /\ UNCHANGED <<pc, countVars, pollVars, ownedVars>>

CancelMarked(t) == /\ At(t, "cgWait")
                   /\ state = "stopped" /\ table = {}
                   /\ NotifyAll(t, NewBusiness)
                   /\ GoTo(t, "cgTake")
                   /\ UNCHANGED groupVars

CancelTakes(t) == /\ Continue(t, "cgTake", "mwUnlock")
                  /\ ready # << >>
                  /\ ready' = Tail(ready)
                  /\ desc' = [desc EXCEPT ![t] = Head(ready).desc]
                  /\ UNCHANGED <<table, free, reclaimed, abandoned,
                                 countVars, pollVars>>

CancelFindsNone(t) == /\ Continue(t, "cgTake", "mwUnlock")
                      /\ ready = << >>
                      /\ reclaimed' = TRUE
                      /\ UNCHANGED <<desc, free, abandoned, countVars, doneVars,
                                     pollVars>>

-----------------------------------------------------------------------------
\* Data arrives, or the other side closes the connection.  What arrives at a file
\* that is not in the table shows when it is added again.
Arrives(d) == /\ d \in table \ arrived
              /\ arrived' = arrived \cup {d}
              /\ UNCHANGED <<clientVars, groupVars>>

MwBegins(t) == \/ /\ t \in Producers
                  /\ \E d \in Descs : AddWaitFileDesc(t, d) \/ CancelWaitFileDesc(t, d)
               \/ t \in Workers /\ WaitRecvReady(t)
               \/ t \in Cancellers /\ CancelWaitGroup(t)

MwGoesOn(t) ==
  \/ TakesReady(t)
  \/ /\ \/ AddsDesc(t) \/ Returns(t) \/ Refused(t)
        \/ \E from \in LooksFrom : \/ BusinessWaits(t, from) \/ BusinessAborts(t, from)
                                  \/ LeavesPolling(t, from) \/ PollInternal(t, from)
        \/ BusinessWoken(t) \/ IoWaits(t) \/ IoWoken(t) \/ IoInterrupted(t) \/ Leaves(t)
        \/ ScanBegins(t) \/ ScanEnds(t) \/ PollReturns(t) \/ PollFails(t)
        \/ PollLocks(t) \/ PollAgain(t) \/ PollEnds(t) \/ PollGivesUp(t)
        \/ \E d \in Descs : Expires(t, d) \/ Collects(t, d)
        \/ Cancels(t) \/ CancelWaits(t) \/ CancelWoken(t)
        \/ CancelMarked(t) \/ CancelTakes(t) \/ CancelFindsNone(t)
        \/ \E d \in Descs : CancelMarks(t, d)
        \/ Relock(t) /\ UNCHANGED groupVars
     /\ UNCHANGED arrived

MwInterrupts(u) == u \in Interruptible /\ InterruptThread(u) /\ UNCHANGED <<groupVars, arrived>>

MwNext == \/ \E t \in Threads : \/ MwBegins(t) /\ UNCHANGED arrived
                                \/ MwGoesOn(t)
                                \/ MwInterrupts(t)
          \/ \E d \in Descs : Arrives(d)

MwSpec == MwInit /\ [][MwNext]_mwVars

\* Strong, because the threads compete for the group's lock.
MwFairness == \A t \in Threads : SF_mwVars(MwGoesOn(t))

MwFairSpec == MwSpec /\ MwFairness

-----------------------------------------------------------------------------
(* Correctness.                                                            *)

MwTypeOK == /\ ACvTypeOK
            /\ pc \in [Threads -> {"run", "add", "wrRefused", "cancel", "mwUnlock"}
                                    \cup WaitPcs \cup PollPcs \cup CancelPcs]
            /\ state \in {"running", "stopping", "stopped"}
            /\ waiting \in 0 .. Cardinality(Workers)
            /\ poller \in Threads \cup {NoThread}
            /\ table \subseteq Descs /\ listed \subseteq Descs /\ flagged \subseteq Descs
            /\ ready \in Seq([desc : Descs, outcome : Outcomes])
            /\ desc \in [Threads -> Descs \cup {NoDesc}]
            /\ free \subseteq Descs /\ arrived \subseteq Descs
            /\ reclaimed \in BOOLEAN /\ abandoned \in BOOLEAN

\* The descriptor a thread adds, or takes out of the group.
InHand(t) == IF pc[t] = "cancel" THEN {} ELSE {desc[t]} \ {NoDesc}

\* The descriptors in the list of finished I/O.
Finished == [i \in DOMAIN ready |-> ready[i].desc]

\* A descriptor that was added is handed back exactly once, whoever completes it:
\* the program, a call, the table of the group and the list of finished I/O share
\* the descriptors out.
DescsHaveOneOwner ==
  /\ IsInjective(Finished)
  /\ \A d \in Descs :
       Cardinality({t \in Threads : d \in InHand(t)})
         + Cardinality({S \in {<<1, free>>, <<2, table>>, <<3, Range(Finished)>>} :
                          d \in S[2]}) = 1

\* One thread at a time polls and uses the polling list, and group->poller names it
\* and nobody who has left; the waiting threads are counted, the poller included.
OnePoller ==
  /\ \A t \in Threads : pc[t] \in PollPcs <=> poller = t
  /\ waiting = Cardinality({t \in Threads : pc[t] \in WaitPcs \cup PollPcs})

\* The fields of a group agree with what the threads do.
MwInv == MwTypeOK /\ OnePoller

\* When a group has stopped, nobody waits or polls; and when PR_CancelWaitGroup has
\* returned NULL, all descriptors are reclaimed, whoever adds or cancels meanwhile.
StoppedGroupIsQuiet ==
  /\ state = "stopped" => waiting = 0 /\ poller = NoThread
  /\ reclaimed => state = "stopped" /\ table = {} /\ ready = << >>

\* The threads that will look at the list of finished I/O.
Takers == {t \in Threads : \/ pc[t] = "wrIoWait" /\ phase[t] # "waiting"
                           \/ pc[t] = "wrComplete"}

\* _MW_DoneInternal: "If there are other threads waiting on the group, notify one."
\* As long as a thread waits for completions, each one has a thread on its way to
\* take it, unless a thread that was notified has been interrupted.
CompletionsHaveTakers ==
  Waiting(IoComplete) # {} /\ ~abandoned => Len(ready) <= Cardinality(Takers)

\* As long as a thread polls, a descriptor whose file has data is found complete,
\* also one that was added or received its data in the middle of a poll, unless
\* somebody is interrupted meanwhile.
ReadyIsNoticed ==
  \A d \in Descs : d \in table \cap arrived /\ poller # NoThread
                     ~> d \notin table \/ poller = NoThread \/ ~NoInterrupts
=============================================================================
