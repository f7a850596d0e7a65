# TLA+ models of the Communicator sources

This directory models and verifies the parts of the tree on which everything that
runs concurrently rests:

- the thread package of NSPR, `src/nsprpub/pr/src/threads`, in the builds that
  schedule user-level threads ("combined": one virtual processor for the *local*
  threads, a kernel thread for every *native* one): locks, condition variables,
  timers and stop-the-world suspension, hand-written protocols over shared queues;
- what NSPR builds on its condition variables: threads that are created, joined and
  recycled, semaphores, one-time initialisation, monitors and the monitors cached
  for addresses, wait groups, and the event queues of `src/nsprpub/lib/ds`;
- the thin locks of the JavaScript engine, `src/js/src/jslock.c`, and the scope locks
  that objects share and change.

Paths below are relative to `src/`; `threads/` is `nsprpub/pr/src/threads/` and
`combined/` is `threads/combined/`.

## 1. Inventory

### The core: NSPR

| Component | State | Operations | What is hard |
|---|---|---|---|
| Locks, `combined/prulock.c` | `owner`, `waitQ` of a lock; `state`, `wait.lock`, `priority` of a thread | `PR_Lock`, `PR_Unlock`, `PR_TestAndLock`, `_PR_AssignLock` | hand-off to the first waiter, not a wake-up to compete; waiters may be marked for suspension |
| Suspension, `combined/pruthr.c` | `_PR_SUSPENDING`, state `_PR_SUSPENDED`, `suspendAllThread` | `PR_SuspendAll`, `PR_ResumeAll`, `_PR_Suspend`, `_PR_Resume` | walks the threads one by one while native threads lock, unlock and notify |
| Scheduler, `combined/pruthr.c`, `prucpu.c`, `md/unix/unix.c` | run queues, current thread, `intsOff` | `_PR_Schedule`, `PR_Yield`, clock tick, priorities | preemption at any point outside interrupt-off sections |
| Condition variables, `combined/prucv.c` | `condQ`, `wait.cvar` | `PR_WaitCondVar`, `PR_NotifyCondVar`, `PR_NotifyAllCondVar` | notify, timeout, interrupt and suspension all reach for one blocked thread |
| Interrupts, `threads/prcthr.c`, `prucv.c` | `_PR_INTERRUPT` | `PR_Interrupt`, `PR_ClearInterrupt`, `_PR_NotifyLockedThread` | runs in two halves with the thread lock dropped in between |
| Sleep queue, `combined/pruthr.c`, `prucv.c` | list of differences, `sleepQmax`, `last_clock` | `_PR_AddSleepQ`, `_PR_DelSleepQ`, `_PR_ClockInterrupt` | arithmetic between neighbours; the queue is let go of in mid-expiry |
| Threads, `combined/pruthr.c`, `misc/prinit.c` | `state`, `term`, dead queues, active lists, `_pr_userActive` | create, join, exit, recycle, `PR_Cleanup` | exit racing join and reuse, the last one to count down, creations that fail |
| Monitors, `threads/prmon.c`, `prcmon.c` | owner, entry count; cache of monitors by address | enter, exit, wait, notify | entry counts around waits, recycling of cache entries |
| Semaphores, `threads/prsem.c` | `count`, `waiters` | wait, post | a notify that goes to an interrupted waiter |
| One-time calls, `pr/src/misc/prinit.c` | `inProgress`, `initialized` | `PR_CallOnce` | one lock and condition for all objects, a path without the lock |
| Wait groups, `pr/src/io/prmwait.c` | table of descriptors, finished I/O, poller, count of waiting threads, group state | add, wait, poll, cancel a descriptor or the group | one of the waiting threads polls for all, without the lock, while others add and cancel |
| Event queues, `lib/ds/plevent.c` | list, monitor, `notifyCount`, the result of an event | post, post and wait, get, handle, revoke | synchronous events that poster, handler and revoker reach for, monitors taken in two orders |
| Rest | I/O layers, name service, memory, linking, `lib/ds` | | wrappers and data structures |

Threads call down: `PR_WaitCondVar` uses the internals of `PR_Unlock` and `PR_Lock`;
`PR_SuspendAll` and `PR_ResumeAll` use `PR_Lock` and `PR_Unlock` on
`_pr_activeLock`, and `_PR_Resume` calls `_PR_AssignLock`; the timeouts of waits sit in
the sleep queue, which the clock interrupt empties.  Four inner locks make the
sections atomic against native threads: `_PR_LOCK_LOCK`, `_PR_CVAR_LOCK`,
`_PR_THREAD_LOCK` and the locks of the processor's queues.  Local threads turn
interrupts off instead (and as well).

Correctness of the core, in a sentence each: a lock has one owner and never lies
idle while somebody waits; a wake-up goes to exactly one wait and is not lost; a
wait returns with its lock; between `PR_SuspendAll` and `PR_ResumeAll` no other
collectable thread runs and afterwards all of them do; no thread waits for ever
for an inner lock; a timeout is neither early nor late by more than a clock tick.
Above it: `PR_Cleanup` returns after the last user thread and does return; a thread
that is joined exists until the join is over; no unit of a semaphore is stranded while
somebody waits; a function is called once and every caller sees its status; a cached
monitor belongs to its address as long as somebody is in it; an event is destroyed
once, after its last use, and a synchronous post gets its answer; a descriptor of a wait
group comes back once, whoever completes it, and what is ready is noticed; an object has one
owner whatever its scope, and a released lock is not left to suspended threads.

### The rest of the tree

- **JavaScript engine** (`js/src`).  *Locks* (`jslock.c`, `jsscope.c`; modelled): a word with
  the owner and a wait bit, changed by compare-and-swap; a fat lock from a free list
  under contention, whose `susp` counts suspended threads; the count of a scope and
  the scope of an object.  Hard: the word, `p->fat` and `susp` change under different
  locks or none; fat locks serve one thin lock after the other; an object changes its
  scope while others wait for the lock of the one it had.  *The rest*: garbage
  collector, interpreter.
- **JavaScript in the browser** (`lib/libmocha`): the lock between the mozilla and
  the mocha thread, two event queues.  Hard: recursion, requests while waiting.
- **Network library** (`network/main`): active entries, waiting URLs, connection
  limits.  Hard: exit routines that start or abort URLs while a list is walked.
- **Caches** (`network/cache`): memory and disk caches with a size limit, locks and
  delayed deletion.
- **Protocols** (`network/protocol`): socket-driven state machines.
- **Database** (`dbm`): the Berkeley hash package, page splits and overflow pages.
- **Everything else** (layout, parser, style sheets, layers, mail, plug-ins, images,
  fonts, preferences, front ends, installers, vendored JPEG and zlib): sequential
  transformations, user interface, or third-party code.

`PROJECT.json` lists every component with the reason it is or is not modelled, and
the hazards of the code, each at its line.

## 2. Modules

    AbstractLock <--implements-- PrLock <--EXTENDS-- PrCondVar --implements--> AbstractCondVar
                                  ^  ^                                             ^
                    PrLockProofs -+  +-- PrInnerLocks      PrSleepQ                | EXTENDS
                                                                                CvClient
            PrLockProofs <--EXTENDS-- PrCondVarProofs (with PrCondVar)             ^ ^ ^
            PrLockProofs <--EXTENDS-- PrInnerLocksProofs (with PrInnerLocks)       | | |
            PrSleepQ <--EXTENDS-- PrSleepQProofs                                   | | |
            PrThread, PrSem, PrCallOnce <--EXTENDS-- PrProgram   ------------------+ | |
                               PrProgram <--EXTENDS-- PrProgramProofs                | |
            PrMonitor <--EXTENDS-- PlEvent   ----------------------------------------+ |
                                   PlEvent <--EXTENDS-- PlEventProofs                  |
            PrMWait <--EXTENDS-- PrMWaitProofs   --------------------------------------+
            JsThinLock <--EXTENDS-- JsScope <--EXTENDS-- JsScopeProofs   --------------+

There are two layers.  `PrLock`, `PrCondVar`, `PrInnerLocks` and `PrSleepQ` model how NSPR
implements locks, conditions and timeouts.  What clients may rely on is
`AbstractCondVar`: locks with a holder, waits that begin and give the lock up in one
step, notifies, timeouts and interrupts.  `PrCondVar` implements it, which the run
`cond_safety` shows and `SpecImplementsCondVar` proves, and the modules of code that *uses*
conditions are written over it, so that they need not carry queues, marks and processors along.

| Module | Models |
|---|---|
| `AbstractLock` | what a blocking lock promises: one holder, and the only way out of the set of blocked threads is to be given the lock |
| `PrLock` | `prulock.c`, suspension and resumption, `_PR_Schedule`, preemption, priorities; one action per critical section |
| `PrLockProofs` | the proofs about `PrLock` |
| `PrCondVar` | `prucv.c`, `PR_Interrupt`, the native `_MD_wait`, over `PrLock` |
| `PrCondVarProofs` | the proofs about `PrCondVar` |
| `PrInnerLocks` | the operations of `PrLock` with `_PR_LOCK_LOCK` and `_PR_THREAD_LOCK` taken one at a time |
| `PrInnerLocksProofs` | the proofs about `PrInnerLocks` |
| `PrSleepQ` | the sleep queue and the clock interrupt, with time |
| `PrSleepQProofs` | the proofs about `PrSleepQ` |
| `AbstractCondVar` | what locks, conditions and interrupts promise |
| `CvClient` | the frame of client code: a `pc` per thread, moved with a step of `AbstractCondVar` |
| `PrThread` | creation, reuse, the life of a thread, join, and `PR_Cleanup` |
| `PrSem`, `PrCallOnce` | `prsem.c`; `PR_CallOnce` |
| `PrProgram` | programs of threads that create, join, signal and initialise |
| `PrProgramProofs` | the proofs about `PrProgram`, and so about the three it composes |
| `PrMonitor` | `prmon.c` and the cache of `prcmon.c` |
| `PlEvent` | `plevent.c` over `PrMonitor`: posting, synchronous events, the handler's loop, revocation |
| `PlEventProofs` | the proofs about `PlEvent` and the cache of `PrMonitor` |
| `PrMWait` | `prmwait.c`: wait groups, their poller and their cancellation |
| `PrMWaitProofs` | the proofs about `PrMWait` |
| `JsThinLock` | `jslock.c`: thin and fat locks |
| `JsScope` | the locks of objects: scopes, their counts, mutation, slots |
| `JsScopeProofs` | the proofs about `JsScope` and `JsThinLock` |
| `MCPrCondVar`, `MCPrInnerLocks`, `MCPrSleepQ`, `MCPrProgram`, `MCPlEvent`, `MCPrMWait`, `MCJsScope` | the instances TLC checks |

### How `PrLock` corresponds to the code

`state`, `suspending`, `priority` and `waitLock` are fields of `PRThread`; `owner` and
`waitQ` those of `PRLock`; `suspendAllThread` is the variable of that name.
`gcPhase` and `unvisited` are the program counter of the thread inside
`PR_SuspendAll` and `PR_ResumeAll`: which of the two, and which threads its walk has
still to reach.  The order of the walk is left open, which covers the order of the
active lists.  `PR_Lock` is `TakeFree` or `WaitFor`; `PR_Unlock` is `Release`, which
includes `_PR_AssignLock`; the return of `PR_ResumeAll` includes its `PR_Unlock`.  A
blocked thread that is given a lock owns it when it is made runnable, so the second
half of `PR_Lock`, after the context switch, changes nothing.  Code between calls
is free: a thread that runs may call anything its asserts allow.  Asserted
preconditions (`PR_ASSERT(me != suspendAllThread)`, no relocking) are guards.
`COND_WAIT` is a state of the type that only `PrCondVar` reaches.

### How `PrCondVar` corresponds to the code

`condQ` and `waitCvar` are `PRCondVar.condQ` and `PRThread.wait.cvar`; `timed` stands
for the threads on the sleep queue (or, native ones, in a semaphore wait with a
timeout): time itself is `PrSleepQ`'s subject, here a timer may fire whenever it
runs.  `pc` follows a thread through `_PR_WaitCondVar`: queued and about to unlock,
waiting, awake, relocking.  `PR_Interrupt` is split into `InterruptClaims` and
`InterruptWakes` because `_PR_NotifyLockedThread` drops the thread lock between the
two.  Interrupt-off sections stop the scheduler (`Schedule`), not native threads.
The second interrupt of a thread that one has claimed already would follow a null
`wait.cvar`; the guard of `InterruptClaims` leaves it out.

### How `PrInnerLocks` corresponds to the code

`Needed(t)` is the sequence of inner locks of the operation a thread is in, computed
from the present state; `Take` acquires the next one and `Finish` performs the action
of `PrLock` and lets go of them all.  Because the sequence is computed anew at each
step, a value that is read early and stale when used shows up as a mismatch
between what the thread holds and what it would take: that is `ReadsStayValid`.  It is
also what justifies the atomic sections of `PrLock`.  Inner locks are not
recursive (`ussetlock`), so a thread can wait for itself.

### How `PrSleepQ` corresponds to the code

`sleepQ`, `sleep`, `sleepQmax` are the fields of those names; `ticking`, `elapsed` and
`expiring` are the variables of `_PR_ClockInterrupt`, whose loop lets go of the queue
between choosing a thread (`Choose`) and taking it out (`Expire`, or `ExpireNone` when a
notify came first).  `sinceClock` is `PR_IntervalNow()` less `last_clock`.  `remaining` and
`skew` are history: how far away the end of the timeout is, and how much time had
passed since the last tick when the thread was added.  `ExpiresOnTime` bounds the
error of a timer: the code deducts the time since the last tick from every
timer, also from one that began in between, so a wait may end early by that time
(`PR_Sleep` waits again for the rest; other callers of `PR_WaitCondVar` see it).

### How `PrCondVar` implements `AbstractCondVar`

A thread is seen to give its lock up as soon as `_PR_WaitCondVar` has queued it, before
it unlocks (`HolderSeen`).  It is *waiting* while `wait.cvar` is set, *woken* from the moment
somebody clears it, and *back* when it owns the lock again (`PhaseSeen`).  A
notify that reached a thread twice, or a thread nothing waits for, a timeout of
a later wait, a stopped thread that returns: each would be a step of `PrCondVar` that
`AbstractCondVar` does not have.

### How the clients correspond to the code

`At(t, label)` places thread `t` between two calls of the code that may block or two
accesses that another thread may see between; `Lock`, `Unlock`, `Wait` and `WaitEnds` are the
calls of NSPR.  What a function does under one lock, without a call that blocks, is
one action.

**`PrThread`.** A member of `Pool` is a `PRThread` object: `state`, `joinable` (`term` is there),
`active`, `userActive`, `deadQ` and `recycling` are the fields and variables of the code.
Creation is `CreateRecycled` or `CreateFresh`, the count under `_pr_activeLock`, and the
start, which may fail for a new object; the life is `Begin` to `RecycleThread`
(`_PR_UserRunThread`, `_PR_NotifyJoinWaiters`, `_PR_DecrActiveThreadCount`, the dead state). A
thread that is joined is parked in `_PR_JOIN_WAIT` until its joiner, without a lock, makes
it runnable.  `CountDown` serves the exit and the failed creation, as the function does.
A thread is joined once, by the one that created it: a second join is the client's
mistake, which the code reports or runs into (see 6).

**`PrSem`, `PrCallOnce`.** The variables are the fields.  `posted` and `swallowed` are history:
which waiters were woken for a unit, and how many of those gave up because of an
interrupt while the unit stays in the count.  The latter is what the code does: a
waiter that is both notified and interrupted leaves with a failure, and the unit waits
for the next thread that calls.  `CallFunc` is the client's function; it sets the
status.  `CallOnce` and `CallOnceAgain` are the two outcomes of the first test.

**`PrProgram`.** The threads of `PrThread` make the calls of `PrSem` and `PrCallOnce`.  A `program`
says which calls each may make; within it the threads are free.

**`PrMonitor`, `PlEvent`.** The cache is read and written under `_pr_mcacheLock` by code that
does not wait, so what happens under that lock is one step; the entry of an address is
`cached`, `cacheEntryCount`.  In `PlEvent` an address is that of an event.  The poster of a
synchronous event enters the event's monitor, posts, gives the queue's monitor up
as often as it had entered it (`outer`), waits *once* and takes the result; the handler
and `PL_RevokeEvents` enter the event's monitor to answer it.  `fate` is history: it tells
an event that exists from one that has been destroyed.  The pipe is `notifyCount`, the
number of its bytes; both move together in the code.  The handler thread is any of
`Handlers`; it may post, too, and then handles its own synchronous event at once.  The
handler may be interrupted in its loop; a synchronous poster may not (see 6).

**`PrMWait`.** `state`, `waiting` and `poller` are `state`, `waiting_threads` and `poller` of a
group, `table` the descriptors in its hash, `ready` the list of finished I/O with the
outcomes.  `listed` and `flagged` are the polling list: during `PR_Poll`, and afterwards the
entries whose `out_flags` the poller has still to look up.  `desc` is the argument or the
result of a thread's call, and `free` holds the descriptors that are the program's to add.
`arrived` is outside the code: the files that have data.  A descriptor stands for its file,
too, so data arrives at what is in the table; what arrives otherwise shows when the
descriptor is added again.  Taking the lock and testing `state` are one step, as nothing comes in
between; each call of `_MW_DoneInternal` is a step, because it notifies, and so is every
unlock.  `PollInternal` to `PollEnds` is `_MW_PollInternal`, with the two ways out of its
loop and the failed `PR_Poll`.  A descriptor with a timeout may expire at any scan.
`reclaimed` and `abandoned` are history: `PR_CancelWaitGroup` has found nothing left, and a waiter
that a completion had woken was interrupted and left the completion to nobody.

**`JsThinLock`.** `owner` and `waitBit` are the word, `fat` is `p->fat`, `susp` that of a fat
lock, `freeFats` the table's list, `fl` the local variable of that name, `meWait` the wait
bit of `me` in `js_Enqueue`.  A compare-and-swap is one step that looks at the word again.
The global lock and a fat lock's `slock` are NSPR locks; `p->fat` is read where the code
reads it, without a lock in `js_SuspendThread`.

**`JsScope`.** `map` is the scope of an object, `count` that of a scope, and a scope names
its lock.  `js_LockObj` reads the scope, locks it, looks again and retries; `js_UnlockObj`
reads it once more; slots are read under the word alone, with the fallback to
`js_LockObj`; `js_GetMutableScope` makes a scope, locks it and transfers the count.  `depth`
is history: how often a thread has locked its object.

## 3. Runs

All runs finish in less than five minutes with two workers.

| Run | Instance | Shows |
|---|---|---|
| `lock_safety` | 2 collectable threads, 1 native, 2 locks, priorities 1 and 2 that change, the inner locks taken one at a time | queues, owners and marks stay consistent, what was read stays valid, no deadlock outside `PR_ResumeAll`; even at this grain `AbstractLock` is implemented |
| `cond_safety` | 2 local threads, 1 native, 2 locks, 1 condition; local and native interrupts, timeouts of one local and the native thread; priorities | no wake-up lost or doubled, none runs a stopped thread; `PrCondVar` implements `AbstractCondVar` |
| `cond_liveness` | 2 local threads that collect, 1 native, 2 locks, 1 condition, fairness; one local thread waits with timeouts and interrupts the other | a waiter for a lock is served although the native thread gives locks up during collections, a stopped thread is released, a woken or timed wait returns |
| `cond_interrupt_marked` | native interrupts, no timeouts | *violation*: a mark outlives its collection |
| `cond_late_wake` | native interrupts, local timeouts | *violation*: a wait returns without its lock |
| `inner_resume` | as `lock_safety`, fixed priorities, fairness | *violation*: `PR_ResumeAll` deadlocks |
| `sleep_queue` | 3 sleepers, timeouts 0, 1, 3, at most 2 units between ticks | the difference list keeps everybody's time; nobody sleeps for ever |
| `program` | the primordial thread, 2 others, one kept for reuse; four programs: create and join; a semaphore with an interrupted taker; one object of `PR_CallOnce` for all, with interrupts; two objects | `PR_Cleanup` is last and returns; joins find their thread and return; units have takers; functions run once; callers return |
| `events` | 3 threads: the handler is one that only handles, or the synchronous poster; 2 events of one owner; interrupts of the handler | events are destroyed once and after use, cache entries counted, queued events have a byte in the pipe, results are answers, nothing is stranded, nobody waits in a circle |
| `wait_group` | 3 threads that wait; one of them adds and cancels 2 descriptors, one with a timeout, and another, who may be interrupted, cancels the group | a descriptor has one owner at a time, there is one poller, a stopped group is quiet, completions have takers, what is ready is noticed |
| `thin_lock` | 2 threads that lock, lock again and mutate 2 objects; 3 threads that share one | an object has one owner, the fat lock is there, no released lock is left to suspended threads |
| `thin_stale` | 3 threads, one of which mutates the object | *violation*: a stale suspension leaves its count in a fat lock that serves another thin lock |

**Bounds.** Two locks are the least that let a native thread give a lock up while
the suspender holds `_pr_activeLock`.  Two collectable threads besides or including
the suspender give a walk with a thread before and one behind it, and the native thread
the interleavings; for more threads, and queues longer than two, the invariants are
proved (section 4).  The condition runs use two or three
threads because what can go wrong happens to one waiter, with one thread that wakes
it and one that collects.  In `cond_late_wake` the condition
uses `_pr_activeLock`, as `_pr_primordialExitCVar` does; in the others it has a lock of its own, which a
native thread can give up while the collector holds `_pr_activeLock`.  In `cond_liveness` nobody takes a lock while
it owns one (`Nesting` is empty): clients that nest their locks in different orders would block each
other for ever; the other runs leave them free.  `cond_safety` starts with
the collector, `t1`, at a lower priority, which somebody may raise, and interrupts everybody by
`t1` and one thread by the native one: these are the directions that differ.
`MaxLate` bounds the time between two ticks of the clock; timeouts lie at 0, below and
above it; `Overdue` bounds the history variable only, below anything reached while a
property holds.  `MaxCount` keeps posts from raising a semaphore beyond 2, one more
than a thread takes; `MaxNotifies` keeps a poster from beginning with two bytes in the pipe, which
is enough for bytes and events to get out of step; `MaxEntries` is how often a poster has entered the queue's
monitor before it posts, 0 to 2.  The cache of monitors has an entry for each address:
its expansion is not modelled.  In `wait_group` three waiting
threads are a poller and two that compete for what it completes, or a poller, a waiter and one
who changes the group; a second descriptor is what can be added or cancelled in the middle of
a poll for the first.  In the thin lock runs each thread makes one or two calls
(`left`) and locks an object at most twice (`MaxDepth`); two calls of one thread are what brings
a fat lock back into use while another thread is still on its way to the first one's
waiters.  There are four fat locks for three thin locks, so that the free list never
comes to its end, where the code would dereference null.

A lock that nobody gets because its waiters are marked is handed on by a resume; `cond_liveness` reaches that step
(a native thread gives the lock up while the world is stopped).  In `lock_safety`, at the grain of inner locks,
`_PR_Resume` blocks there, as `inner_resume` shows, and `NoIdleWaiters` is checked of the unlock and proved of the
resume (`SpecNoIdleWaiters`).

**No symmetry** is used: threads differ by kind, priority or part.

**Deadlock** checking is off where the system may stop: every thread may be blocked
on a lock that a blocked thread holds (the clients' mistake) or wait for a condition;
a program may end, or wait for a unit that nobody posts; threads may have made all
their calls.  It is on in `sleep_queue` and in `events`, where the handler's loop never ends.

**Fairness.**  Under `CvFairness`: the run queue is first-in first-out within a priority and
each clock tick (`ClockInterruptHandler` sets the reschedule flag) sends the running
thread to its back.  At equal priorities, which the liveness run uses, a runnable thread
runs again and again (strong fairness of `Dispatch`, weak of `Preempt`).  A thread that
holds a lock gives it up some time, which the clients owe, and a thread goes on with its collection, its
wait or its interrupt: strong, because preemption disables these steps in between.  The two
are conditions of their own (`UnlockCv`, `Advance`), or a thread that interrupts others for ever might hold a lock
for ever.  A timer fires.  `InnerFairness`: inner locks
are spin locks or semaphores without an order (strong).  `SqFairSpec`: the clock ticks.
`PrFairness`, `EvFairness`, `MwFairness`: each thread goes on with the call it has begun, strongly,
because threads compete for the lock they need next, and what `PrLock` guarantees its waiters
is that one gets the lock whenever it is free; a start function returns; the handler calls
its loop again and again, and whoever has entered the queue's monitor leaves it: that
the clients owe.  `ScopeFairSpec`: each thread goes on with the call it has begun, weakly:
nothing disables a step of a thread for good but the locks, and somebody's progress is all
the property asks.  Nothing obliges a thread to begin an operation.

**Type invariants.** `CvInv`, `SqInv`, `EvInv` and `MwInv` are type correctness together with the
link between two records that the module's code keeps twice: timers and waits, the
difference list and the time, cache entries and their counts, events and their bytes in the pipe, the
poller and the count of waiting threads.  Those of `PrLock`, `TypeOK`, and of `PrProgram`, `PrTypeOK`, are proved and need no run.

The properties about waits that interrupts cut short assume that interrupts stop some
time (`NoInterrupts`), and those of the lower layer that collections do: each one may find
the waiter and stop it again.

**Slips.** Each module has a section of "slips": operators that repeat a definition
with a mistake in it (a test left out, an update forgotten).  Nothing uses them;
`PROJECT.json` pairs each property with the slip that breaks it.

## 4. Proofs

Eight modules hold proofs.  Each theorem is about all sizes: any threads, locks, events,
descriptors and so on, subject to the assumptions that the modules name.  Those are of a few kinds:
null values are none of the values; kinds of threads are disjoint; there are finitely many of what
the code counts; conditions go with their locks; bounds are natural numbers, and the first
value of a counter is within its bound (`SemValue`, `MaxDepth`); the free list of the monitor cache has no
entry twice and one for each address, because its expansion is not modelled; that of the fat locks has none
twice (`FreeFatsAssumption`), as `js_SetupLocks` builds it.  Three groups
of theorems need a hypothesis beyond these: `NoLateTimeouts` (some of them also
`NoMarkedInterrupts`), `PostersAreNotInterrupted` and `SuspensionsInTime`.  Each stands in the
theorems that need it, is explained below, and rules out what a disagreement of section 5
needs to happen.  `SuspensionsInTime` is about states, so it is assumed of all of them
(`[]SuspensionsInTime`); the others are about constants.

### Locks

`PrLockProofs` proves, for any sets of threads, locks and priorities, from the
assumptions named in `PrLock` (local and native threads are disjoint, collectable
threads are local, the null thread and the null lock are none of them, priorities
are natural numbers):

| Theorem | Statement |
|---|---|
| `SpecIInv` | `Spec => []IInv` |
| `SpecTypeOK`, `SpecWaitersAreQueued`, `SpecCollectorStops` | conjuncts of `IInv` |
| `SpecNoIdleWaiters`, `SpecWorldIsStopped` | consequences of `IInv` |
| `SpecWokenThreadOwnsLock`, `SpecOnlyOwnerGivesUp`, `SpecStoppedThreadsGetNoLock` | action properties |
| `SpecImplementsAbstractLock` | refinement, with a queue seen as the set of its threads |

The invariant `IInv` is `TypeOK`, `WaitersAreQueued`, `FreeLockAwaitsResume`,
`OwnersDoNotWait`, `CollectorStops` and `MarkedThreadsAreBlocked`.  None is inductive by
itself.  `NoIdleWaiters` says nothing during a collection; what carries over is
`FreeLockAwaitsResume`: a free lock with waiters has a first waiter that is marked, so
that the resume of that waiter hands the lock on.  When the collection ends nobody
is marked (`CollectorStops`: the marked and suspended threads are exactly those of
the walks' history), so there is no such lock.  `CollectorStops` in turn needs the
marks to be on blocked or suspended threads only (`MarkedThreadsAreBlocked`), or the assignment of a
lock would let a marked thread run, and `OwnersDoNotWait`, which keeps
`_pr_activeLock` with the suspender.  `WaitersAreQueued` ties the three records of who
waits for what.  The preservation proof has a lemma for each action, on top of
lemmas about queues without repetitions (a thread that joins at either end, the
first one leaving) and about `AssignLock` and `Release`.

### Inner locks

`PrInnerLocksProofs` proves, for any threads and locks:

| Theorem | Statement |
|---|---|
| `InnerSpecInnerIInv` | `InnerSpec => []InnerIInv`, the invariant below |
| `SpecReadsStayValid` | what an operation reads to find its next inner lock is still so when it uses it |
| `InnerLocksImplementPrLock` | `InnerSpec => Spec`: every behaviour at this grain is one of `PrLock` |
| `InnerSpecImplementsAbstractLock` | so it implements `AbstractLock` |
| `SpecNoInnerDeadlock` | except during `PR_ResumeAll`, no set of threads waits in a circle |

`PrLock` takes a whole critical section for a step.  `InnerLocksImplementPrLock` is what justifies that: the
step `Finish` has the guard of the action of `PrLock` because the reasons for which the operation
began (the thread runs, owns the lock, is the suspender in its walk) hold until it ends
(`ReasonsStayValid`), and uses what it read because nobody changes that without an inner lock the thread
holds (`ReadsStayValid`).  `InnerIInv` is these two with the types and `IInv` of `PrLock`, since who can
disturb whom depends on what queues and owners are.  The absence of deadlocks is an argument about an order: outside
a resume, a thread that waits for its second inner lock holds a `PRLock`'s and waits for a thread's,
and one that waits for its first holds none, so nobody in a circle could be waited for.

### Condition variables

`PrCondVarProofs` proves, for any threads, locks, conditions and interrupts that are not late:

| Theorem | Statement |
|---|---|
| `SpecCvIInv` | `NoLateTimeouts /\ CvSpec => []CvIInv` |
| `SpecCvInv`, `SpecWaitersCanBeWoken`, `SpecCvWorldIsStopped` | its consequences |
| `SpecWaitReturnsWithLock` | a wait returns with its lock |
| `SpecImplementsCondVar` | `PrCondVar` implements `AbstractCondVar` |
| `CvSpecIInv` | `NoLateTimeouts /\ NoMarkedInterrupts /\ CvSpec => []IInv`: the invariant of the locks holds with conditions, too |
| `SpecCvCollectorStops` | so collections stop and release whom they should; afterwards nobody stays suspended and no lock lies idle |
| `LocalThreadsOnlyIsSafe` | all of it for `Native = {}`, with neither hypothesis |

`NoLateTimeouts` says that no native thread interrupts a local thread that may wait with a timeout.
It is not a convenience: without it the code does what `cond_late_wake` shows, a wait returns without its lock.
It excludes nothing else; local threads may interrupt everybody, and native threads those that wait without a
timeout.  `NoMarkedInterrupts`, needed for the collector only, says that no native thread interrupts a collectable
one; `cond_interrupt_marked` is what happens otherwise.  In the builds with `_PR_LOCAL_THREADS_ONLY`
both hold by themselves.

The invariant follows a thread through its wait.  `WaitInv` says from the place of a thread in
`_PR_WaitCondVar` what it holds, runs or waits for; `WakeInv` and `ClaimInv`, that a waiter has its
`wait.cvar` or is the victim of exactly one interrupt that has claimed it and will wake it;
`TimerInv`, that timers belong to waits; `RunInv`, that one local thread runs and that it is the suspender if there
is one; `HaltInv`, that what the walk of `PR_SuspendAll` has passed stays blocked or suspended unless a native
thread interrupts it.  `CvIInv` does without `IInv` of `PrLock`, which an interrupted waiter breaks that runs
although it is marked; it keeps only the queues (`WaitersAreQueued`) and counts stopped
threads with that exception (`Halted`).  With `NoMarkedInterrupts` there is no exception, and `IInv` is
inductive beside `CvIInv`: the steps that `PrCondVar` takes from `PrLock` keep it by the lemmas of
`PrLockProofs`; a notify or a timeout makes a marked thread a suspended one, with its mark; the second half of
`PR_Interrupt` finds nobody marked, because a local caller does not run while threads are; and
the case in which `_PR_Resume` does nothing, of a thread on the run queue, does not arise.  The refinement maps each step to the one of `AbstractCondVar` that the
client sees, most of them to none.

### The sleep queue

`PrSleepQProofs` proves, for any threads, timeouts and time between two clock interrupts:

| Theorem | Statement |
|---|---|
| `SpecSqIInv` | `SqSpec => []SqIInv`, the invariant below |
| `SpecSqInv` | the sums of differences keep the time of every thread, and `sleepQmax` that of the last |
| `SpecExpiresOnTime` | nobody is expired early by a clock interrupt or more, or left behind |

The property is about sums over a list, so it cannot be inductive as it is.  `DueInv` says the same without a
sum: a thread's `sleep` is what it has left (`Due`, from the history) less what the one in front has
left, and `Due` never decreases along the queue.  A thread that comes or goes then changes two differences.  That the
sums follow is one lemma (`DelayIsDue`), by the smallest place at which they would not.  Because
`sleepQmax` is the last thread's, `_PR_AddSleepQ` finds a thread to insert in front of ("there must be
one", `InsertBeforeEffect`).  `ClockInv` is the window in which `_PR_ClockInterrupt` lets go of the queue: the
chosen thread, as long as it is there, is still the first.

### Scope locks and thin locks

`JsScopeProofs` proves, for any threads, objects, scopes, fat locks and programs:

| Theorem | Statement |
|---|---|
| `SpecOwnInv` | `ScopeSpec => []OwnInv`: words and counts are what the threads' places say |
| `SpecObjectsAreLocked` | an object has one owner, who owns the scope the object has now, as often as it locked it |
| `SpecFatInv` | `ScopeSpec => []FatInv`: the global lock, the wait bits and the fat locks agree |
| `SpecDequeuersHaveFatLock` | `js_Dequeue` finds the fat lock it asserts |
| `SpecScopeTypeOK` | `ScopeTypeOK`: counts are in their range, too |
| `SpecFreeLockIsWanted` | `ScopeSpec /\ []SuspensionsInTime => []FreeLockIsWanted`: no released lock is left to suspended threads |
| `SpecSharedScope` | `SuspensionsInTime` and `FreeLockIsWanted` hold as long as no object has a scope of its own |
| `SpecTwoCallers` | they hold, whatever scopes the objects get, if at most two threads make calls |

from the assumptions named in `AbstractCondVar`, `JsThinLock` and `JsScope`: the null values
are none of the values, a fat lock's condition goes with its lock, the global lock is
no fat lock, and the scope made for an object is neither the shared one nor another object's.
`ObjectsAreLocked` speaks of threads inside an object only; `OwnInv` says for every thread, at
every place, which words it has (`HasWord`: the lock it is busy with, the scope of the
object it has locked, the shared scope while it transfers the lock) and what their scopes
count (`Counts`).  Two threads cannot have the same word, since the word names one owner; so a
step of one leaves what holds of the others alone, and one lemma (`OthersKeepInv`) says so for all
steps but `js_GetMutableScope`, which changes the scope of an object: nobody else has locked that
object, and nobody has the word of a scope that is not in use (`NewScopeIsFree`).  `FatInv` rests on
the global lock: whoever finds the wait bit set after `js_UnlockGlobal` of the enqueuer has
the global lock, so that no other thread is between emptying the fat lock and setting the
bit again (`BitInv`).  `ScopeTypeOK` is more than types where it bounds counts: a thread that has made a scope
for an object enters that scope for the first time (`NewInv`).

`SuspensionsInTime` says that a thread about to count itself in a fat lock has the one its thin lock uses, or one
that nobody uses if its thin lock has none any more.  `js_SuspendThread` reads `p->fat` without a lock, so the code
does not see to it: in `thin_stale` (section 5) the fat lock has gone to another thin lock, and
`FreeLockIsWanted` is violated.  `SpecFreeLockIsWanted` shows that this is the only way.  Its invariant, `SleepInv`, was
first checked by TLC.  It says what `susp` means: of a fat lock in use it is the number of threads
suspended in it, or, below 0, of those resumed before they got there (`CountInv`); so a resume always reaches
somebody.  And it says who sees to it that there is a resume (`WantedInv`): as long as a thread is
suspended or on its way to be, the wait bit is set, or some thread will set it, resume somebody or has
been resumed (`Helps`).  The wait bit may be clear for a while: `js_Dequeue` clears it with the
word, and it comes back with the thread that was woken, if others are still suspended (`emptyFatlock`).
`SpecSharedScope` shows that the hypothesis is not out of the way.  Objects have the shared scope until a property is
added or changed; with one thin lock in use, `fat` is always the first of the free list, which is a
stack, so the fat lock read too early is the one in use or the next one.
`SpecTwoCallers` shows how many threads it takes: `js_Enqueue` gives out a fat lock only when it finds the word
taken by another thread.  A thread on the way into `js_SuspendThread` has no word
(`OwnInv`), so if there are just two callers none is there at that time (`NoAllocationBetween`), and what it read stays
the lock in use or one that nobody uses (`TimelyInv`).  `thin_stale` has the third thread and
the scope of its own that the two theorems show to be necessary.

### Wait groups

`PrMWaitProofs` proves, for any threads, any descriptors and any of them with a timeout:

| Theorem | Statement |
|---|---|
| `SpecMwInv` | `MwSpec => []MwInv`: one poller, counted threads, types |
| `SpecStoppedGroupIsQuiet` | a stopped group has nobody, a reclaimed one nothing |
| `SpecDescsHaveOneOwner` | a descriptor is in exactly one place |
| `SpecCompletionsHaveTakers` | each completion has a thread on its way, unless one was interrupted |

from the assumptions named in `AbstractCondVar` and `PrMWait`: the null values are none of the
values, the three conditions of a group are different and go with its lock, and there are finitely
many threads.  The inductive invariant `MWaitInv` is built in layers.  `ClientInv` says from the places of
the threads alone who has the group's lock and what a thread waits for, so that two threads are
never inside at once (`OneInside`, `InsideAlone`); it is kept by the steps of `CvClient`, whatever they
do to the group.  `HandsInv` gives the types and the descriptors in the hands of calls.  `PollInv` counts:
its induction is on the set of threads inside `PR_WaitRecvReady`, which one step of one thread
changes by that thread.  `QuietInv` says that a stopped group is counted down and that what is left in its
table is being marked by a thread inside the lock; `StoppedGroupIsQuiet` by itself is not inductive,
because it does not know that the thread that reclaims found nobody adding.  `OwnersInv` states
the single owner as disjoint sets instead of a sum of cardinalities; a descriptor to be cancelled is still
in the table because its canceller has not left the lock since it looked it up
(`QuietInv` again).  `CompletionsHaveTakers` is inductive beside `ClientInv`: a completion adds one to the list and, if
somebody waits, one thread to `Takers`; a taker takes one and leaves; and nobody begins to wait
unless the list is empty.

### Threads, semaphores, one-time calls

`PrProgramProofs` proves, for any threads, objects of `PR_CallOnce` and programs:

| Theorem | Statement |
|---|---|
| `SpecProgramInv` | `PrSpec => []ProgramInv`, the invariant below |
| `SpecFuncRunsOnce` | the function of an object runs in one thread only, and its status is there for all |
| `SpecJoinedThreadsExist` | a thread that is joined has not ended and is not reused |
| `SpecCleanupIsLast` | when `PR_Cleanup` has returned nobody else runs or can begin |
| `SpecUnitsHaveTakers` | each unit of a semaphore has a thread on its way, unless that was interrupted |
| `SpecPrTypeOK` | `PrTypeOK`: the counts of threads and waiters stay below the number of threads |

from the assumptions named in `AbstractCondVar`, `PrThread`, `PrSem`, `PrCallOnce` and `PrProgram`:
the null values are none of the values, conditions go with their locks, there are finitely
many threads, and the condition of the semaphore is nobody else's.  `ProgramInv` has a part for
each module.  `OnceInv`: two threads in `onceFunc` have different objects, because the swap of
`inProgress` lets one of them pass, and a function that has run leaves `inProgress` set for good.  `LifeInv`:
`JoinedThreadsExist` by itself does not know why a joined thread cannot end, nor why a dead one has no joiner;
so the invariant says that a thread with a joiner is joinable and before its end (`JoinableInv`),
that `JOIN_WAIT` is said only from just before the thread parks (`ParkInv`), and that a
thread being created lives for nobody else and is not in `_PR_DEADQ` (`CreateInv`, `DeadInv`), as
reuse would give a joined thread another life.  `CountInv`: `_pr_userActive` is the number of threads begun
and not yet counted down; each step changes that set by one thread at most, so when the primordial thread
finds 1 the set is empty, and only members of the set create others.  `UnitsHaveTakers` is
inductive once `waiters` is known to count the threads in `PR_WaitSem` and a posted
thread to be out of the wait.  Each part is shown for the steps of the other modules by
one lemma about moves (`Moves`: one thread changes its place, and nobody loses a lock).

### Cached monitors and event queues

`PlEventProofs` proves, for any threads, events, monitors and owners:

| Theorem | Statement |
|---|---|
| `SpecEvIInv` | `EvSpec => []EvIInv`, the invariant of the monitors |
| `SpecEvInv` | a cache entry counts exactly the threads that use its address, whoever is interrupted, and every event in the queue has a byte in the pipe |
| `SpecWayInv` | `PostersAreNotInterrupted /\ EvSpec => [](EvIInv /\ WayInv)` |
| `SpecEventsInUseExist` | under the same hypothesis, an event is destroyed once, after its last use |
| `SpecSyncResultIsAnswer` | and a synchronous post returns the answer |
| `SpecNobodyWaitsInCircle` | and posters, handler and revokers never wait for each other in a circle, for a monitor or an answer |
| `SpecHandlerIsFree` | whoever is interrupted, an event is handled with no monitor entered |

`EvIInv` needs no hypothesis about interrupts.  `CacheInv` says that a monitor is in the free list or the one of one
address, `UsersInv` that an entry counts its users and each user has its monitor; `HeldInv` and `OuterInv` say
from the place of a thread which monitors it has entered and how often, through the waits that give
them up.  An entry so cannot be recycled under a thread that waits in it, which is the subtle point of
`prcmon.c`.  `EventsHaveBytes` is inductive beside it: the handler reads before it looks at the queue and in the same
monitor, so that a byte goes with an event or when there is none, and a revocation takes an event and leaves its byte.

`PostersAreNotInterrupted` (no thread that posts synchronous events is among `Interruptible`) is again what the code
needs: `PL_PostSynchronousEvent` waits once and takes any return for the answer (section 5).  Then `WayInv`
follows an event: it is in one place, with its poster, in the queue, or with whoever handles or
revokes it (`PlaceInv`); a poster whose event is still open has not been woken (`OpenInv`); one that has been told
is told by nobody else (`ToldInv`); and the places of the threads agree with the history of the
event (`FateInv`).  Once its poster has returned nobody else has the event (`AlonePoster`), so it may destroy it.

There is no circle because the two orders of the monitors meet only where they cannot block.  Part of
`EvIInv` (`OwnInv`) says that a thread has entered no other monitor of the cache than that of its event, once, and
the queue's only while it looks for events.  From there, whoever has entered an event's monitor that somebody
else wants waits for nobody (`HolderGoesOn`): only its poster could want the queue's monitor, before
anybody else has the event, or after it has been answered.  The latter is `WayInv`, so the
hypothesis is needed here too: with an interrupted poster TLC finds the circle (section 5).
What is left are posters that wait for the handler's answers; no two have
the same event, and the handler does not wait for its own (`InlineInv`).

### What is only model-checked

Liveness under fairness, which is beyond the prover: `WaiterIsServed`, `StoppedThreadIsReleased`,
`WokenWaiterReturns`, `SleepersWake`, `JoinReturnsInTime`, `CleanupCompletes`, `CallersReturn`,
`EventsAreProcessed`, `SyncPostReturns`, `ReadyIsNoticed`, `SomebodyGetsLock`.  Each safety property of a passing run is
the statement of a theorem, some of them under one of the hypotheses above; the runs then show them on
instances that meet it; in `thin_lock` one program has two callers and the other only the shared scope, so
that `SpecTwoCallers` and `SpecSharedScope` cover both without a hypothesis.

## 5. Findings

- **Interrupt of a marked thread** (`cond_interrupt_marked`).  `_PR_NotifyLockedThread`
  makes a local thread runnable although it is marked; `_PR_Resume` then leaves the mark.
  A later notify or timeout parks the thread for good, and a lock whose first waiter it
  becomes lies idle.
- **Late wake-up** (`cond_late_wake`).  Between the two halves of `PR_Interrupt` a timeout
  can end the victim's wait; the second half then wakes it out of `PR_Lock`.
- **Inverse order of inner locks** (`inner_resume`).  `_PR_Resume` takes `_PR_LOCK_LOCK` inside
  `_PR_THREAD_LOCK`, `PR_Unlock` the other way round, and `_PR_AssignLock` locks the very thread
  `_PR_Resume` has locked.
- **Stale suspension** (`thin_stale`).  `js_SuspendThread` increments `fl->susp` before it finds
  out that `p->fat` has gone, and does not take the increment back.  If the fat lock has been
  taken from the free list for another thin lock meanwhile, the count there is too high: a
  resume that comes before its suspension is forgotten, and the waiter sleeps beside
  a released lock.

`PROJECT.json` quotes the comment each disagrees with.  Some further disagreements are not
runs:

- `PR_Lock` compares a new waiter with the *first* waiter at every step of its scan
  (`prulock.c:275`), so a third waiter of middle or high priority may end behind lower ones,
  against the comment at line 259.
- The loop of `_PR_AssignLock` that should skip marked threads (`prulock.c:108`, comment at line
  93) reads the first waiter every time round.  The lock stays free; the resume hands
  it on (`NoIdleWaiters`), so the cost is a native waiter's delay.
- `PR_NotifyCondVar` is commented to notify the thread of the highest priority and
  notifies the one that waits longest; `prcvar.h` leaves the choice open.
- `PL_PostSynchronousEvent` waits once (`plevent.c:204`): an interrupted poster returns early and
  destroys an event that is still in the queue.  The `events` run interrupts the handler only.  With
  interrupted posters threads can also block each other: `PL_RevokeEvents` holds the queue's monitor and wants the
  event's, and the poster that returned early holds the event's and re-enters the queue's.  The counts of
  the cache stay right even then (`SpecEvInv`).
- The poller of a wait group goes on as long as `waiting_threads` is not 0 (`prmwait.c:319`), to
  return when "there are no more threads waiting for completion"; but "the polling thread is
  counted" (`prmwait.c:435`).  A thread alone in `PR_WaitRecvReady` so keeps a completed descriptor
  from its caller until the group is cancelled or the table is empty.
- A poller that returns wakes nobody to take its place (`prmwait.c:327`): the threads that wait on
  `io_complete` sleep on beside descriptors that nobody polls for, and `PR_AddWaitFileDesc`
  notifies `new_business` only.  `ReadyIsNoticed` therefore speaks of groups with a poller.
- `PR_CancelWaitGroup` waits for the waiting threads before it wakes those that wait for new
  business or completions (`prmwait.c:586`), and does not wake them, so it may wait for ever; two
  threads that cancel one group wait for one notify of `mw_manage` (`prmwait.c:346`).
- A waiter that a completion wakes and an interrupt takes away leaves the completion in the list
  without waking another one (`prmwait.c:474`): the exception in `CompletionsHaveTakers`.
- The polling list is sized by `waiter->count` before the lock is taken (`prmwait.c:244`), and filled
  without a look at its size after descriptors were added meanwhile.
- `PR_JoinThread` looks for a second joiner before it takes the lock (`pruthr.c:1489`), so that two
  may pass; its comment says that "others will terminate with an error".

The models go on past these states as the code of a build without assertions does.

## 6. Not modelled

Of the modelled files: several virtual processors and the idle thread (`PR_SuspendAll`
asserts that there is one processor), priority inheritance (compiled out), waits for
I/O (`_PR_IO_WAIT`), destruction of locks and conditions, `_PR_CVAR_LOCK` and the
processor's queue locks at the inner grain.  `PrLock` has a fixed set of threads;
creation and exit are in `PrThread`, which sees no collections.  System threads,
`PR_AttachThread` and `PR_DetachThread`, and stacks.  `PR_TestAndEnterMonitor`, `PR_NotifyAll` and
timed waits of monitors, the expansion of the cache.  `PL_DestroyEventQueue`,
`PL_ProcessPendingEvents`, `PR_DestroyWaitGroup`, the hash of a wait group and the length of its
polling list, descriptors that share a file, the notification of native windows, a full pipe, interrupts of a
synchronous poster.  Interrupts of suspended JavaScript threads (the fat lock stays locked), the
end of the free list, the freeing of scopes and `js_CompareAndSwap` itself, which is assembly.
A second interrupt by native threads of a thread already claimed would follow a null
pointer.

Of the rest of the tree, see `PROJECT.json`: a component is either planned below or has no
protocol that a state model would add to.

## 7. Plan

In this order:

1. Proofs: the order of waiters by priority in `PrLock`, as far as the code keeps it.
2. `PrThread` with system and attached threads, and with the active list that
   `PR_SuspendAll` walks while threads come and go.
3. `JsGC`: requests, the collector's wait for requests to end.
4. `NetQueue`: URLs, active entries and re-entrant exit routines; `MemCache`: size limit
   and delayed deletion; `MochaLock`.
