---------------------------- MODULE AbstractLock ----------------------------
(***************************************************************************)
(* What a blocking mutual-exclusion lock promises its clients, independent *)
(* of how waiters are queued, suspended or woken.  Every lock has at most   *)
(* one holder; a thread that cannot have the lock is registered as blocked *)
(* on it, and the only way out of that set is to be given the lock.        *)
(*                                                                         *)
(* Implemented by PrLock (NSPR, prulock.c).                                *)
(***************************************************************************)
CONSTANTS Threads,   \* the threads of the program
          Locks,     \* the locks
          NoThread   \* "nobody holds the lock"

VARIABLES holder,    \* [Locks -> Threads \cup {NoThread}]
          blocked    \* [Locks -> SUBSET Threads]: threads waiting for the lock

avars == <<holder, blocked>>

AInit == /\ holder = [l \in Locks |-> NoThread]
         /\ blocked = [l \in Locks |-> {}]

NotBlocked(t) == \A l \in Locks : t \notin blocked[l]

\* A thread finds the lock free and takes it.
Take(t, l) == /\ holder[l] = NoThread
              /\ NotBlocked(t)
              /\ holder' = [holder EXCEPT ![l] = t]
              /\ UNCHANGED blocked

\* A thread finds the lock held by somebody else and blocks.
Block(t, l) == /\ holder[l] \notin {NoThread, t}
               /\ NotBlocked(t)
               /\ blocked' = [blocked EXCEPT ![l] = @ \cup {t}]
               /\ UNCHANGED holder

\* The holder gives the lock up and nobody gets it yet.
Release(t, l) == /\ holder[l] = t
                 /\ NotBlocked(t)
                 /\ holder' = [holder EXCEPT ![l] = NoThread]
                 /\ UNCHANGED blocked

\* A blocked thread gets the lock: directly from the holder (from = the
\* holder) or while the lock is free (from = NoThread).
Grant(from, u, l) == /\ holder[l] = from
                     /\ u \in blocked[l]
                     /\ holder' = [holder EXCEPT ![l] = u]
                     /\ blocked' = [blocked EXCEPT ![l] = @ \ {u}]

ANext == \E l \in Locks, t \in Threads :
            \/ Take(t, l)
            \/ Block(t, l)
            \/ Release(t, l)
            \/ \E from \in Threads \cup {NoThread} : Grant(from, t, l)

ASpec == AInit /\ [][ANext]_avars
=============================================================================
