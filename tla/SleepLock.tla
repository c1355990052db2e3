------------------------------ MODULE SleepLock ------------------------------
(***************************************************************************)
(* Sleep locks (sleeplock.c), used by the buffer cache and the inode       *)
(* cache.  Each operation is one critical section of lk->lk, which sleep() *)
(* gives up in the same step as it changes the state of the process.       *)
(***************************************************************************)
CONSTANTS Procs, Locks, None

VARIABLES
  owner,     \* lk->pid of a lock with lk->locked, None for the others
  asleep     \* the lock whose address p sleeps on, or None

initsleeplock ==
  /\ owner = [l \in Locks |-> None]
  /\ asleep = [p \in Procs |-> None]

holdingsleep(p, l) == owner[l] = p

\* acquiresleep, first time round or after a wakeup: the lock is free ...
acquiresleep(p, l) ==
  /\ asleep[p] = None /\ owner[l] = None
  /\ owner' = [owner EXCEPT ![l] = p]
  /\ UNCHANGED asleep

\* ... or p sleeps, and tries again when it is woken.
SleepOn(p, l) ==
  /\ asleep[p] = None /\ owner[l] # None
  /\ asleep' = [asleep EXCEPT ![p] = l]
  /\ UNCHANGED owner

MutRelease(l) ==
  /\ owner' = [owner EXCEPT ![l] = None]
  /\ UNCHANGED asleep

releasesleep(l) ==
  /\ owner' = [owner EXCEPT ![l] = None]
  /\ asleep' = [q \in Procs |-> IF asleep[q] = l THEN None ELSE asleep[q]]

\* Nobody sleeps on a lock that is free: the wakeup of releasesleep is never
\* lost to a process that has tested locked and not yet gone to sleep.
NoneSleepsOnFree == \A p \in Procs : asleep[p] # None => owner[asleep[p]] # None
=============================================================================
