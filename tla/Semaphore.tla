------------------------------ MODULE Semaphore ------------------------------
(***************************************************************************)
(* The operations of the kernel semaphore xem_t (sleeplock.h, proc.c):     *)
(* xem_init, xem_wait and xem_unlock, as steps on the fields of the        *)
(* semaphores and on the sleep state of the calling threads.  Xem and      *)
(* RWLock build complete systems from them.                                *)
(*                                                                         *)
(* Everything between acquire(&lk) and release(&lk), or between            *)
(* acquire(&lk) and the sleep() that gives lk back, is one step: spin-     *)
(* locked code runs with interrupts off.  A xem_t lives in user memory and *)
(* the channel a thread sleeps on is the user address of an element of     *)
(* arr, so Base gives each semaphore the address of its arr[0].            *)
(***************************************************************************)
EXTENDS Integers, FiniteSets

CONSTANTS
  Procs,      \* the threads that use the semaphores
  Sems,       \* the semaphores
  Base,       \* Base[s]: user virtual address of s's arr[0]
  SIZE,       \* the number of elements of arr (types.h)
  InitValue   \* the initial value: 1 by xem_init, larger when the user sets it

\* One element of arr per sleeper: a thread sleeps on at most one, and the
\* kernel has at most NPROC = 64 threads while SIZE = 9991.
ASSUME SemAssumption ==
  /\ IsFiniteSet(Procs)
  /\ Base \in [Sems -> Nat \ {0}]
  /\ SIZE \in Nat \ {0}
  /\ Cardinality(Procs) <= SIZE
  /\ InitValue \in Nat \ {0}

VARIABLES
  value, end, count, dcount,  \* the fields of xem_t, one per semaphore
  pstate,   \* pstate[p]: p's procstate; RUNNING counts as RUNNABLE here
  chan      \* chan[p]: the address p sleeps on, 0 when none

semVars == <<value, end, count, dcount, pstate, chan>>

SemType ==
  /\ value \in [Sems -> Int]
  /\ end \in [Sems -> Int]
  /\ count \in [Sems -> Nat]
  /\ dcount \in [Sems -> Nat]
  /\ pstate \in [Procs -> {"RUNNABLE", "SLEEPING"}]
  /\ chan \in [Procs -> Nat]

\* xem_init; the threads have not slept yet.
XemInit ==
  /\ value = [s \in Sems |-> InitValue]
  /\ end = [s \in Sems |-> 0]
  /\ count = [s \in Sems |-> 0]
  /\ dcount = [s \in Sems |-> 0]
  /\ pstate = [p \in Procs |-> "RUNNABLE"]
  /\ chan = [p \in Procs |-> 0]

MutSlot(s, n) == Base[s]

\* &semaphore->arr[n % SIZE]
Slot(s, n) == Base[s] + (n % SIZE)

\* wakeup1(c): every sleeper on c, of whatever address space, is RUNNABLE.
Wakeup(c) ==
  pstate' = [p \in Procs |-> IF pstate[p] = "SLEEPING" /\ chan[p] = c
                               THEN "RUNNABLE" ELSE pstate[p]]

\* xem_wait when value stays >= 0: no sleep.
XemTake(p, s) ==
  /\ value[s] > 0
  /\ value' = [value EXCEPT ![s] = @ - 1]
  /\ UNCHANGED <<end, count, dcount, pstate, chan>>

\* xem_wait when value becomes negative: sleep on the next element of arr.
XemSleep(p, s) ==
  /\ value[s] <= 0
  /\ value' = [value EXCEPT ![s] = @ - 1]
  /\ count' = [count EXCEPT ![s] = @ + 1]
  /\ pstate' = [pstate EXCEPT ![p] = "SLEEPING"]
  /\ chan' = [chan EXCEPT ![p] = Slot(s, count[s])]
  /\ UNCHANGED <<end, dcount>>

\* xem_wait after sleep() returns, whoever woke the thread: the loop that
\* would test end again is commented out.
XemResume(p, s) ==
  /\ pstate[p] = "RUNNABLE"
  /\ end' = [end EXCEPT ![s] = @ - 1]
  /\ chan' = [chan EXCEPT ![p] = 0]
  /\ UNCHANGED <<value, count, dcount, pstate>>

MutXemUnlockBack(p, s) ==
  /\ value' = [value EXCEPT ![s] = @ + 1]
  /\ IF value[s] + 1 <= 0
       THEN /\ end' = [end EXCEPT ![s] = @ + 1]
            /\ dcount' = [dcount EXCEPT ![s] = @ - 1]
            /\ Wakeup(Slot(s, dcount[s]))
       ELSE UNCHANGED <<end, dcount, pstate>>
  /\ UNCHANGED <<count, chan>>

MutXemUnlockNewest(p, s) ==
  /\ value' = [value EXCEPT ![s] = @ + 1]
  /\ IF value[s] + 1 <= 0
       THEN /\ end' = [end EXCEPT ![s] = @ + 1]
            /\ count' = [count EXCEPT ![s] = @ - 1]
            /\ Wakeup(Slot(s, count[s] - 1))
       ELSE UNCHANGED <<end, count, pstate>>
  /\ UNCHANGED <<dcount, chan>>

\* xem_unlock: give the permit back; when threads are waiting, wake the one
\* on the element dcount.
XemUnlock(p, s) ==
  /\ value' = [value EXCEPT ![s] = @ + 1]
  /\ IF value[s] + 1 <= 0
       THEN /\ end' = [end EXCEPT ![s] = @ + 1]
            /\ dcount' = [dcount EXCEPT ![s] = @ + 1]
            /\ Wakeup(Slot(s, dcount[s]))
       ELSE UNCHANGED <<end, dcount, pstate>>
  /\ UNCHANGED <<count, chan>>

\* kill(p) as far as the semaphores see it: a sleeper is made RUNNABLE.
KillWakes(p) ==
  /\ pstate' = [pstate EXCEPT ![p] = "RUNNABLE"]
  /\ UNCHANGED <<value, end, count, dcount, chan>>
==============================================================================
