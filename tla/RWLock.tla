------------------------------- MODULE RWLock -------------------------------
(***************************************************************************)
(* The readers-writer lock rwlock_t (proc.c): the two semaphores lk and    *)
(* writelock, the counter readers, and the four operations, each run by a  *)
(* thread inside one system call.  The threads are LWPs of one group.      *)
(*                                                                         *)
(* pc[p] names the next call or statement of p:                            *)
(*   aLk, aInc, aWl, aUnlk, aRet   rwlock_acquire_readlock and its return  *)
(*   dLk, dDec, dWl, dUnlk         rwlock_release_readlock                 *)
(*   wWl, wRet, wPost              the writer's two operations             *)
(*   user, reading, writing        user code; dead: exit() has run         *)
(* A thread inside the sleep() of an xem_wait has chan[p] # 0.             *)
(***************************************************************************)
EXTENDS Semaphore

CONSTANTS
  MaxCount,   \* bound: no contention once a semaphore's count reached it
  MaxKills    \* bound: kill() is not called once so many are killed

\* rwlock_init sets both values to 1; lk and writelock are fields of one
\* struct, so their arrays do not overlap.
ASSUME RWAssumption ==
  /\ Sems = {"lk", "writelock"}
  /\ InitValue = 1
  /\ Base["lk"] + SIZE <= Base["writelock"] \/ Base["writelock"] + SIZE <= Base["lk"]
  /\ MaxCount \in Nat
  /\ MaxKills \in Nat

VARIABLES readers, pc, killed

vars == <<semVars, readers, pc, killed>>

\* rwlock_init
Init ==
  /\ XemInit
  /\ readers = 0
  /\ pc = [p \in Procs |-> "user"]
  /\ killed = [p \in Procs |-> FALSE]

Goto(p, from, to) ==
  /\ pc[p] = from
  /\ pc' = [pc EXCEPT ![p] = to]

\* xem_wait(s) called at pc from, to continue at to.
Wait(p, s, from, to) ==
  /\ \/ chan[p] = 0 /\ XemTake(p, s) /\ Goto(p, from, to)
     \/ chan[p] = 0 /\ XemSleep(p, s) /\ Goto(p, from, from)
     \/ chan[p] # 0 /\ XemResume(p, s) /\ Goto(p, from, to)
  /\ UNCHANGED <<readers, killed>>

Post(p, s, from, to) ==
  /\ XemUnlock(p, s)
  /\ Goto(p, from, to)
  /\ UNCHANGED <<readers, killed>>

\* Bounds count: past MaxCount the threads enter one at a time.
WithinBound ==
  \/ \A s \in Sems : count[s] < MaxCount
  \/ \A q \in Procs : pc[q] \in {"user", "dead"}

\* trap(): the killed test before syscall().
Syscall(p, from, to) ==
  /\ ~killed[p]
  /\ Goto(p, from, to)
  /\ UNCHANGED <<semVars, readers, killed>>

SysAcquire(p) ==
  /\ WithinBound
  /\ Syscall(p, "user", "aLk") \/ Syscall(p, "user", "wWl")

SysRelease(p) ==
  Syscall(p, "reading", "dLk") \/ Syscall(p, "writing", "wPost")

MutAcquireReadInc(p) ==
  /\ pc[p] = "aInc"
  /\ readers' = readers + 1
  /\ pc' = [pc EXCEPT ![p] = "aUnlk"]
  /\ UNCHANGED <<semVars, killed>>

\* readers++; if(readers == 1) ...
AcquireReadInc(p) ==
  /\ pc[p] = "aInc"
  /\ readers' = readers + 1
  /\ pc' = [pc EXCEPT ![p] = IF readers' = 1 THEN "aWl" ELSE "aUnlk"]
  /\ UNCHANGED <<semVars, killed>>

MutAcquireRead(p) ==
  \/ Goto(p, "aLk", "aInc") /\ UNCHANGED <<semVars, readers, killed>>
  \/ AcquireReadInc(p)
  \/ Wait(p, "writelock", "aWl", "aUnlk")
  \/ Goto(p, "aUnlk", "aRet") /\ UNCHANGED <<semVars, readers, killed>>

rwlock_acquire_readlock(p) ==
  \/ Wait(p, "lk", "aLk", "aInc")
  \/ AcquireReadInc(p)
  \/ Wait(p, "writelock", "aWl", "aUnlk")
  \/ Post(p, "lk", "aUnlk", "aRet")

\* readers--; if(readers == 0) ...
ReleaseReadDec(p) ==
  /\ pc[p] = "dDec"
  /\ readers' = readers - 1
  /\ pc' = [pc EXCEPT ![p] = IF readers' = 0 THEN "dWl" ELSE "dUnlk"]
  /\ UNCHANGED <<semVars, killed>>

rwlock_release_readlock(p) ==
  \/ Wait(p, "lk", "dLk", "dDec")
  \/ ReleaseReadDec(p)
  \/ Post(p, "writelock", "dWl", "dUnlk")
  \/ Post(p, "lk", "dUnlk", "user")

rwlock_acquire_writelock(p) == Wait(p, "writelock", "wWl", "wRet")

rwlock_release_writelock(p) == Post(p, "writelock", "wPost", "user")

\* trap(): the killed test after syscall(), then back to user code.
Return(p) == Syscall(p, "aRet", "reading") \/ Syscall(p, "wRet", "writing")

\* kill(): mark p; wake it when it sleeps.
Kill(p) ==
  /\ Cardinality({q \in Procs : killed[q]}) < MaxKills
  /\ pc[p] # "dead"
  /\ killed' = [killed EXCEPT ![p] = TRUE]
  /\ KillWakes(p)
  /\ UNCHANGED <<readers, pc>>

MutExitKilled(p) ==
  /\ pc[p] \in {"user", "aRet", "wRet", "reading", "writing"}
  /\ killed[p]
  /\ pc' = [pc EXCEPT ![p] = "dead"]
  /\ UNCHANGED <<semVars, readers, killed>>

\* trap() calls exit() for a killed LWP, which marks its group killed.
ExitKilled(p) ==
  /\ pc[p] \in {"user", "aRet", "wRet", "reading", "writing"}
  /\ killed[p]
  /\ pc' = [pc EXCEPT ![p] = "dead"]
  /\ killed' = [q \in Procs |-> TRUE]
  /\ UNCHANGED <<semVars, readers>>

\* The steps p takes by itself once it is scheduled.
Progress(p) ==
  \/ SysRelease(p)
  \/ rwlock_acquire_readlock(p)
  \/ rwlock_acquire_writelock(p)
  \/ rwlock_release_readlock(p)
  \/ rwlock_release_writelock(p)
  \/ Return(p)
  \/ ExitKilled(p)

Next == \E p \in Procs : SysAcquire(p) \/ Progress(p) \/ Kill(p)

Spec == Init /\ [][Next]_vars

\* The scheduler is round robin: a thread that can run is run.
FairSpec == Spec /\ \A p \in Procs : WF_vars(Progress(p))

-----------------------------------------------------------------------------
At(labels) == {p \in Procs : pc[p] \in labels}

\* Threads between xem_wait(&lk) and xem_unlock(&lk).
InLk == At({"aInc", "aWl", "aUnlk", "dDec", "dWl", "dUnlk"})

\* Nobody was killed so far; a thread killed in the middle of an operation
\* carries on with the rest of it.
NoneKilled == \A p \in Procs : ~killed[p]

(* Readers share the lock, a writer has it alone, as long as no thread is  *)
(* killed.                                                                 *)
RWExclusion ==
  NoneKilled =>
    /\ Cardinality(At({"writing", "wPost"})) <= 1
    /\ At({"writing", "wPost"}) # {} => At({"reading", "dLk", "dDec"}) = {}

(* readers is only touched by one thread at a time, and it counts the      *)
(* threads that came in and have not left: no update of it is lost as long *)
(* as no thread is killed.                                                 *)
ReadersCounted ==
  NoneKilled =>
    /\ Cardinality(InLk) <= 1
    /\ readers = Cardinality(At({"aWl", "aUnlk", "aRet", "reading", "dLk", "dDec"}))

(* Once a killed thread has exited, whatever it left behind in the lock,   *)
(* nobody of the group enters the lock any more: exit() has marked the     *)
(* whole group killed.                                                     *)
NoneEntersAfterExit ==
  [][At({"dead"}) # {} =>
       At({"reading", "writing"})' \subseteq At({"reading", "writing"})]_vars

(* A reader that asks for the lock gets it, unless threads are killed,     *)
(* although the others may come back for the lock for ever: lk and         *)
(* writelock are handed over in order, so nobody keeps overtaking it.      *)
ReaderGetsIn == \A p \in Procs : pc[p] = "aLk" ~> pc[p] = "reading" \/ ~NoneKilled
=============================================================================
