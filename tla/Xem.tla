-------------------------------- MODULE Xem --------------------------------
(***************************************************************************)
(* Threads that use semaphores through the system calls xem_wait and       *)
(* xem_unlock, with kill().  Every group of threads (one address space)    *)
(* has one semaphore; the threads are LWPs made by thread_create.          *)
(*                                                                         *)
(* phase[p] is where p is:                                                 *)
(*   user       in user code, outside the critical section                 *)
(*   enterWait  in sys_xem_wait, past trap()'s killed test                 *)
(*   waiting    in xem_wait, at the call of sleep()                        *)
(*   leaveWait  xem_wait has returned, before trap()'s second killed test  *)
(*   in         in user code, inside the critical section                  *)
(*   enterPost  in sys_xem_unlock, past trap()'s killed test               *)
(*   dead       exit() has run                                             *)
(***************************************************************************)
EXTENDS Semaphore

CONSTANTS
  SemOf,      \* SemOf[p]: the semaphore of p's address space
  MaxCount,   \* bound: no contention once count has reached it
  KillOn      \* whether kill() is called at all

ASSUME XemAssumption ==
  /\ SemOf \in [Procs -> Sems]
  /\ MaxCount \in Nat
  /\ KillOn \in BOOLEAN

VARIABLES
  phase,
  killed,   \* p->killed
  claim,    \* history: none, queued (drew a ticket) or held (has the permit)
  ticket    \* history: the value of count that p drew when it last slept

vars == <<semVars, phase, killed, claim, ticket>>

Phases == {"user", "enterWait", "waiting", "leaveWait", "in", "enterPost", "dead"}

TypeOK ==
  /\ SemType
  /\ phase \in [Procs -> Phases]
  /\ killed \in [Procs -> BOOLEAN]
  /\ claim \in [Procs -> {"none", "queued", "held"}]
  /\ ticket \in [Procs -> Nat]

Init ==
  /\ XemInit
  /\ phase = [p \in Procs |-> "user"]
  /\ killed = [p \in Procs |-> FALSE]
  /\ claim = [p \in Procs |-> "none"]
  /\ ticket = [p \in Procs |-> 0]

Goto(p, from, to) ==
  /\ phase[p] = from
  /\ phase' = [phase EXCEPT ![p] = to]

\* Bounds count: past MaxCount the threads enter one at a time.
WithinBound(s) ==
  count[s] < MaxCount \/ \A q \in Procs : phase[q] \in {"user", "dead"}

\* trap(): the killed test before syscall(), then into the kernel.
SysXemWait(p) ==
  /\ Goto(p, "user", "enterWait")
  /\ ~killed[p]
  /\ WithinBound(SemOf[p])
  /\ UNCHANGED <<semVars, killed, claim, ticket>>

WaitTake(p) ==
  /\ Goto(p, "enterWait", "leaveWait")
  /\ XemTake(p, SemOf[p])
  /\ claim' = [claim EXCEPT ![p] = "held"]
  /\ UNCHANGED <<killed, ticket>>

WaitSleep(p) ==
  /\ Goto(p, "enterWait", "waiting")
  /\ XemSleep(p, SemOf[p])
  /\ claim' = [claim EXCEPT ![p] = "queued"]
  /\ ticket' = [ticket EXCEPT ![p] = count[SemOf[p]]]
  /\ UNCHANGED killed

WaitResume(p) ==
  /\ Goto(p, "waiting", "leaveWait")
  /\ XemResume(p, SemOf[p])
  /\ UNCHANGED <<killed, claim, ticket>>

MutReturn(p) ==
  /\ Goto(p, "leaveWait", "in")
  /\ claim' = [claim EXCEPT ![p] = "held"]
  /\ UNCHANGED <<semVars, killed, ticket>>

\* trap(): the killed test after syscall(), then back to user code.
Return(p) ==
  /\ Goto(p, "leaveWait", "in")
  /\ ~killed[p]
  /\ claim' = [claim EXCEPT ![p] = "held"]
  /\ UNCHANGED <<semVars, killed, ticket>>

SysXemUnlock(p) ==
  /\ Goto(p, "in", "enterPost")
  /\ ~killed[p]
  /\ UNCHANGED <<semVars, killed, claim, ticket>>

Unlock(p) ==
  /\ Goto(p, "enterPost", "user")
  /\ XemUnlock(p, SemOf[p])
  /\ claim' = [claim EXCEPT ![p] = "none"]
  /\ UNCHANGED <<killed, ticket>>

\* kill(): mark p; wake it when it sleeps.
Kill(p) ==
  /\ KillOn
  /\ phase[p] # "dead"
  /\ killed' = [killed EXCEPT ![p] = TRUE]
  /\ KillWakes(p)
  /\ UNCHANGED <<phase, claim, ticket>>

\* trap(): a killed LWP calls exit(), which marks its whole group killed and
\* wakes none of its sleepers.
ExitKilled(p) ==
  /\ phase[p] \in {"user", "leaveWait", "in"}
  /\ killed[p]
  /\ phase' = [phase EXCEPT ![p] = "dead"]
  /\ killed' = [q \in Procs |-> killed[q] \/ SemOf[q] = SemOf[p]]
  /\ UNCHANGED <<semVars, claim, ticket>>

Next ==
  \E p \in Procs :
    \/ SysXemWait(p)
    \/ WaitTake(p)
    \/ WaitSleep(p)
    \/ WaitResume(p)
    \/ Return(p)
    \/ SysXemUnlock(p)
    \/ Unlock(p)
    \/ Kill(p)
    \/ ExitKilled(p)

\* The steps p takes by itself once it is scheduled; entering the critical
\* section in the first place is up to the program.
Progress(p) ==
  \/ WaitTake(p)
  \/ WaitSleep(p)
  \/ WaitResume(p)
  \/ Return(p)
  \/ SysXemUnlock(p)
  \/ Unlock(p)
  \/ ExitKilled(p)

Spec == Init /\ [][Next]_vars

\* The scheduler is round robin: a thread that can run is run.
FairSpec == Spec /\ \A p \in Procs : WF_vars(Progress(p))

----------------------------------------------------------------------------
Users(s) == {p \in Procs : SemOf[p] = s}

Inside(s) == {p \in Users(s) : phase[p] \in {"in", "enterPost"}}

Claimants(s) == {p \in Users(s) : claim[p] # "none"}

\* Threads whose ticket no xem_unlock has reached yet, dead ones included.
Ungranted(s) ==
  {p \in Users(s) : claim[p] = "queued" /\ ticket[p] >= dcount[s]}

Sleepers(s) == {p \in Users(s) : pstate[p] = "SLEEPING"}

(* xem_wait lets at most InitValue threads of a group into the critical    *)
(* section, although sleep() is not in a loop and kill() wakes sleepers    *)
(* that own no permit: the killed test in trap() keeps those out.          *)
MutualExclusion ==
  \A s \in Sems : Cardinality(Inside(s)) <= InitValue

(* The counter is exact: every permit is in value or with one thread that  *)
(* drew it, and value < 0 counts the tickets not yet reached by xem_unlock.*)
Accounting ==
  \A s \in Sems :
    /\ value[s] = InitValue - Cardinality(Claimants(s))
    /\ count[s] - dcount[s] =
         IF value[s] < 0 THEN -value[s] ELSE 0
    /\ Cardinality(Ungranted(s)) = count[s] - dcount[s]

(* No lost wakeup: a thread whose ticket xem_unlock has passed is not      *)
(* asleep, and two sleepers never share an element of arr.                 *)
NoLostWakeup ==
  \A s \in Sems :
    /\ Sleepers(s) \subseteq Ungranted(s)
    /\ \A p, q \in Sleepers(s) : p # q => chan[p] # chan[q]

(* A thread that leaves xem_wait without a permit was killed: only kill()  *)
(* wakes a thread out of turn, so the missing loop does no harm by itself. *)
OutOfTurnOnlyIfKilled ==
  \A s \in Sems : \A p \in Ungranted(s) :
    pstate[p] = "RUNNABLE" => killed[p]

(* xem_unlock wakes exactly one thread when one sleeps, the one that has   *)
(* waited longest, and wakes nobody otherwise; unless one of the threads   *)
(* in line was killed, whose element it then wakes in vain.                *)
PostWakesOldest ==
  [][\A p \in Procs : Unlock(p) /\ (\A q \in Ungranted(SemOf[p]) : ~killed[q]) =>
       LET s == SemOf[p]
       IN Sleepers(s) # {} =>
            \E q \in Sleepers(s) :
              /\ Sleepers(s)' = Sleepers(s) \ {q}
              /\ \A r \in Sleepers(s) : ticket[q] <= ticket[r]]_vars

(* A thread that goes to sleep in xem_wait gets in, unless threads are     *)
(* killed, although the others may come back for the semaphore for ever.   *)
WaiterGetsIn ==
  \A p \in Procs :
    phase[p] = "waiting" ~> phase[p] = "in" \/ \E q \in Procs : killed[q]
----------------------------------------------------------------------------
\* User memory of the groups does not overlap: Base as if addresses were
\* kernel-wide.  Nothing in the kernel enforces it.
NoAlias ==
  \A s, t \in Sems : s # t =>
    Base[s] + SIZE <= Base[t] \/ Base[t] + SIZE <= Base[s]

\* What one semaphore's counters say about its users.
SemInv(s) ==
  /\ value[s] = InitValue - Cardinality(Claimants(s))
  /\ dcount[s] <= count[s]
  /\ value[s] < 0 => count[s] - dcount[s] = -value[s]
  /\ value[s] >= 0 => count[s] = dcount[s]
  /\ Cardinality(Ungranted(s)) = count[s] - dcount[s]
  /\ \A t \in dcount[s] .. count[s] - 1 :
       \E p \in Users(s) : claim[p] = "queued" /\ ticket[p] = t

\* What is known of a thread in each phase.
ProcInv(p) ==
  /\ claim[p] = "queued" => ticket[p] < count[SemOf[p]]
  /\ pstate[p] = "SLEEPING" =>
       /\ phase[p] = "waiting"
       /\ chan[p] = Slot(SemOf[p], ticket[p])
       /\ ticket[p] >= dcount[SemOf[p]]
  /\ phase[p] \in {"user", "enterWait"} => claim[p] = "none"
  /\ phase[p] = "waiting" => claim[p] = "queued"
  /\ phase[p] = "leaveWait" => claim[p] # "none"
  /\ phase[p] \in {"in", "enterPost"} => claim[p] = "held"
  /\ /\ claim[p] = "queued"
     /\ ticket[p] >= dcount[SemOf[p]]
     /\ pstate[p] = "RUNNABLE"
     => killed[p]

TicketsDiffer ==
  \A p, q \in Procs :
    p # q /\ SemOf[p] = SemOf[q] /\ claim[p] = "queued" /\ claim[q] = "queued"
      => ticket[p] # ticket[q]

(* The inductive invariant behind MutualExclusion, Accounting and          *)
(* NoLostWakeup: the tickets between dcount and count are one each with    *)
(* the waiters that xem_unlock has not reached.                            *)
IInv ==
  /\ TypeOK
  /\ \A s \in Sems : SemInv(s)
  /\ \A p \in Procs : ProcInv(p)
  /\ TicketsDiffer
============================================================================
