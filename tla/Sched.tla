-------------------------------- MODULE Sched --------------------------------
(***************************************************************************)
(* Spinlocks, interrupts and context switches on several CPUs: acquire,    *)
(* release, pushcli and popcli (spinlock.c); scheduler, sched, yield,      *)
(* forkret, sleep, wakeup and kill (proc.c); the timer interrupt (trap.c)  *)
(* and sys_sleep, the simplest system call that sleeps (sysproc.c).        *)
(*                                                                         *)
(* A context is a process's kernel thread or the scheduler of a CPU, which *)
(* has the name of the CPU.  pc[x] is the next call or statement of x.     *)
(* The calls of acquire and release are two tables from pc to the lock and *)
(* the pc that follows; the other statements are actions.                  *)
(***************************************************************************)
EXTENDS Integers, FiniteSets

CONSTANTS
  NCPU,     \* number of CPUs, named 100, 101, ...; CPU 100 counts the ticks
  NPROC,    \* number of processes, named 1 .. NPROC as in ptable.proc
  Ticks,    \* the argument of every sleep() system call
  KillOn    \* whether kill() is called at all

ASSUME SchedAssumption ==
  /\ NCPU \in Nat \ {0}
  /\ NPROC \in 1 .. 99
  /\ Ticks \in Nat
  /\ KillOn \in BOOLEAN

CPUs == 100 .. 99 + NCPU
Procs == 1 .. NPROC
Locks == {"tickslock", "ptable"}
Free == 0

VARIABLES
  locked,     \* locked[l]: the CPU that holds spinlock l, or Free
  spinning,   \* spinning[c]: c is in the xchg loop of acquire
  ncli, intena, IF_,   \* struct cpu's ncli and intena; the eflags bit FL_IF
  run,        \* run[c]: the context that c executes
  pos,        \* pos[c]: the loop variable p of c's scheduler
  pc,
  ret,        \* ret[x]: the pc that a timer interrupt of x returns to
  saved,      \* saved[p]: the local intena of p's sched()
  pstate, killed,   \* p->state and p->killed
  left        \* left[p]: ticks that p's sleep() still waits for

cpuVars == <<locked, spinning, ncli, intena, IF_>>
procVars == <<pstate, killed, left>>
ctlVars == <<run, pos, pc, ret, saved>>
vars == <<cpuVars, procVars, ctlVars>>

AcquireAt ==
  [sysSleep |-> <<"tickslock", "ticks0">>,  slpAcq |-> <<"ptable", "slpRel">>,
   slpReAcq |-> <<"tickslock", "test">>,    tickAcq |-> <<"tickslock", "tick">>,
   wakeAcq |-> <<"ptable", "wakeup1">>,     yieldAcq |-> <<"ptable", "yield">>,
   killAcq |-> <<"ptable", "kill">>,        exitAcq |-> <<"ptable", "exit">>,
   schedAcq |-> <<"ptable", "scan">>]

ReleaseAt ==
  [forkret |-> <<"ptable", "trapret">>,     slpRel |-> <<"tickslock", "slpSet">>,
   slpBack |-> <<"ptable", "slpReAcq">>,    sysDone |-> <<"tickslock", "user">>,
   wakeRel |-> <<"ptable", "tickRel">>,     tickRel |-> <<"tickslock", "trapKilled">>,
   yieldBack |-> <<"ptable", "trapKilled2">>, killRel |-> <<"ptable", "user">>,
   schedRel |-> <<"ptable", "sti">>]

\* The CPUs enter scheduler(); the processes are new: forkret, then
\* trapret to user code.
Init ==
  /\ locked = [l \in Locks |-> Free]
  /\ spinning = [c \in CPUs |-> FALSE]
  /\ ncli = [c \in CPUs |-> 0]
  /\ intena = [c \in CPUs |-> FALSE]
  /\ IF_ = [c \in CPUs |-> FALSE]
  /\ run = [c \in CPUs |-> c]
  /\ pos = [c \in CPUs |-> 1]
  /\ pc = [x \in CPUs \cup Procs |-> IF x \in CPUs THEN "sti" ELSE "forkret"]
  /\ ret = [x \in CPUs \cup Procs |-> "dead"]
  /\ saved = [p \in Procs |-> FALSE]
  /\ pstate = [p \in Procs |-> "RUNNABLE"]
  /\ killed = [p \in Procs |-> FALSE]
  /\ left = [p \in Procs |-> 0]

At(c, here) == pc[run[c]] = here
Goto(c, next) == pc' = [pc EXCEPT ![run[c]] = next]

------------------------------------------------------------------------------
\* Spinlocks

pushcli(c) ==
  /\ IF_' = [IF_ EXCEPT ![c] = FALSE]
  /\ intena' = [intena EXCEPT ![c] = IF ncli[c] = 0 THEN IF_[c] ELSE @]
  /\ ncli' = [ncli EXCEPT ![c] = @ + 1]

popcli(c) ==
  /\ ncli' = [ncli EXCEPT ![c] = @ - 1]
  /\ IF_' = [IF_ EXCEPT ![c] = @ \/ (ncli[c] = 1 /\ intena[c])]
  /\ UNCHANGED intena

\* acquire up to the xchg loop.
AcquireBegin(c) ==
  /\ pc[run[c]] \in DOMAIN AcquireAt
  /\ ~spinning[c]
  /\ spinning' = [spinning EXCEPT ![c] = TRUE]
  /\ pushcli(c)
  /\ UNCHANGED <<locked, procVars, ctlVars>>

\* The xchg that wins.
AcquireEnd(c) ==
  /\ spinning[c]
  /\ LET call == AcquireAt[pc[run[c]]]
     IN /\ locked[call[1]] = Free
        /\ locked' = [locked EXCEPT ![call[1]] = c]
        /\ Goto(c, call[2])
  /\ spinning' = [spinning EXCEPT ![c] = FALSE]
  /\ UNCHANGED <<ncli, intena, IF_, procVars, run, pos, ret, saved>>

Release(c) ==
  /\ pc[run[c]] \in DOMAIN ReleaseAt
  /\ LET call == ReleaseAt[pc[run[c]]]
     IN /\ locked' = [locked EXCEPT ![call[1]] = Free]
        /\ Goto(c, call[2])
  /\ popcli(c)
  /\ UNCHANGED <<spinning, procVars, run, pos, ret, saved>>

------------------------------------------------------------------------------
\* scheduler() and sched()

Sti(c) ==
  /\ At(c, "sti")
  /\ IF_' = [IF_ EXCEPT ![c] = TRUE]
  /\ Goto(c, "schedAcq")
  /\ UNCHANGED <<locked, spinning, ncli, intena, procVars, run, pos, ret, saved>>

RunnableFrom(n) == {p \in Procs : p >= n /\ pstate[p] = "RUNNABLE"}

MutRestoreIntena(c, p) == intena' = intena

\* The first thing sched() does when it returns; a new process is in forkret.
RestoreIntena(c, p) ==
  intena' = [intena EXCEPT ![c] = IF pc[p] = "forkret" THEN @ ELSE saved[p]]

\* The loop of scheduler() finds the next RUNNABLE process and switches to it.
Dispatch(c) ==
  /\ At(c, "scan")
  /\ \E p \in RunnableFrom(pos[c]) :
       /\ \A q \in RunnableFrom(pos[c]) : p <= q
       /\ pos' = [pos EXCEPT ![c] = p + 1]
       /\ pstate' = [pstate EXCEPT ![p] = "RUNNING"]
       /\ run' = [run EXCEPT ![c] = p]
       /\ RestoreIntena(c, p)
  /\ UNCHANGED <<locked, spinning, ncli, IF_, killed, left, pc, ret, saved>>

MutScanEnds(c) ==
  /\ At(c, "scan")
  /\ RunnableFrom(pos[c]) = {}
  /\ Goto(c, "schedRel")
  /\ UNCHANGED <<cpuVars, procVars, run, pos, ret, saved>>

ScanEnds(c) ==
  /\ At(c, "scan")
  /\ RunnableFrom(pos[c]) = {}
  /\ pos' = [pos EXCEPT ![c] = 1]
  /\ Goto(c, "schedRel")
  /\ UNCHANGED <<cpuVars, procVars, run, ret, saved>>

\* sched(): back to the scheduler of this CPU, to resume later at ret[p].
Switch(c, p, next) ==
  /\ saved' = [saved EXCEPT ![p] = intena[c]]
  /\ run' = [run EXCEPT ![c] = c]
  /\ pc' = [pc EXCEPT ![p] = next]

MutYield(c) ==
  \E p \in Procs :
    /\ run[c] = p
    /\ At(c, "yield")
    /\ Switch(c, p, "yieldBack")
    /\ UNCHANGED <<cpuVars, procVars, pos, ret>>

\* yield() after its acquire.
Yield(c) ==
  \E p \in Procs :
    /\ run[c] = p
    /\ At(c, "yield")
    /\ pstate' = [pstate EXCEPT ![p] = "RUNNABLE"]
    /\ Switch(c, p, "yieldBack")
    /\ UNCHANGED <<cpuVars, killed, left, pos, ret>>

\* sleep() sets the state (the channel is &ticks) ...
SleepSet(c) ==
  \E p \in Procs :
    /\ run[c] = p
    /\ At(c, "slpSet")
    /\ pstate' = [pstate EXCEPT ![p] = "SLEEPING"]
    /\ Goto(c, "sched")
    /\ UNCHANGED <<cpuVars, killed, left, run, pos, ret, saved>>

\* ... and only then switches away.
SleepSwitch(c) ==
  \E p \in Procs :
    /\ run[c] = p
    /\ At(c, "sched")
    /\ Switch(c, p, "slpBack")
    /\ UNCHANGED <<cpuVars, procVars, pos, ret>>

\* exit() after its acquire: a ZOMBIE never comes back from sched().
Exit(c) ==
  \E p \in Procs :
    /\ run[c] = p
    /\ At(c, "exit")
    /\ pstate' = [pstate EXCEPT ![p] = "ZOMBIE"]
    /\ Switch(c, p, "dead")
    /\ UNCHANGED <<cpuVars, killed, left, pos, ret>>

------------------------------------------------------------------------------
\* System calls

Step(c, p, here, next) ==
  /\ run[c] = p
  /\ At(c, here)
  /\ Goto(c, next)
  /\ UNCHANGED <<cpuVars, run, pos, ret, saved>>

\* trap() tests killed before the system call.
SysEnter(c, p) ==
  /\ \/ killed[p] /\ Step(c, p, "user", "exitAcq")
     \/ ~killed[p] /\ Step(c, p, "user", "sysSleep")
     \/ ~killed[p] /\ KillOn /\ Step(c, p, "user", "killAcq")
  /\ UNCHANGED procVars

SetTicks0(c, p) ==
  /\ Step(c, p, "ticks0", "test")
  /\ left' = [left EXCEPT ![p] = Ticks]
  /\ UNCHANGED <<pstate, killed>>

\* The loop of sys_sleep.
SleepTest(c, p) ==
  /\ \/ (left[p] = 0 \/ killed[p]) /\ Step(c, p, "test", "sysDone")
     \/ left[p] > 0 /\ ~killed[p] /\ Step(c, p, "test", "slpAcq")
  /\ UNCHANGED procVars

KillBody(c, p) ==
  /\ Step(c, p, "kill", "killRel")
  /\ \E q \in Procs :
       /\ pstate[q] # "ZOMBIE"
       /\ killed' = [killed EXCEPT ![q] = TRUE]
       /\ pstate' = [pstate EXCEPT ![q] = IF @ = "SLEEPING" THEN "RUNNABLE" ELSE @]
  /\ UNCHANGED left

------------------------------------------------------------------------------
\* The timer interrupt

Timer(c) ==
  /\ IF_[c]
  /\ IF_' = [IF_ EXCEPT ![c] = FALSE]
  /\ ret' = [ret EXCEPT ![run[c]] = pc[run[c]]]
  /\ Goto(c, IF c = 100 THEN "tickAcq" ELSE "trapKilled")
  /\ UNCHANGED <<locked, spinning, ncli, intena, procVars, run, pos, saved>>

Tick(c) ==
  /\ At(c, "tick")
  /\ left' = [p \in Procs |-> IF left[p] = 0 THEN 0 ELSE left[p] - 1]
  /\ Goto(c, "wakeAcq")
  /\ UNCHANGED <<cpuVars, pstate, killed, run, pos, ret, saved>>

MutWakeup1(c) ==
  /\ At(c, "wakeup1")
  /\ pstate' = [p \in Procs |-> IF pstate[p] = "SLEEPING" /\ p = 1
                                  THEN "RUNNABLE" ELSE pstate[p]]
  /\ Goto(c, "wakeRel")
  /\ UNCHANGED <<cpuVars, killed, left, run, pos, ret, saved>>

wakeup1(c) ==
  /\ At(c, "wakeup1")
  /\ pstate' = [p \in Procs |-> IF pstate[p] = "SLEEPING" THEN "RUNNABLE"
                                                          ELSE pstate[p]]
  /\ Goto(c, "wakeRel")
  /\ UNCHANGED <<cpuVars, killed, left, run, pos, ret, saved>>

InterruptedUser(c) == ret[run[c]] = "user"

MutTrapEnd(c) ==
  /\ \E here \in {"trapKilled", "trapKilled2"} :
       /\ At(c, here)
       /\ Goto(c, IF run[c] \in Procs /\ killed[run[c]] /\ InterruptedUser(c)
                    THEN "exitAcq"
                  ELSE IF here = "trapKilled" /\ run[c] \in Procs
                          /\ pstate[run[c]] = "RUNNING"
                    THEN "yield" ELSE "iret")
  /\ UNCHANGED <<cpuVars, procVars, run, pos, ret, saved>>

\* The end of trap(): exit if killed in user mode, yield if a process runs,
\* and the killed test once more after the yield.
TrapEnd(c) ==
  /\ \E here \in {"trapKilled", "trapKilled2"} :
       /\ At(c, here)
       /\ Goto(c, IF run[c] \in Procs /\ killed[run[c]] /\ InterruptedUser(c)
                    THEN "exitAcq"
                  ELSE IF here = "trapKilled" /\ run[c] \in Procs
                          /\ pstate[run[c]] = "RUNNING"
                    THEN "yieldAcq" ELSE "iret")
  /\ UNCHANGED <<cpuVars, procVars, run, pos, ret, saved>>

Iret(c) ==
  /\ At(c, "iret")
  /\ Goto(c, ret[run[c]])
  /\ ret' = [ret EXCEPT ![run[c]] = "dead"]
  /\ IF_' = [IF_ EXCEPT ![c] = TRUE]
  /\ UNCHANGED <<locked, spinning, ncli, intena, procVars, run, pos, saved>>

\* A new process returns to user code; its trap frame has FL_IF set.
Trapret(c) ==
  /\ At(c, "trapret")
  /\ Goto(c, "user")
  /\ IF_' = [IF_ EXCEPT ![c] = TRUE]
  /\ UNCHANGED <<locked, spinning, ncli, intena, procVars, run, pos, ret, saved>>

------------------------------------------------------------------------------
\* What CPU c does next by itself, other than win a spinlock.
CpuStep(c) ==
  \/ AcquireBegin(c) \/ Release(c)
  \/ Sti(c) \/ Dispatch(c) \/ ScanEnds(c)
  \/ Yield(c) \/ SleepSet(c) \/ SleepSwitch(c) \/ Exit(c)
  \/ Tick(c) \/ wakeup1(c) \/ TrapEnd(c) \/ Iret(c) \/ Trapret(c)
  \/ \E p \in Procs : SetTicks0(c, p) \/ SleepTest(c, p) \/ KillBody(c, p)

Next ==
  \E c \in CPUs :
    CpuStep(c) \/ AcquireEnd(c) \/ Timer(c) \/ \E p \in Procs : SysEnter(c, p)

Spec == Init /\ [][Next]_vars

\* A context gets somewhere between two interrupts: the timer's period is
\* far longer than any path through the kernel.
Advance(x) ==
  \E c \in CPUs : run[c] = x /\ ret[x] = "dead" /\ (CpuStep(c) \/ AcquireEnd(c))

\* CPUs do not stop, the timer of each CPU keeps firing, and the bus does not
\* let one CPU lose every race for a lock.
FairSpec ==
  /\ Spec
  /\ \A c \in CPUs : WF_vars(CpuStep(c)) /\ SF_vars(AcquireEnd(c)) /\ SF_vars(Timer(c))
  /\ \A x \in CPUs \cup Procs : SF_vars(Advance(x))

------------------------------------------------------------------------------
Holding(c) == {l \in Locks : locked[l] = c}

(* No process runs on two CPUs: ptable.lock is held from the change of     *)
(* state in sleep() or yield() until the scheduler has left its stack.     *)
OneStack ==
  /\ \A c, d \in CPUs : c # d => run[c] # run[d]
  /\ \A p \in Procs : pstate[p] = "RUNNING" => \E c \in CPUs : run[c] = p

(* None of the panics of acquire, release, popcli and sched can happen.    *)
NoPanic ==
  \A c \in CPUs : LET here == pc[run[c]] IN
    /\ spinning[c] => locked[AcquireAt[here][1]] # c
    /\ here \in DOMAIN ReleaseAt =>
         locked[ReleaseAt[here][1]] = c /\ ncli[c] > 0 /\ ~IF_[c]
    /\ here \in {"sched", "yield", "exit"} =>
         Holding(c) = {"ptable"} /\ ncli[c] = 1 /\ ~IF_[c]
    /\ here # "dead"

(* Interrupts are off exactly while the CPU holds or waits for a spinlock, *)
(* handles an interrupt, or is about to turn them on in scheduler() (or on *)
(* the way out of forkret); ncli is the number of locks.  So user code can *)
(* always be interrupted, and a handler never spins on a lock of its CPU.  *)
InterruptDiscipline ==
  \A c \in CPUs :
    /\ ncli[c] = Cardinality(Holding(c)) + (IF spinning[c] THEN 1 ELSE 0)
    /\ \/ At(c, "trapret") \/ At(c, "sti")
       \/ IF_[c] <=> ncli[c] = 0 /\ ret[run[c]] = "dead"

(* A RUNNABLE process gets a CPU.                                          *)
RunnableRuns == \A p \in Procs : pstate[p] = "RUNNABLE" ~> pstate[p] = "RUNNING"

(* A process that calls sleep() comes back to user code or exits.          *)
SleepEnds == \A p \in Procs : pc[p] = "sysSleep" ~> pc[p] \in {"user", "dead"}

==============================================================================
