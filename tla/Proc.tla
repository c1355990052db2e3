-------------------------------- MODULE Proc --------------------------------
(***************************************************************************)
(* The process table (proc.c): processes and the LWPs that thread_create   *)
(* makes, from allocproc to the wait or thread_join that frees the slot.   *)
(*                                                                         *)
(* A slot is an index of ptable.proc; slot 1 is initproc and 0 is the null *)
(* pointer.  What runs with ptable.lock held is one step (module Sched is  *)
(* about why that is sound); the unlocked stretches of fork, thread_create *)
(* and exit are steps of their own.  The code executing on CPU c is at     *)
(* at[c], on behalf of the slot cur[c] = mycpu()->proc, whatever has       *)
(* become of that slot meanwhile; ctx[p] is where p continues when the     *)
(* scheduler picks it.  The memory of threads is left out.                 *)
(***************************************************************************)
EXTENDS Integers, FiniteSets

CONSTANTS
  CPUs,
  NPROC,     \* slots of ptable
  MaxPid,    \* bound: allocproc is called at most MaxPid times
  Workloads  \* the sets of system calls, besides wait, that programs other
             \* than init may be made of; "thread exit()" is exit() called
             \* by an LWP, "any pid" kill() of pids that nobody has, and
             \* "nomem" kalloc, copyuvm and allocuvm out of memory

ASSUME ProcAssumption ==
  /\ NPROC \in Nat \ {0}
  /\ MaxPid \in Nat \ {0}

Slots == 1 .. NPROC
initproc == 1
Pids == 0 .. MaxPid

VARIABLES
  state, pid, parent, killed, chan, kstack,   \* fields of struct proc;
  t_flag, main_thread, ptid, tid,             \* kstack as a Boolean
  nextpid, nexttid,
  kpages,    \* pages that are allocated as kernel stacks
  cur, at, ctx,
  owned,     \* owned[p]: thread ids p's program created and did not join yet
  calls      \* the workload of this behaviour

threadVars == <<t_flag, main_thread, ptid, tid>>
slotVars == <<state, pid, parent, killed, chan, kstack, threadVars>>
cpuVars == <<cur, at, ctx>>
vars == <<slotVars, cpuVars, nextpid, nexttid, kpages, owned, calls>>

Loc(op, arg, thread) == [op |-> op, arg |-> arg, thread |-> thread]
User == Loc("user", 0, FALSE)
None == Loc("none", 0, FALSE)

\* userinit has made initproc RUNNABLE.
Init ==
  /\ state = [p \in Slots |-> IF p = initproc THEN "RUNNABLE" ELSE "UNUSED"]
  /\ pid = [p \in Slots |-> IF p = initproc THEN 1 ELSE 0]
  /\ ptid = [p \in Slots |-> IF p = initproc THEN 1 ELSE 0]
  /\ parent = [p \in Slots |-> 0]
  /\ killed = [p \in Slots |-> FALSE]
  /\ chan = [p \in Slots |-> 0]
  /\ kstack = [p \in Slots |-> p = initproc]
  /\ t_flag = [p \in Slots |-> FALSE]
  /\ main_thread = [p \in Slots |-> 0]
  /\ tid = [p \in Slots |-> 0]
  /\ nextpid = 2
  /\ nexttid = 0
  /\ kpages = 1
  /\ cur = [c \in CPUs |-> 0]
  /\ at = [c \in CPUs |-> None]
  /\ ctx = [p \in Slots |-> IF p = initproc THEN User ELSE None]
  /\ owned = [p \in Slots |-> {}]
  /\ calls \in Workloads

Least(S) == CHOOSE p \in S : \A q \in S : p <= q

Goto(c, loc) == at' = [at EXCEPT ![c] = loc] /\ UNCHANGED <<cur, ctx>>

\* sched(): leave the CPU, to continue at loc.
Sched(c, loc) ==
  /\ ctx' = [ctx EXCEPT ![cur[c]] = loc]
  /\ cur' = [cur EXCEPT ![c] = 0]
  /\ at' = [at EXCEPT ![c] = None]

\* Executing slot cur[c] at a statement labelled op.
Running(c, op) == cur[c] # 0 /\ at[c].op = op

\* ptable.lock can be taken by, or belongs to, CPU c: a slot that the
\* scheduler resumes in the sleep of wait or thread_join has the lock until
\* it has scanned the table again.
Lock(c) == \A d \in CPUs \ {c} : at[d].op \notin {"wait", "join"}
-----------------------------------------------------------------------------
\* The scheduler

\* The scheduler's choice of p, and the end of sleep when p was in sleep.
Dispatch(c, p) ==
  /\ Lock(c)
  /\ cur[c] = 0
  /\ state[p] = "RUNNABLE"
  /\ state' = [state EXCEPT ![p] = "RUNNING"]
  /\ chan' = [chan EXCEPT ![p] = IF ctx[p].op \in {"wait", "join"} THEN 0 ELSE @]
  /\ cur' = [cur EXCEPT ![c] = p]
  /\ at' = [at EXCEPT ![c] = ctx[p]]
  /\ UNCHANGED <<pid, parent, killed, kstack, threadVars, ctx, nextpid, nexttid,
                 kpages, owned, calls>>

\* The timer's yield; trap() tests that the state is RUNNING.
Preempt(c) ==
  /\ Lock(c)
  /\ cur[c] # 0 /\ at[c].op \notin {"wait", "join"}
  /\ state[cur[c]] = "RUNNING"
  /\ state' = [state EXCEPT ![cur[c]] = "RUNNABLE"]
  /\ Sched(c, at[c])
  /\ UNCHANGED <<pid, parent, killed, chan, kstack, threadVars, nextpid, nexttid,
                 kpages, owned, calls>>

\* sys_yield, which does not test the state.
SysYield(c) ==
  /\ "yield" \in calls
  /\ Lock(c)
  /\ Running(c, "user")
  /\ ~killed[cur[c]]
  /\ state' = [state EXCEPT ![cur[c]] = "RUNNABLE"]
  /\ Sched(c, at[c])
  /\ UNCHANGED <<pid, parent, killed, chan, kstack, threadVars, nextpid, nexttid,
                 kpages, owned, calls>>

-----------------------------------------------------------------------------
\* fork and thread_create

\* Whether slot p's program makes the system call now.  init forks and waits.
MayCall(p, call) ==
  /\ ~killed[p]
  /\ IF p = initproc THEN call \in {"fork", "wait"} ELSE call \in calls \cup {"wait"}

\* allocproc with ptable.lock held.  killed, parent, main_thread and tid keep
\* what the last owner of the slot left there.
allocproc(c, isThread) ==
  LET unused == {p \in Slots : state[p] = "UNUSED"}
      np == Least(unused)
  IN /\ Lock(c)
     /\ unused # {}
     /\ nextpid <= MaxPid
     /\ state' = [state EXCEPT ![np] = "EMBRYO"]
     /\ pid' = [pid EXCEPT ![np] = nextpid]
     /\ ptid' = [ptid EXCEPT ![np] = nextpid]
     /\ t_flag' = [t_flag EXCEPT ![np] = FALSE]
     /\ nextpid' = nextpid + 1
     /\ owned' = [owned EXCEPT ![np] = {}]
     /\ Goto(c, Loc("alloc", np, isThread))
     /\ UNCHANGED <<parent, killed, chan, kstack, main_thread, tid, nexttid, kpages, calls>>

Fork(c) == Running(c, "user") /\ MayCall(cur[c], "fork") /\ allocproc(c, FALSE)

ThreadCreate(c) ==
  Running(c, "user") /\ MayCall(cur[c], "thread_create") /\ allocproc(c, TRUE)

\* The rest of allocproc, without the lock: the kernel stack.
AllocStack(c) ==
  /\ Running(c, "alloc")
  /\ \/ /\ kstack' = [kstack EXCEPT ![at[c].arg] = TRUE]
        /\ kpages' = kpages + 1
        /\ Goto(c, [at[c] EXCEPT !.op = IF at[c].thread THEN "allocuvm" ELSE "copyuvm"])
        /\ UNCHANGED state
     \/ /\ "nomem" \in calls
        /\ state' = [state EXCEPT ![at[c].arg] = "UNUSED"]
        /\ Goto(c, User)
        /\ UNCHANGED <<kstack, kpages>>
  /\ UNCHANGED <<pid, parent, killed, chan, threadVars, nextpid, nexttid, owned, calls>>

\* fork: copyuvm works, and the child gets its parent.
ForkCopy(c) ==
  /\ Running(c, "copyuvm")
  /\ parent' = [parent EXCEPT ![at[c].arg] = cur[c]]
  /\ Goto(c, [at[c] EXCEPT !.op = "go"])
  /\ UNCHANGED <<state, pid, killed, chan, kstack, threadVars, nextpid, nexttid,
                 kpages, owned, calls>>

MutForkCopyFails(c) ==
  /\ "nomem" \in calls
  /\ Running(c, "copyuvm")
  /\ kstack' = [kstack EXCEPT ![at[c].arg] = FALSE]
  /\ kpages' = kpages - 1
  /\ Goto(c, User)
  /\ UNCHANGED <<state, pid, parent, killed, chan, threadVars, nextpid, nexttid, owned, calls>>

\* fork: copyuvm runs out of memory.
ForkCopyFails(c) ==
  /\ "nomem" \in calls
  /\ Running(c, "copyuvm")
  /\ state' = [state EXCEPT ![at[c].arg] = "UNUSED"]
  /\ kstack' = [kstack EXCEPT ![at[c].arg] = FALSE]
  /\ kpages' = kpages - 1
  /\ Goto(c, User)
  /\ UNCHANGED <<pid, parent, killed, chan, threadVars, nextpid, nexttid, owned, calls>>

\* thread_create: the stack is mapped and the LWP joins its group.
ThreadSetup(c) ==
  /\ Lock(c)
  /\ Running(c, "allocuvm")
  /\ LET np == at[c].arg
         p == cur[c]
     IN /\ ptid' = [ptid EXCEPT ![np] = IF t_flag[p] THEN ptid[p] ELSE pid[p]]
        /\ t_flag' = [t_flag EXCEPT ![np] = TRUE]
        /\ main_thread' = [main_thread EXCEPT ![np] = p]
        /\ tid' = [tid EXCEPT ![np] = nexttid]
        /\ owned' = [owned EXCEPT ![p] = @ \cup {nexttid}]
  /\ nexttid' = nexttid + 1
  /\ Goto(c, [at[c] EXCEPT !.op = "go"])
  /\ UNCHANGED <<state, pid, parent, killed, chan, kstack, nextpid, kpages, calls>>

\* thread_create: allocuvm fails and the slot stays as allocproc left it.
ThreadSetupFails(c) ==
  /\ "nomem" \in calls
  /\ Running(c, "allocuvm")
  /\ Goto(c, User)
  /\ UNCHANGED <<slotVars, nextpid, nexttid, kpages, owned, calls>>

\* The last critical section of fork and thread_create.
MakeRunnable(c) ==
  /\ Lock(c)
  /\ Running(c, "go")
  /\ state' = [state EXCEPT ![at[c].arg] = "RUNNABLE"]
  /\ at' = [at EXCEPT ![c] = User]
  /\ ctx' = [ctx EXCEPT ![at[c].arg] = User]
  /\ UNCHANGED <<cur, pid, parent, killed, chan, kstack, threadVars, nextpid, nexttid,
                 kpages, owned, calls>>

-----------------------------------------------------------------------------
\* exit, thread_exit and kill

\* wakeup1(q) for every q in Q, applied to the states st.
Woken(st, Q) ==
  [p \in Slots |-> IF st[p] = "SLEEPING" /\ chan[p] \in Q THEN "RUNNABLE" ELSE st[p]]

\* A system call of the program, or trap() on seeing that p was killed.  When
\* it is init that was killed, the kernel panics, and this model stops it.
CallExit(c) ==
  /\ Running(c, "user")
  /\ cur[c] # initproc
  /\ \/ killed[cur[c]]
     \/ MayCall(cur[c], IF t_flag[cur[c]] THEN "thread exit()" ELSE "exit")
  /\ Goto(c, Loc("exit", 0, FALSE))
  /\ UNCHANGED <<slotVars, nextpid, nexttid, kpages, owned, calls>>

MutReparent(p) == parent' = parent

\* Pass abandoned children to init.
Reparent(p) == parent' = [q \in Slots |-> IF parent[q] = p THEN initproc ELSE parent[q]]

\* Whom exit wakes: the parent, and init when it inherits a zombie.
ExitWakes(p) ==
  {parent[p]} \cup {q \in {initproc} : \E k \in Slots : parent[k] = p /\ state[k] = "ZOMBIE"}

MutExit(c) ==
  LET p == cur[c] IN
    /\ Lock(c)
    /\ Running(c, "exit")
    /\ state' = [state EXCEPT ![p] = "ZOMBIE"]
    /\ Reparent(p)
    /\ Sched(c, None)
    /\ UNCHANGED <<pid, killed, chan, kstack, threadVars, nextpid, nexttid, kpages, owned, calls>>

\* exit with ptable.lock held.  A process turns every slot of its group into
\* a zombie, running ones too; an LWP marks its group killed instead.
Exit(c) ==
  LET p == cur[c] IN
    /\ Lock(c)
    /\ Running(c, "exit")
    /\ state' = [q \in Slots |->
                   IF q = p \/ (ptid[q] = pid[p] /\ state[q] # "UNUSED")
                     THEN "ZOMBIE" ELSE Woken(state, ExitWakes(p))[q]]
    /\ Reparent(p)
    /\ killed' = [q \in Slots |->
                    killed[q] \/ (t_flag[p] /\ (ptid[q] = ptid[p] \/ main_thread[p] = q))]
    /\ Sched(c, None)
    /\ UNCHANGED <<pid, chan, kstack, threadVars, nextpid, nexttid, kpages, owned, calls>>

CallThreadExit(c) ==
  /\ Running(c, "user")
  /\ t_flag[cur[c]]
  /\ MayCall(cur[c], "thread_exit")
  /\ Goto(c, Loc("thread_exit", 0, FALSE))
  /\ UNCHANGED <<slotVars, nextpid, nexttid, kpages, owned, calls>>

MutThreadExit(c) ==
  LET p == cur[c] IN
    /\ Lock(c)
    /\ Running(c, "thread_exit")
    /\ state' = [Woken(state, {parent[p]}) EXCEPT ![p] = "ZOMBIE"]
    /\ Sched(c, None)
    /\ UNCHANGED <<pid, parent, killed, chan, kstack, threadVars, nextpid, nexttid,
                   kpages, owned, calls>>

\* thread_exit with ptable.lock held: wakes main_thread, and gives the LWPs
\* that this one created to init.
ThreadExit(c) ==
  LET p == cur[c]
      mine == {q \in Slots : main_thread[q] = p}
  IN
    /\ Lock(c)
    /\ Running(c, "thread_exit")
    /\ state' = [Woken(state, {main_thread[p]} \cup
                     {q \in {initproc} : \E k \in mine : state[k] = "ZOMBIE"})
                   EXCEPT ![p] = "ZOMBIE"]
    /\ main_thread' = [q \in Slots |-> IF q \in mine THEN initproc ELSE main_thread[q]]
    /\ Sched(c, None)
    /\ UNCHANGED <<pid, parent, killed, chan, kstack, t_flag, ptid, tid, nextpid,
                   nexttid, kpages, owned, calls>>

MutKill(c) ==
  /\ Lock(c)
  /\ Running(c, "user")
  /\ MayCall(cur[c], "kill")
  /\ \E n \in Pids \ {1} :
       LET match == {q \in Slots : pid[q] = n}
           q == Least(match)
       IN /\ match # {}
          /\ state[q] \notin {"UNUSED", "EMBRYO"} \/ "any pid" \in calls
          /\ killed' = [killed EXCEPT ![q] = TRUE]
  /\ Goto(c, User)
  /\ UNCHANGED <<state, pid, parent, chan, kstack, threadVars, nextpid, nexttid, kpages,
                 owned, calls>>

MutKillWakes(c) ==
  /\ Lock(c)
  /\ Running(c, "user")
  /\ MayCall(cur[c], "kill")
  /\ \E n \in Pids \ {1} :
       LET match == {q \in Slots : pid[q] = n}
           q == Least(match)
       IN /\ match # {}
          /\ state[q] \notin {"UNUSED", "EMBRYO"} \/ "any pid" \in calls
          /\ killed' = [killed EXCEPT ![q] = TRUE]
          /\ state' = [state EXCEPT ![q] = "RUNNABLE"]
  /\ Goto(c, User)
  /\ UNCHANGED <<pid, parent, chan, kstack, threadVars, nextpid, nexttid, kpages, owned, calls>>

\* kill(n): the first slot whose pid is n, whatever its state.  A program
\* knows the pids that fork returned, unless it makes one up ("any pid").
\* Killing init makes the kernel panic and is left out.
Kill(c) ==
  /\ Lock(c)
  /\ Running(c, "user")
  /\ MayCall(cur[c], "kill")
  /\ \E n \in Pids \ {1} :
       LET match == {q \in Slots : pid[q] = n}
           q == Least(match)
       IN /\ match # {}
          /\ state[q] \notin {"UNUSED", "EMBRYO"} \/ "any pid" \in calls
          /\ killed' = [killed EXCEPT ![q] = TRUE]
          /\ state' = [state EXCEPT ![q] = IF @ = "SLEEPING" THEN "RUNNABLE" ELSE @]
  /\ Goto(c, User)
  /\ UNCHANGED <<pid, parent, chan, kstack, threadVars, nextpid, nexttid, kpages, owned, calls>>

-----------------------------------------------------------------------------
\* wait and thread_join

\* At the head of wait's loop, with ptable.lock: called now, or woken.
InWait(c) ==
  /\ Lock(c)
  /\ Running(c, "wait") \/ (Running(c, "user") /\ MayCall(cur[c], "wait"))

Kids(p) == {q \in Slots : parent[q] = p}

Zombies(Q) == {q \in Q : state[q] = "ZOMBIE"}

\* The slots that wait frees with the zombie q: the ones it is main_thread of.
FreeGroup(q) == {q} \cup {k \in Slots : main_thread[k] = q}

\* wait finds a zombie child.  Only the child's own kernel stack is kfree'd.
WaitReaps(c) ==
  /\ InWait(c)
  /\ LET zombies == Zombies(Kids(cur[c]))
         q == Least(zombies)
         group == FreeGroup(q)
         lwps == group \ {q}
     IN /\ zombies # {}
        /\ state' = [k \in Slots |-> IF k \in group THEN "UNUSED" ELSE state[k]]
        /\ pid' = [k \in Slots |-> IF k \in group THEN 0 ELSE pid[k]]
        /\ parent' = [k \in Slots |-> IF k \in group THEN 0 ELSE parent[k]]
        /\ killed' = [k \in Slots |-> k \notin group /\ killed[k]]
        /\ kstack' = [k \in Slots |-> k \notin group /\ kstack[k]]
        /\ t_flag' = [k \in Slots |-> k \notin lwps /\ t_flag[k]]
        /\ tid' = [k \in Slots |-> IF k \in lwps THEN 0 ELSE tid[k]]
  /\ kpages' = kpages - 1
  /\ Goto(c, User)
  /\ UNCHANGED <<chan, main_thread, ptid, nextpid, nexttid, owned, calls>>

\* wait returns -1.
WaitFails(c) ==
  /\ InWait(c)
  /\ Zombies(Kids(cur[c])) = {}
  /\ Kids(cur[c]) = {} \/ killed[cur[c]]
  /\ Goto(c, User)
  /\ UNCHANGED <<slotVars, nextpid, nexttid, kpages, owned, calls>>

\* sleep(curproc, &ptable.lock)
WaitSleeps(c) ==
  /\ InWait(c)
  /\ Zombies(Kids(cur[c])) = {}
  /\ Kids(cur[c]) # {}
  /\ ~killed[cur[c]]
  /\ state' = [state EXCEPT ![cur[c]] = "SLEEPING"]
  /\ chan' = [chan EXCEPT ![cur[c]] = cur[c]]
  /\ Sched(c, Loc("wait", 0, FALSE))
  /\ UNCHANGED <<pid, parent, killed, kstack, threadVars, nextpid, nexttid, kpages, owned, calls>>

\* At the head of thread_join's loop for thread t.
InJoin(c, t) ==
  /\ Lock(c)
  /\ \/ Running(c, "join") /\ at[c].arg = t
     \/ Running(c, "user") /\ MayCall(cur[c], "thread_join") /\ t \in owned[cur[c]]

Lwps(p, t) == {q \in Slots : main_thread[q] = p /\ tid[q] = t}

\* thread_join finds its zombie; main_thread and ptid stay in the slot.
JoinReaps(c, t) ==
  /\ InJoin(c, t)
  /\ LET zombies == Zombies(Lwps(cur[c], t))
         q == Least(zombies)
     IN /\ zombies # {}
        /\ state' = [state EXCEPT ![q] = "UNUSED"]
        /\ pid' = [pid EXCEPT ![q] = 0]
        /\ parent' = [parent EXCEPT ![q] = 0]
        /\ killed' = [killed EXCEPT ![q] = FALSE]
        /\ kstack' = [kstack EXCEPT ![q] = FALSE]
        /\ t_flag' = [t_flag EXCEPT ![q] = FALSE]
        /\ tid' = [tid EXCEPT ![q] = 0]
  /\ owned' = [owned EXCEPT ![cur[c]] = @ \ {t}]
  /\ kpages' = kpages - 1
  /\ Goto(c, User)
  /\ UNCHANGED <<chan, main_thread, ptid, nextpid, nexttid, calls>>

\* thread_join returns -1.
JoinFails(c, t) ==
  /\ InJoin(c, t)
  /\ Zombies(Lwps(cur[c], t)) = {}
  /\ Lwps(cur[c], t) = {} \/ killed[cur[c]]
  /\ owned' = [owned EXCEPT ![cur[c]] = @ \ {t}]
  /\ Goto(c, User)
  /\ UNCHANGED <<slotVars, nextpid, nexttid, kpages, calls>>

JoinSleeps(c, t) ==
  /\ InJoin(c, t)
  /\ Zombies(Lwps(cur[c], t)) = {}
  /\ Lwps(cur[c], t) # {}
  /\ ~killed[cur[c]]
  /\ state' = [state EXCEPT ![cur[c]] = "SLEEPING"]
  /\ chan' = [chan EXCEPT ![cur[c]] = cur[c]]
  /\ Sched(c, Loc("join", t, FALSE))
  /\ UNCHANGED <<pid, parent, killed, kstack, threadVars, nextpid, nexttid, kpages, owned, calls>>

-----------------------------------------------------------------------------
\* Steps the kernel owes the slot that runs on c once a system call began, and
\* the exit that trap() makes a killed slot take.
KernelStep(c) ==
  \/ AllocStack(c) \/ ForkCopy(c) \/ ThreadSetup(c) \/ MakeRunnable(c)
  \/ Exit(c) \/ ThreadExit(c)
  \/ at[c].op = "wait" /\ (WaitReaps(c) \/ WaitFails(c) \/ WaitSleeps(c))
  \/ \E t \in 0 .. MaxPid :
       at[c].op = "join" /\ (JoinReaps(c, t) \/ JoinFails(c, t) \/ JoinSleeps(c, t))
  \/ cur[c] # 0 /\ killed[cur[c]] /\ CallExit(c)

Next ==
  \E c \in CPUs :
    \/ \E p \in Slots : Dispatch(c, p)
    \/ Preempt(c) \/ SysYield(c)
    \/ Fork(c) \/ ThreadCreate(c) \/ AllocStack(c)
    \/ ForkCopy(c) \/ ForkCopyFails(c) \/ ThreadSetup(c) \/ ThreadSetupFails(c)
    \/ MakeRunnable(c)
    \/ CallExit(c) \/ Exit(c) \/ CallThreadExit(c) \/ ThreadExit(c) \/ Kill(c)
    \/ WaitReaps(c) \/ WaitFails(c) \/ WaitSleeps(c)
    \/ \E t \in 0 .. MaxPid : JoinReaps(c, t) \/ JoinFails(c, t) \/ JoinSleeps(c, t)

Spec == Init /\ [][Next]_vars

\* The timer keeps interrupting, the scheduler's scan reaches every RUNNABLE
\* slot (module Sched), a slot that runs gets its kernel code done between two
\* ticks, and init.c is a loop around wait.
FairSpec ==
  /\ Spec
  /\ \A c \in CPUs : SF_vars(Preempt(c))
  /\ \A p \in Slots : /\ SF_vars(\E c \in CPUs : Dispatch(c, p))
                       /\ SF_vars(\E c \in CPUs : cur[c] = p /\ KernelStep(c))
  /\ SF_vars(\E c \in CPUs : cur[c] = initproc /\ WaitReaps(c))

-----------------------------------------------------------------------------
\* Properties

Alive(p) == state[p] \in {"SLEEPING", "RUNNABLE", "RUNNING"}

\* Every process but init has a parent that is alive and so can wait for it:
\* exit passes its children to init before it becomes a zombie.
NoOrphans ==
  \A p \in Slots \ {initproc} :
    (Alive(p) \/ state[p] = "ZOMBIE") /\ ~t_flag[p] => parent[p] # 0 /\ Alive(parent[p])

\* Whoever is asleep in wait has a child and none that is a zombie, and was
\* not killed; whoever is asleep in thread_join has an LWP to wait for that is
\* not a zombie: exit, thread_exit, kill and the reparenting wake them.
NoLostExit ==
  \A p \in Slots : state[p] = "SLEEPING" =>
    /\ ctx[p].op = "wait" => Kids(p) # {} /\ Zombies(Kids(p)) = {} /\ ~killed[p]
    /\ ctx[p].op = "join" =>
         Lwps(p, ctx[p].arg) # {} /\ Zombies(Lwps(p, ctx[p].arg)) = {}

StackCount ==
  /\ kpages = Cardinality({p \in Slots : kstack[p]})
  /\ \A p \in Slots : /\ Alive(p) \/ state[p] = "ZOMBIE" => kstack[p]
                      /\ state[p] = "UNUSED" => ~kstack[p]

Making == {"alloc", "copyuvm", "allocuvm", "go"}

\* Some slot's fork or thread_create, on a CPU or preempted, is filling p.
Filled(p) ==
  \/ \E c \in CPUs : cur[c] # 0 /\ at[c].op \in Making /\ at[c].arg = p
  \/ \E q \in Slots : state[q] = "RUNNABLE" /\ ctx[q].op \in Making /\ ctx[q].arg = p

\* The one case in which the code gives up a slot it allocated: thread_create
\* returns when allocuvm fails, and the slot stays EMBRYO with its kernel stack
\* for ever.
Strands == {"thread_create", "nomem"} \subseteq calls

\* Every kernel stack taken from kalloc is that of a slot in use, every slot
\* that can run has one, and a slot that cannot run yet is being filled by a
\* fork or thread_create in progress: whatever fails on the way, the slot and
\* its stack go back, once.  Two paths of the code do not keep this.
\* thread_create strands its slot, stack and all, when allocuvm fails
\* (Strands); and wait forgets the kernel stacks of the LWPs it reaps with a
\* process, which takes exit beside thread_create and is in no workload of
\* this property (module Vm counts those pages).
KstackAccounting ==
  /\ StackCount
  /\ \A p \in Slots : state[p] = "EMBRYO" => Filled(p) \/ (Strands /\ kstack[p])

\* What a CPU executes is RUNNING, no slot is on two CPUs, and what is RUNNING
\* is on a CPU: nobody frees, reuses, wakes or makes a zombie of a slot while
\* its code runs on another CPU.  exit of a process with LWPs does not keep
\* this (it makes zombies of LWPs that run elsewhere); it is in no workload of
\* this property.
OnCpu ==
  /\ \A c \in CPUs : cur[c] # 0 => state[cur[c]] = "RUNNING"
  /\ \A c, d \in CPUs : cur[c] = cur[d] /\ cur[c] # 0 => c = d
  /\ \A p \in Slots : state[p] = "RUNNING" => \E c \in CPUs : cur[c] = p

\* A zombie child of init is eventually freed.
ZombiesReaped ==
  \A p \in Slots : state[p] = "ZOMBIE" /\ parent[p] = initproc ~> state[p] = "UNUSED"

\* In programs without LWPs, a process that is killed eventually exits, also
\* when it sleeps in wait.
KilledDies ==
  \A p \in Slots : killed[p] /\ "thread_create" \notin calls ~> ~Alive(p)
=============================================================================
