----------------------------- MODULE SchedProofs -----------------------------
(***************************************************************************)
(* Proofs about spinlocks, interrupts and context switches.                *)
(***************************************************************************)
EXTENDS Sched, FiniteSetTheorems, TLAPS

\* The places of the program, by what holds there.
TicksAt == {"ticks0", "test", "slpAcq", "slpRel", "sysDone", "tick", "wakeAcq", "wakeup1",
            "wakeRel", "tickRel"}
PtableAt == {"slpRel", "slpSet", "sched", "slpBack", "wakeup1", "wakeRel", "yield", "yieldBack",
             "kill", "killRel", "exit", "scan", "schedRel", "forkret"}
TickAt == {"tickAcq", "tick", "wakeAcq", "wakeup1", "wakeRel", "tickRel", "trapKilled", "iret"}
IntrAt == TickAt \cup {"yieldAcq", "yield", "yieldBack", "trapKilled2"}
ExitAt == {"exitAcq", "exit", "dead"}
ParkedAt == {"forkret", "slpBack", "yieldBack"}
SchedAt == TickAt \cup {"sti", "schedAcq", "scan", "schedRel"}
ProcAt == IntrAt \cup ExitAt \cup
  {"forkret", "trapret", "user", "sysSleep", "ticks0", "test", "slpAcq", "slpRel", "slpSet",
   "sched", "slpBack", "slpReAcq", "sysDone", "killAcq", "kill", "killRel"}

\* The number of locks held there.
Depth(h) == (IF h \in TicksAt THEN 1 ELSE 0) + (IF h \in PtableAt THEN 1 ELSE 0)

HeldAt(l) == IF l = "ptable" THEN PtableAt ELSE TicksAt

\* Where a timer interrupt may find a context.
ResumeAt(x) == IF x \in CPUs THEN {"sti", "schedAcq"}
               ELSE {"trapret", "user", "sysSleep", "killAcq", "exitAcq", "slpReAcq"}

Contexts == CPUs \cup Procs

TypeOK ==
  /\ locked \in [Locks -> CPUs \cup {Free}]
  /\ ncli \in [CPUs -> Nat]
  /\ run \in [CPUs -> Contexts]
  /\ pc \in [Contexts -> SchedAt \cup ProcAt]
  /\ ret \in [Contexts -> SchedAt \cup ProcAt]
  /\ pstate \in [Procs -> {"RUNNABLE", "RUNNING", "SLEEPING", "ZOMBIE"}]
  /\ DOMAIN spinning = CPUs /\ DOMAIN IF_ = CPUs /\ DOMAIN intena = CPUs /\ DOMAIN saved = Procs

\* What CPU c has locked, and whether it can be interrupted, by the place
\* where it is.
CpuInv(c) ==
  LET here == pc[run[c]] IN
    /\ spinning[c] => here \in DOMAIN AcquireAt
    /\ \A l \in Locks : locked[l] = c <=> here \in HeldAt(l)
    /\ ncli[c] = Depth(here) + (IF spinning[c] THEN 1 ELSE 0)
    /\ here \notin {"trapret", "sti"} => (IF_[c] <=> ncli[c] = 0 /\ ret[run[c]] = "dead")
    /\ ncli[c] > 0 /\ here \notin {"scan", "schedRel", "forkret"} =>
         (intena[c] <=> ret[run[c]] = "dead")

\* What a context has been interrupted in.
RetInv(x) ==
  /\ pc[x] \in IntrAt => ret[x] \in ResumeAt(x)
  /\ pc[x] \in ExitAt => ret[x] \in {"dead", "user"}
  /\ pc[x] \notin IntrAt \cup ExitAt => ret[x] = "dead"
  /\ x \in Procs /\ pc[x] \in {"slpBack", "yieldBack"} => (saved[x] <=> ret[x] = "dead")

\* A CPU runs its scheduler or a process; the scheduler waits in its loop
\* meanwhile.
RunInv(c) ==
  /\ pc[c] \in SchedAt
  /\ run[c] = c \/ (run[c] \in Procs /\ pc[c] = "scan")

OneRun == \A c, d \in CPUs : c # d => run[c] # run[d]

\* A process that no CPU runs has been switched away from.
ProcInv(p) ==
  /\ pc[p] \in ProcAt
  /\ IF \E c \in CPUs : run[c] = p
       THEN pc[p] # "dead" /\ pstate[p] = (IF pc[p] = "sched" THEN "SLEEPING" ELSE "RUNNING")
       ELSE \/ pstate[p] = "RUNNABLE" /\ pc[p] \in ParkedAt
            \/ pstate[p] = "SLEEPING" /\ pc[p] = "slpBack"
            \/ pstate[p] = "ZOMBIE" /\ pc[p] = "dead"

IInv ==
  /\ TypeOK
  /\ OneRun
  /\ \A c \in CPUs : CpuInv(c) /\ RunInv(c)
  /\ \A x \in Contexts : RetInv(x)
  /\ \A p \in Procs : ProcInv(p)

------------------------------------------------------------------------------
(* What acquire() changes, call by call: one lock more, and the caller     *)
(* stays in the same part of the program.                                  *)
LEMMA AcquireTable ==
  ASSUME NEW h \in DOMAIN AcquireAt
  PROVE  LET l == AcquireAt[h][1]
             next == AcquireAt[h][2]
         IN /\ l \in Locks /\ h \notin HeldAt(l)
            /\ \A k \in Locks : next \in HeldAt(k) <=> h \in HeldAt(k) \/ k = l
            /\ Depth(next) = Depth(h) + 1 /\ Depth(h) \in Nat
            /\ h \in IntrAt <=> next \in IntrAt
            /\ h \in ExitAt <=> next \in ExitAt
            /\ h \in SchedAt <=> next \in SchedAt
            /\ h \in ProcAt <=> next \in ProcAt
            /\ h \notin ParkedAt \cup {"trapret", "sti", "sched", "dead", "schedRel", "scan"}
            /\ next \notin ParkedAt \cup {"trapret", "sti", "sched", "dead", "schedRel"}
<1> DEFINE l == AcquireAt[h][1]
           next == AcquireAt[h][2]
<1>1. h \in {"sysSleep", "slpAcq", "slpReAcq", "tickAcq", "wakeAcq", "yieldAcq", "killAcq",
             "exitAcq", "schedAcq"}
  BY Zenon DEF AcquireAt
<1>2. \/ h = "sysSleep" /\ l = "tickslock" /\ next = "ticks0"
      \/ h = "slpAcq" /\ l = "ptable" /\ next = "slpRel"
      \/ h = "slpReAcq" /\ l = "tickslock" /\ next = "test"
      \/ h = "tickAcq" /\ l = "tickslock" /\ next = "tick"
      \/ h = "wakeAcq" /\ l = "ptable" /\ next = "wakeup1"
      \/ h = "yieldAcq" /\ l = "ptable" /\ next = "yield"
      \/ h = "killAcq" /\ l = "ptable" /\ next = "kill"
      \/ h = "exitAcq" /\ l = "ptable" /\ next = "exit"
      \/ h = "schedAcq" /\ l = "ptable" /\ next = "scan"
  BY <1>1 DEF AcquireAt
<1> HIDE DEF l, next
<1>3. /\ next \in TicksAt <=> h \in TicksAt \/ l = "tickslock"
      /\ next \in PtableAt <=> h \in PtableAt \/ l = "ptable"
      /\ (l = "tickslock" /\ h \notin TicksAt) \/ (l = "ptable" /\ h \notin PtableAt)
  BY <1>2, Zenon DEF TicksAt, PtableAt
<1>4. /\ l \in Locks /\ h \notin HeldAt(l)
      /\ \A k \in Locks : next \in HeldAt(k) <=> h \in HeldAt(k) \/ k = l
  BY <1>3, Zenon DEF HeldAt, Locks
<1>5. Depth(next) = Depth(h) + 1 /\ Depth(h) \in Nat
  BY <1>3 DEF Depth
<1>6. (h \in IntrAt <=> next \in IntrAt) /\ (h \in SchedAt <=> next \in SchedAt)
  BY <1>2, Zenon DEF IntrAt, TickAt, SchedAt
<1>7. (h \in ExitAt <=> next \in ExitAt) /\ (h \in ProcAt <=> next \in ProcAt)
  BY <1>2, <1>6, Zenon DEF ExitAt, ProcAt
<1>8. /\ h \notin ParkedAt \cup {"trapret", "sti", "sched", "dead", "schedRel", "scan"}
      /\ next \notin ParkedAt \cup {"trapret", "sti", "sched", "dead", "schedRel"}
  BY <1>2, Zenon DEF ParkedAt
<1>9. QED
  BY <1>4, <1>5, <1>6, <1>7, <1>8, Zenon DEF l, next

(* What release() changes, call by call.                                   *)
LEMMA ReleaseTable ==
  ASSUME NEW h \in DOMAIN ReleaseAt
  PROVE  LET l == ReleaseAt[h][1]
             next == ReleaseAt[h][2]
         IN /\ l \in Locks /\ h \in HeldAt(l)
            /\ \A k \in Locks : next \in HeldAt(k) <=> h \in HeldAt(k) /\ k # l
            /\ Depth(next) = Depth(h) - 1 /\ Depth(h) \in Nat /\ Depth(next) \in Nat
            /\ h \notin ExitAt /\ next \notin ExitAt
            /\ h \in IntrAt <=> next \in IntrAt
            /\ h \in SchedAt <=> next \in SchedAt
            /\ h \in ProcAt <=> next \in ProcAt
            /\ h = "forkret" <=> next = "trapret"
            /\ h = "schedRel" <=> next = "sti"
            /\ h \notin {"trapret", "sti", "sched", "scan"}
            /\ next \notin {"slpBack", "yieldBack", "sched", "scan", "schedRel", "forkret"}
<1> DEFINE l == ReleaseAt[h][1]
           next == ReleaseAt[h][2]
<1>1. h \in {"forkret", "slpRel", "slpBack", "sysDone", "wakeRel", "tickRel", "yieldBack",
             "killRel", "schedRel"}
  BY Zenon DEF ReleaseAt
<1>2. \/ h = "forkret" /\ l = "ptable" /\ next = "trapret"
      \/ h = "slpRel" /\ l = "tickslock" /\ next = "slpSet"
      \/ h = "slpBack" /\ l = "ptable" /\ next = "slpReAcq"
      \/ h = "sysDone" /\ l = "tickslock" /\ next = "user"
      \/ h = "wakeRel" /\ l = "ptable" /\ next = "tickRel"
      \/ h = "tickRel" /\ l = "tickslock" /\ next = "trapKilled"
      \/ h = "yieldBack" /\ l = "ptable" /\ next = "trapKilled2"
      \/ h = "killRel" /\ l = "ptable" /\ next = "user"
      \/ h = "schedRel" /\ l = "ptable" /\ next = "sti"
  BY <1>1 DEF ReleaseAt
<1> HIDE DEF l, next
<1>3. /\ next \in TicksAt <=> h \in TicksAt /\ l # "tickslock"
      /\ next \in PtableAt <=> h \in PtableAt /\ l # "ptable"
      /\ (l = "tickslock" /\ h \in TicksAt) \/ (l = "ptable" /\ h \in PtableAt)
  BY <1>2, Zenon DEF TicksAt, PtableAt
<1>4. /\ l \in Locks /\ h \in HeldAt(l)
      /\ \A k \in Locks : next \in HeldAt(k) <=> h \in HeldAt(k) /\ k # l
  BY <1>3, Zenon DEF HeldAt, Locks
<1>5. Depth(next) = Depth(h) - 1 /\ Depth(h) \in Nat /\ Depth(next) \in Nat
  BY <1>3 DEF Depth
<1>6. (h \in IntrAt <=> next \in IntrAt) /\ (h \in SchedAt <=> next \in SchedAt)
  BY <1>2, Zenon DEF IntrAt, TickAt, SchedAt
<1>7. h \notin ExitAt /\ next \notin ExitAt /\ (h \in ProcAt <=> next \in ProcAt)
  BY <1>2, <1>6, Zenon DEF ExitAt, ProcAt
<1>8. /\ h = "forkret" <=> next = "trapret"
      /\ h = "schedRel" <=> next = "sti"
      /\ h \notin {"trapret", "sti", "sched", "scan"}
      /\ next \notin {"slpBack", "yieldBack", "sched", "scan", "schedRel", "forkret"}
  BY <1>2, Zenon
<1>9. QED
  BY <1>4, <1>5, <1>6, <1>7, <1>8, Zenon DEF l, next

(* No lock is held at the ends of an interrupt, nor where one can strike.  *)
LEMMA NoLock ==
  ASSUME NEW h \in {"sti", "schedAcq", "trapret", "user", "sysSleep", "killAcq", "exitAcq",
                    "slpReAcq", "iret", "tickAcq", "trapKilled"}
  PROVE  Depth(h) = 0 /\ \A l \in Locks : h \notin HeldAt(l)
<1>1. h \notin TicksAt /\ h \notin PtableAt
  BY Zenon DEF TicksAt, PtableAt
<1>2. QED
  BY <1>1 DEF Depth, HeldAt

------------------------------------------------------------------------------
(* CPUs and processes have different names.                                *)
LEMMA Names == CPUs \cap Procs = {} /\ Free \notin CPUs /\ Contexts = CPUs \cup Procs
BY SchedAssumption DEF CPUs, Procs, Free, Contexts

(* What the invariant says of the functions' domains.                      *)
LEMMA Doms ==
  ASSUME IInv
  PROVE  /\ DOMAIN locked = Locks /\ DOMAIN ncli = CPUs /\ DOMAIN run = CPUs
         /\ DOMAIN pc = Contexts /\ DOMAIN ret = Contexts /\ DOMAIN pstate = Procs
         /\ DOMAIN spinning = CPUs /\ DOMAIN IF_ = CPUs /\ DOMAIN intena = CPUs
BY Zenon DEF IInv, TypeOK

(* What it says of one CPU.                                                *)
LEMMA Here ==
  ASSUME IInv, NEW c \in CPUs
  PROVE  run[c] \in Contexts /\ CpuInv(c) /\ RunInv(c) /\ RetInv(run[c]) /\ ncli[c] \in Nat
BY Zenon DEF IInv, TypeOK

(* A step of another CPU does not disturb a CPU whose own data it leaves   *)
(* alone.                                                                  *)
LEMMA FrameCpu ==
  ASSUME NEW d \in CPUs, CpuInv(d),
         run'[d] = run[d], pc'[run[d]] = pc[run[d]], ret'[run[d]] = ret[run[d]],
         spinning'[d] = spinning[d], ncli'[d] = ncli[d], IF_'[d] = IF_[d], intena'[d] = intena[d],
         \A l \in Locks : locked'[l] = d <=> locked[l] = d
  PROVE  CpuInv(d)'
BY Zenon DEF CpuInv, HeldAt, Depth

\* A step of CPU c that switches no context and leaves the data of the other
\* CPUs and contexts alone.
StayOn(c) ==
  /\ run' = run /\ saved' = saved
  /\ \A x \in Contexts \ {run[c]} : pc'[x] = pc[x] /\ ret'[x] = ret[x]
  /\ \A d \in CPUs \ {c} : /\ spinning'[d] = spinning[d] /\ ncli'[d] = ncli[d]
                           /\ IF_'[d] = IF_[d] /\ intena'[d] = intena[d]
                           /\ \A l \in Locks : locked'[l] = d <=> locked[l] = d

(* Such a step only has to be looked at where c is.                        *)
LEMMA StayStep ==
  ASSUME IInv, TypeOK', NEW c \in CPUs, StayOn(c),
         CpuInv(c)',
         RetInv(run[c])',
         run[c] \in CPUs => pc'[run[c]] \in SchedAt,
         \A p \in Procs : ProcInv(p)'
  PROVE  IInv'
<1>1. /\ \A x \in Contexts : x # run[c] => pc'[x] = pc[x] /\ ret'[x] = ret[x]
      /\ run[c] \in Contexts /\ run' = run /\ saved' = saved
  BY Here, Zenon DEF StayOn
<1>2. OneRun'
  BY <1>1, Zenon DEF IInv, OneRun
<1>3. ASSUME NEW d \in CPUs, d # c
      PROVE  CpuInv(d)'
  <2>1. run[d] # run[c] /\ run[d] \in Contexts
    BY <1>3, Here, Zenon DEF IInv, OneRun
  <2>2. /\ spinning'[d] = spinning[d] /\ ncli'[d] = ncli[d]
        /\ IF_'[d] = IF_[d] /\ intena'[d] = intena[d]
        /\ \A l \in Locks : locked'[l] = d <=> locked[l] = d
    BY <1>3, Zenon DEF StayOn
  <2>3. CpuInv(d)
    BY Zenon DEF IInv
  <2>4. run'[d] = run[d] /\ pc'[run[d]] = pc[run[d]] /\ ret'[run[d]] = ret[run[d]]
    BY <1>1, <2>1, Zenon
  <2>5. QED
    BY <2>2, <2>3, <2>4, FrameCpu, Zenon
<1>4. ASSUME NEW d \in CPUs
      PROVE  RunInv(d)'
  <2>1. CASE d = run[c]
    <3>1. run[d] = d
      BY <1>4, <2>1, Names, Zenon DEF IInv, RunInv
    <3>2. QED
      BY <1>1, <2>1, <3>1, Zenon DEF RunInv
  <2>2. CASE d # run[c]
    BY <1>1, <2>2, Names, Zenon DEF IInv, RunInv
  <2>3. QED
    BY <2>1, <2>2, Zenon
<1>5. ASSUME NEW x \in Contexts
      PROVE  RetInv(x)'
  <2>1. CASE x = run[c]
    BY <1>1, <2>1, Zenon DEF RetInv
  <2>2. CASE x # run[c]
    BY <1>1, <2>2, Zenon DEF IInv, RetInv, ResumeAt
  <2>3. QED
    BY <2>1, <2>2, Zenon
<1>6. QED
  BY <1>1, <1>2, <1>3, <1>4, <1>5, Names, Zenon DEF IInv

(* A step that leaves a process and its CPU alone.                         *)
LEMMA FrameProc ==
  ASSUME NEW p \in Procs, ProcInv(p), run' = run, pc'[p] = pc[p], pstate'[p] = pstate[p]
  PROVE  ProcInv(p)'
BY Zenon DEF ProcInv

(* StayStep for the steps that change no process state.                    *)
LEMMA MoveStep ==
  ASSUME IInv, TypeOK', NEW c \in CPUs, StayOn(c), pstate' = pstate,
         CpuInv(c)',
         RetInv(run[c])',
         run[c] \in CPUs => pc'[run[c]] \in SchedAt,
         run[c] \in Procs => pc'[run[c]] \in ProcAt \ {"dead", "sched"} /\ pc[run[c]] # "sched"
  PROVE  IInv'
<1>0. run' = run
  BY Zenon DEF StayOn
<1>1. ASSUME NEW p \in Procs, p # run[c] PROVE ProcInv(p)'
  <2>1. pc'[p] = pc[p]
    BY <1>1, Names, Zenon DEF StayOn
  <2>2. QED
    BY <1>0, <2>1, FrameProc, Zenon DEF IInv
<1>2. ASSUME NEW p \in Procs, p = run[c] PROVE ProcInv(p)'
  <2>1. pstate[p] = "RUNNING"
    BY <1>2, Zenon DEF IInv, ProcInv
  <2>2. QED
    BY <1>0, <1>2, <2>1, Zenon DEF ProcInv
<1>3. QED
  BY <1>1, <1>2, StayStep, Zenon

(* Where c is after a step that changes neither its locks nor its flags.   *)
LEMMA QuietCpu ==
  ASSUME IInv, NEW c \in CPUs, NEW h, UNCHANGED cpuVars, run' = run, ret' = ret,
         pc' = [pc EXCEPT ![run[c]] = h],
         pc[run[c]] \notin DOMAIN AcquireAt, pc[run[c]] \notin {"trapret", "sti", "schedRel", "forkret"},
         pc[run[c]] = "scan" => h = "schedRel",
         \A l \in Locks : pc[run[c]] \in HeldAt(l) <=> h \in HeldAt(l),
         Depth(h) = Depth(pc[run[c]])
  PROVE  CpuInv(c)'
<1>1. CpuInv(c) /\ pc'[run[c]] = h
  BY Here, Doms, Zenon
<1>2. /\ run'[c] = run[c] /\ ret'[run[c]] = ret[run[c]] /\ locked' = locked
      /\ spinning'[c] = spinning[c] /\ ncli'[c] = ncli[c] /\ IF_'[c] = IF_[c] /\ intena'[c] = intena[c]
  BY Zenon DEF cpuVars
<1>3. ~spinning[c]
  BY <1>1, Zenon DEF CpuInv
<1>4. QED
  BY <1>1, <1>2, <1>3 DEF CpuInv, HeldAt, Depth

------------------------------------------------------------------------------
(* acquire() up to its loop: interrupts are off and counted.               *)
LEMMA AcquireBeginStep ==
  ASSUME IInv, TypeOK', NEW c \in CPUs, AcquireBegin(c)
  PROVE  IInv'
<1> DEFINE x == run[c]
           h == pc[run[c]]
<1>1. /\ h \in DOMAIN AcquireAt /\ ~spinning[c] /\ spinning' = [spinning EXCEPT ![c] = TRUE]
      /\ pushcli(c) /\ UNCHANGED <<locked, pstate, run, pc, ret, saved>>
  BY Zenon DEF AcquireBegin, procVars, ctlVars
<1>2. x \in Contexts /\ CpuInv(c) /\ RetInv(x)
  BY Here, Zenon
<1>3. /\ spinning'[c] = TRUE /\ ncli'[c] = ncli[c] + 1 /\ IF_'[c] = FALSE
      /\ intena'[c] = (IF ncli[c] = 0 THEN IF_[c] ELSE intena[c])
  BY <1>1, Here, Doms, Zenon DEF pushcli
<1>4. StayOn(c)
  BY <1>1, Here, Doms, Zenon DEF pushcli, StayOn
<1>5. CpuInv(c)'
  <2>1. ncli[c] = Depth(h) /\ Depth(h) \in Nat
    BY <1>1, <1>2, AcquireTable DEF CpuInv
  <2>2. h \notin {"trapret", "sti", "scan", "schedRel", "forkret"}
    BY <1>1, AcquireTable, Zenon DEF ParkedAt
  <2>3. intena'[c] <=> ret[x] = "dead"
    BY <1>2, <1>3, <2>1, <2>2 DEF CpuInv
  <2>4. ncli'[c] = Depth(h) + 1 /\ ncli'[c] # 0
    BY <1>3, <2>1
  <2>5. QED
    BY <1>1, <1>2, <1>3, <2>2, <2>3, <2>4, Zenon DEF CpuInv, HeldAt, Depth
<1>6. RetInv(x)'
  BY <1>1, <1>2, Zenon DEF RetInv, ResumeAt
<1>7. /\ x \in CPUs => pc'[x] \in SchedAt
      /\ x \in Procs => pc'[x] \in ProcAt \ {"dead", "sched"} /\ h # "sched"
  BY <1>1, AcquireTable, Zenon DEF IInv, RunInv, ProcInv
<1>8. QED
  BY <1>1, <1>4, <1>5, <1>6, <1>7, MoveStep, Zenon

(* The xchg of acquire() that wins.                                        *)
LEMMA AcquireEndStep ==
  ASSUME IInv, TypeOK', NEW c \in CPUs, AcquireEnd(c)
  PROVE  IInv'
<1> DEFINE x == run[c]
           h == pc[run[c]]
           l == AcquireAt[h][1]
           next == AcquireAt[h][2]
<1>1. /\ spinning[c] /\ locked[l] = Free /\ locked' = [locked EXCEPT ![l] = c]
      /\ pc' = [pc EXCEPT ![x] = next]
      /\ spinning' = [spinning EXCEPT ![c] = FALSE]
      /\ UNCHANGED <<ncli, intena, IF_, pstate, run, ret, saved>>
  BY Zenon DEF AcquireEnd, Goto, procVars
<1>2. x \in Contexts /\ CpuInv(c) /\ RetInv(x)
  BY Here, Zenon
<1> HIDE DEF l, next
<1>3. h \in DOMAIN AcquireAt /\ l \in Locks
  <2>1. h \in DOMAIN AcquireAt
    BY <1>1, <1>2, Zenon DEF CpuInv
  <2>2. QED
    BY <2>1, AcquireTable, Zenon DEF l
<1>4. spinning'[c] = FALSE /\ \A d \in CPUs \ {c} : spinning'[d] = spinning[d]
  BY <1>1, Here, Doms, Zenon
<1>5. locked'[l] = c /\ \A k \in Locks \ {l} : locked'[k] = locked[k]
  BY <1>1, <1>3, Here, Doms, Zenon
<1>6. StayOn(c)
  <2>1. \A d \in CPUs \ {c} : \A k \in Locks : locked'[k] = d <=> locked[k] = d
    BY <1>1, <1>5, Names, Zenon
  <2>2. \A y \in Contexts \ {x} : pc'[y] = pc[y] /\ ret'[y] = ret[y]
    BY <1>1, Here, Doms, Zenon
  <2>3. QED
    BY <1>1, <1>4, <2>1, <2>2, Zenon DEF StayOn
<1>7. pc'[x] = next /\ ret'[x] = ret[x]
  BY <1>1, <1>2, Here, Doms, Zenon
<1>8. /\ \A k \in Locks : next \in HeldAt(k) <=> h \in HeldAt(k) \/ k = l
      /\ Depth(next) = Depth(h) + 1 /\ Depth(h) \in Nat
      /\ h \in IntrAt <=> next \in IntrAt
      /\ h \in ExitAt <=> next \in ExitAt
      /\ h \in SchedAt <=> next \in SchedAt
      /\ h \in ProcAt <=> next \in ProcAt
      /\ h \notin {"forkret", "trapret", "sti", "schedRel", "scan", "sched"}
      /\ next \notin {"slpBack", "yieldBack", "trapret", "sti", "sched", "dead"}
  BY <1>3, AcquireTable, Zenon DEF l, next, ParkedAt
<1>9. CpuInv(c)'
  <2>1. \A k \in Locks : locked'[k] = c <=> next \in HeldAt(k)
    BY <1>2, <1>5, <1>8, Zenon DEF CpuInv
  <2>2. ncli'[c] = Depth(next) /\ ncli'[c] = ncli[c]
    BY <1>1, <1>2, <1>8, Zenon DEF CpuInv
  <2>3. QED
    BY <1>1, <1>2, <1>4, <1>7, <1>8, <2>1, <2>2 DEF CpuInv, HeldAt, Depth
<1>10. RetInv(x)'
  BY <1>1, <1>2, <1>7, <1>8, Zenon DEF RetInv, ResumeAt
<1>11. /\ x \in CPUs => pc'[x] \in SchedAt
       /\ x \in Procs => pc'[x] \in ProcAt \ {"dead", "sched"} /\ h # "sched"
  BY <1>7, <1>8, Zenon DEF IInv, RunInv, ProcInv
<1>12. QED
  BY <1>1, <1>6, <1>9, <1>10, <1>11, MoveStep, Zenon

(* release(): one lock less, and the interrupts come back with the last.   *)
LEMMA ReleaseStep ==
  ASSUME IInv, TypeOK', NEW c \in CPUs, Release(c)
  PROVE  IInv'
<1> DEFINE x == run[c]
           h == pc[run[c]]
           l == ReleaseAt[h][1]
           next == ReleaseAt[h][2]
<1>1. /\ h \in DOMAIN ReleaseAt /\ locked' = [locked EXCEPT ![l] = Free]
      /\ pc' = [pc EXCEPT ![x] = next]
      /\ ncli' = [ncli EXCEPT ![c] = @ - 1]
      /\ IF_' = [IF_ EXCEPT ![c] = @ \/ (ncli[c] = 1 /\ intena[c])]
      /\ UNCHANGED <<spinning, intena, pstate, run, ret, saved>>
  BY Zenon DEF Release, popcli, Goto, procVars
<1> HIDE DEF l, next
<1>2. x \in Contexts /\ CpuInv(c) /\ RetInv(x)
  BY Here, Zenon
<1>3. /\ IF_'[c] = (IF_[c] \/ (ncli[c] = 1 /\ intena[c]))
      /\ ncli'[c] = ncli[c] - 1
      /\ \A d \in CPUs \ {c} : IF_'[d] = IF_[d] /\ ncli'[d] = ncli[d]
  BY <1>1, Here, Doms, Zenon
<1>4. pc'[x] = next /\ ret'[x] = ret[x] /\ \A y \in Contexts \ {x} : pc'[y] = pc[y] /\ ret'[y] = ret[y]
  BY <1>1, <1>2, Here, Doms, Zenon
<1>5. l \in Locks /\ locked'[l] = Free /\ \A k \in Locks \ {l} : locked'[k] = locked[k]
  <2>1. l \in Locks
    BY <1>1, ReleaseTable, Zenon DEF l
  <2>2. QED
    BY <1>1, <2>1, Here, Doms, Zenon
<1>6. locked[l] = c
  <2>1. h \in HeldAt(l)
    BY <1>1, ReleaseTable, Zenon DEF l
  <2>2. QED
    BY <1>2, <1>5, <2>1, Zenon DEF CpuInv
<1>7. StayOn(c)
  <2>1. \A d \in CPUs \ {c} : \A k \in Locks : locked'[k] = d <=> locked[k] = d
    BY <1>5, <1>6, Names, Zenon
  <2>2. QED
    BY <1>1, <1>3, <1>4, <2>1, Zenon DEF StayOn
<1>8. /\ \A k \in Locks : next \in HeldAt(k) <=> h \in HeldAt(k) /\ k # l
      /\ Depth(next) = Depth(h) - 1 /\ Depth(h) \in Nat /\ Depth(next) \in Nat
      /\ h \notin ExitAt /\ next \notin ExitAt
      /\ h \in IntrAt <=> next \in IntrAt
      /\ h \in SchedAt <=> next \in SchedAt
      /\ h \in ProcAt <=> next \in ProcAt
      /\ h = "forkret" <=> next = "trapret"
      /\ h = "schedRel" <=> next = "sti"
      /\ h \notin {"trapret", "sti", "sched", "scan"}
      /\ next \notin {"slpBack", "yieldBack", "sched", "scan", "schedRel", "forkret"}
  BY <1>1, ReleaseTable, Zenon DEF l, next
<1>9. ~spinning[c]
  BY <1>1, <1>2, Zenon DEF CpuInv, AcquireAt, ReleaseAt
<1>10. CpuInv(c)'
  <2>1. \A k \in Locks : locked'[k] = c <=> next \in HeldAt(k)
    BY <1>2, <1>5, <1>8, Names, Zenon DEF CpuInv
  <2>2. ncli[c] = Depth(h) /\ ncli'[c] = Depth(next) /\ ncli[c] = ncli'[c] + 1 /\ ncli'[c] \in Nat
    BY <1>2, <1>3, <1>8, <1>9 DEF CpuInv
  <2>3. ~IF_[c] /\ (h \notin {"schedRel", "forkret"} => (intena[c] <=> ret[x] = "dead"))
    BY <1>2, <1>8, <2>2 DEF CpuInv
  <2>4. next \notin {"trapret", "sti"} => (IF_'[c] <=> ncli'[c] = 0 /\ ret[x] = "dead")
    <3>1. ncli[c] = 1 <=> ncli'[c] = 0
      BY <2>2
    <3>2. next \notin {"trapret", "sti"} => (intena[c] <=> ret[x] = "dead")
      BY <1>8, <2>3, Zenon
    <3>3. IF_'[c] <=> ncli[c] = 1 /\ intena[c]
      BY <1>3, <2>3, Zenon
    <3>4. QED
      BY <3>1, <3>2, <3>3, Zenon
  <2>5. ncli'[c] > 0 => (intena[c] <=> ret[x] = "dead") \/ next \in {"trapret", "sti"}
    BY <1>8, <2>3, Zenon
  <2>6. next \in {"trapret", "sti"} => ncli'[c] = 0
    BY <2>2 DEF Depth, TicksAt, PtableAt
  <2>7. QED
    BY <1>1, <1>4, <1>9, <2>1, <2>2, <2>4, <2>5, <2>6 DEF CpuInv, HeldAt, Depth
<1>11. RetInv(x)'
  BY <1>1, <1>2, <1>4, <1>8 DEF RetInv, ResumeAt
<1>12. /\ x \in CPUs => pc'[x] \in SchedAt
       /\ x \in Procs => pc'[x] \in ProcAt \ {"dead", "sched"} /\ h # "sched"
  BY <1>4, <1>8, Zenon DEF IInv, RunInv, ProcInv, ExitAt
<1>13. QED
  BY <1>1, <1>7, <1>10, <1>11, <1>12, MoveStep, Zenon

\* The steps of a system call, of the timer interrupt or of the scheduler
\* that take and give back no lock.
QuietMove(c, h) ==
  \/ <<pc[run[c]], h>> \in {<<"scan", "schedRel">>, <<"tick", "wakeAcq">>, <<"ticks0", "test">>,
       <<"test", "sysDone">>, <<"test", "slpAcq">>, <<"user", "exitAcq">>, <<"user", "sysSleep">>,
       <<"user", "killAcq">>}
  \/ /\ pc[run[c]] \in {"trapKilled", "trapKilled2"}
     /\ \/ h = "exitAcq" /\ run[c] \in Procs /\ ret[run[c]] = "user"
        \/ h = "yieldAcq" /\ run[c] \in Procs
        \/ h = "iret"

(* They keep the invariant.                                                *)
LEMMA QuietStep ==
  ASSUME IInv, TypeOK', NEW c \in CPUs, NEW h, UNCHANGED <<cpuVars, run, ret, saved, pstate>>,
         pc' = [pc EXCEPT ![run[c]] = h], QuietMove(c, h)
  PROVE  IInv'
<1> DEFINE x == run[c]
           g == pc[run[c]]
<1>1. x \in Contexts /\ pc'[x] = h /\ ret'[x] = ret[x] /\ RetInv(x)
  BY Here, Doms, Zenon
<1>2. StayOn(c)
  BY Here, Doms, Zenon DEF StayOn, cpuVars
<1>3. CpuInv(c)'
  <2>1. /\ g \notin DOMAIN AcquireAt /\ g \notin {"trapret", "sti", "schedRel", "forkret"}
        /\ g = "scan" => h = "schedRel"
    BY Zenon DEF QuietMove, AcquireAt
  <2>2. /\ \A l \in Locks : g \in HeldAt(l) <=> h \in HeldAt(l)
        /\ Depth(h) = Depth(g)
    <3>1. (g \in TicksAt <=> h \in TicksAt) /\ (g \in PtableAt <=> h \in PtableAt)
      BY Zenon DEF QuietMove, TicksAt, PtableAt
    <3>2. QED
      BY <3>1, Zenon DEF HeldAt, Depth
  <2>3. QED
    BY <2>1, <2>2, QuietCpu, Zenon
<1>4. RetInv(x)'
  BY <1>1, Zenon DEF QuietMove, RetInv, ResumeAt, IntrAt, TickAt, ExitAt
<1>5. x \in CPUs => pc'[x] \in SchedAt
  <2>1. ASSUME x \in CPUs PROVE g \in SchedAt
    BY <2>1, Zenon DEF IInv, RunInv
  <2>2. QED
    BY <1>1, <2>1, Names, Zenon DEF QuietMove, SchedAt, TickAt
<1>6. x \in Procs => pc'[x] \in ProcAt \ {"dead", "sched"} /\ g # "sched"
  <2>1. ASSUME x \in Procs PROVE g \in ProcAt
    BY <2>1, Zenon DEF IInv, ProcInv
  <2>2. QED
    BY <1>1, <2>1, Zenon DEF QuietMove, ProcAt, IntrAt, TickAt, ExitAt
<1>7. QED
  BY <1>1, <1>2, <1>3, <1>4, <1>5, <1>6, MoveStep, Zenon

\* The steps that set or clear the interrupt flag outside of pushcli and
\* popcli: sti, the interrupt itself, and the two ways back to user code.
FlagMove(c, h, r, b) ==
  /\ UNCHANGED <<locked, spinning, ncli, intena, pstate, run, saved>>
  /\ IF_' = [IF_ EXCEPT ![c] = b]
  /\ pc' = [pc EXCEPT ![run[c]] = h] /\ ret' = [ret EXCEPT ![run[c]] = r]
  /\ ~spinning[c] /\ ncli[c] = 0 /\ Depth(h) = 0
  /\ \A l \in Locks : h \notin HeldAt(l) /\ pc[run[c]] \notin HeldAt(l)
  /\ h \notin {"trapret", "sti"} => (b <=> r = "dead")
  /\ run[c] \in CPUs => h \in SchedAt
  /\ run[c] \in Procs => h \in ProcAt \ {"dead", "sched"} /\ pc[run[c]] # "sched"

(* They keep the invariant.                                                *)
LEMMA FlagStep ==
  ASSUME IInv, TypeOK', NEW c \in CPUs, NEW h, NEW r, NEW b, FlagMove(c, h, r, b), RetInv(run[c])'
  PROVE  IInv'
<1>0. /\ UNCHANGED <<locked, spinning, ncli, intena, pstate, run, saved>>
      /\ IF_' = [IF_ EXCEPT ![c] = b]
      /\ pc' = [pc EXCEPT ![run[c]] = h] /\ ret' = [ret EXCEPT ![run[c]] = r]
  BY Zenon DEF FlagMove
<1>1. /\ run[c] \in Contexts /\ pc'[run[c]] = h /\ ret'[run[c]] = r
      /\ \A y \in Contexts \ {run[c]} : pc'[y] = pc[y] /\ ret'[y] = ret[y]
  BY <1>0, Here, Doms, Zenon
<1>2. IF_'[c] = b /\ \A d \in CPUs \ {c} : IF_'[d] = IF_[d]
  BY <1>0, Here, Doms, Zenon
<1>3. StayOn(c)
  BY <1>0, <1>1, <1>2, Zenon DEF StayOn
<1>4. CpuInv(c)'
  <2>1. \A l \in Locks : locked[l] # c
    BY Zenon DEF FlagMove, IInv, CpuInv
  <2>2. QED
    BY <1>1, <1>2, <2>1 DEF FlagMove, CpuInv, HeldAt, Depth
<1>5. QED
  BY <1>0, <1>1, <1>3, <1>4, MoveStep, Zenon DEF FlagMove

(* sti in scheduler(), and trapret, by which a new process enters user     *)
(* code.                                                                   *)
LEMMA StiStep ==
  ASSUME IInv, TypeOK', NEW c \in CPUs, Sti(c) \/ Trapret(c)
  PROVE  IInv'
<1>1. PICK h : /\ <<pc[run[c]], h>> \in {<<"sti", "schedAcq">>, <<"trapret", "user">>}
               /\ IF_' = [IF_ EXCEPT ![c] = TRUE]
               /\ pc' = [pc EXCEPT ![run[c]] = h]
               /\ UNCHANGED <<locked, spinning, ncli, intena, pstate, run, ret, saved>>
  BY DEF Sti, Trapret, At, Goto, procVars
<1>2. run[c] \in Contexts /\ RetInv(run[c]) /\ CpuInv(c)
  BY Here, Zenon
<1>3. ret[run[c]] = "dead" /\ ~spinning[c]
  BY <1>1, <1>2, Zenon DEF RetInv, CpuInv, IntrAt, TickAt, ExitAt, AcquireAt
<1>4. /\ ncli[c] = 0 /\ Depth(h) = 0
      /\ \A l \in Locks : h \notin HeldAt(l) /\ pc[run[c]] \notin HeldAt(l)
  <2>1. /\ Depth(h) = 0 /\ \A l \in Locks : h \notin HeldAt(l)
        /\ Depth(pc[run[c]]) = 0 /\ \A l \in Locks : pc[run[c]] \notin HeldAt(l)
    BY <1>1, NoLock, Zenon
  <2>2. ncli[c] = Depth(pc[run[c]]) + 0
    BY <1>2, <1>3, Zenon DEF CpuInv
  <2>3. QED
    BY <2>1, <2>2
<1>5. ret' = [ret EXCEPT ![run[c]] = "dead"] /\ pc'[run[c]] = h /\ ret'[run[c]] = "dead"
  <2>1. ret \in [Contexts -> SchedAt \cup ProcAt]
    BY Zenon DEF IInv, TypeOK
  <2>2. QED
    BY <1>1, <1>2, <1>3, <2>1, Doms, Zenon
<1>6. RetInv(run[c])'
  BY <1>1, <1>5, Zenon DEF RetInv, IntrAt, TickAt, ExitAt
<1>7. /\ run[c] \in CPUs => h \in SchedAt
      /\ run[c] \in Procs => h \in ProcAt \ {"dead", "sched"} /\ pc[run[c]] # "sched"
  <2>1. run[c] \in CPUs => pc[run[c]] \in SchedAt
    BY Zenon DEF IInv, RunInv
  <2>2. run[c] \in Procs => pc[run[c]] \in ProcAt
    BY Zenon DEF IInv, ProcInv
  <2>3. QED
    BY <1>1, <2>1, <2>2, Zenon DEF ProcAt, IntrAt, TickAt, ExitAt, SchedAt
<1>8. /\ UNCHANGED <<locked, spinning, ncli, intena, pstate, run, saved>>
      /\ IF_' = [IF_ EXCEPT ![c] = TRUE] /\ pc' = [pc EXCEPT ![run[c]] = h]
  BY <1>1, Zenon
<1>9. QED
  BY <1>3, <1>4, <1>5, <1>6, <1>7, <1>8, FlagStep, Zenon DEF FlagMove

(* iret: the interrupted context goes on where it was.                     *)
LEMMA IretStep ==
  ASSUME IInv, TypeOK', NEW c \in CPUs, Iret(c)
  PROVE  IInv'
<1> DEFINE h == ret[run[c]]
<1>1. /\ pc[run[c]] = "iret" /\ IF_' = [IF_ EXCEPT ![c] = TRUE]
      /\ pc' = [pc EXCEPT ![run[c]] = h] /\ ret' = [ret EXCEPT ![run[c]] = "dead"]
      /\ UNCHANGED <<locked, spinning, ncli, intena, pstate, run, saved>>
  BY Zenon DEF Iret, At, Goto, procVars
<1>2. run[c] \in Contexts /\ RetInv(run[c]) /\ CpuInv(c)
  BY Here, Zenon
<1>3. h \in ResumeAt(run[c]) /\ ~spinning[c]
  BY <1>1, <1>2, Zenon DEF RetInv, CpuInv, IntrAt, TickAt, AcquireAt
<1>4. h \in {"sti", "schedAcq", "trapret", "user", "sysSleep", "killAcq", "exitAcq", "slpReAcq"}
  BY <1>3, Zenon DEF ResumeAt
<1> HIDE DEF h
<1>5. /\ ncli[c] = 0 /\ Depth(h) = 0
      /\ \A l \in Locks : h \notin HeldAt(l) /\ "iret" \notin HeldAt(l)
  <2>1. Depth(h) = 0 /\ \A l \in Locks : h \notin HeldAt(l) /\ "iret" \notin HeldAt(l)
    BY <1>4, NoLock, Zenon
  <2>2. ncli[c] = 0
    BY <1>1, <1>2, <1>3, NoLock DEF CpuInv
  <2>3. QED
    BY <2>1, <2>2, Zenon
<1>6. pc'[run[c]] = h /\ ret'[run[c]] = "dead"
  BY <1>1, <1>2, Here, Doms, Zenon
<1>7. RetInv(run[c])'
  BY <1>1, <1>4, <1>6, Zenon DEF RetInv, IntrAt, TickAt, ExitAt
<1>8. run[c] \in CPUs => h \in SchedAt
  BY <1>3, Zenon DEF ResumeAt, SchedAt
<1>9. run[c] \in Procs => h \in ProcAt \ {"dead", "sched"} /\ pc[run[c]] # "sched"
  BY <1>1, <1>3, Names, Zenon DEF ResumeAt, ProcAt, ExitAt
<1>10. QED
  BY <1>1, <1>3, <1>5, <1>7, <1>8, <1>9, FlagStep, Zenon DEF FlagMove

(* The timer interrupt finds a CPU that holds no lock.                     *)
LEMMA TimerStep ==
  ASSUME IInv, TypeOK', NEW c \in CPUs, Timer(c)
  PROVE  IInv'
<1> DEFINE x == run[c]
           g == pc[run[c]]
           h == IF c = 100 THEN "tickAcq" ELSE "trapKilled"
<1>1. /\ IF_[c] /\ IF_' = [IF_ EXCEPT ![c] = FALSE]
      /\ pc' = [pc EXCEPT ![x] = h] /\ ret' = [ret EXCEPT ![x] = g]
      /\ UNCHANGED <<locked, spinning, ncli, intena, pstate, run, saved>>
  BY Zenon DEF Timer, Goto, procVars
<1>2. x \in Contexts /\ RetInv(x) /\ CpuInv(c)
  BY Here, Doms, Zenon
<1>3. ncli[c] = 0 /\ ret[x] = "dead" /\ ~spinning[c]
  <2>1. CASE g \in {"trapret", "sti"}
    <3>1. g \notin IntrAt \cup ExitAt /\ g \notin DOMAIN AcquireAt /\ Depth(g) = 0
      BY <2>1, NoLock, Zenon DEF IntrAt, TickAt, ExitAt, AcquireAt
    <3>2. QED
      BY <1>2, <3>1 DEF RetInv, CpuInv
  <2>2. CASE g \notin {"trapret", "sti"}
    <3>1. ncli[c] = 0 /\ ret[x] = "dead"
      BY <1>1, <1>2, <2>2, Zenon DEF CpuInv
    <3>2. ~spinning[c]
      <4>1. ASSUME spinning[c] PROVE FALSE
        <5>1. g \in DOMAIN AcquireAt
          BY <1>2, <4>1, Zenon DEF CpuInv
        <5>2. Depth(g) \in Nat /\ ncli[c] = Depth(g) + 1
          BY <1>2, <4>1, <5>1, AcquireTable, Zenon DEF CpuInv
        <5>3. QED
          BY <3>1, <5>2
      <4>2. QED
        BY <4>1, Zenon
    <3>3. QED
      BY <3>1, <3>2, Zenon
  <2>3. QED
    BY <2>1, <2>2, Zenon
<1>4. g \notin TicksAt /\ g \notin PtableAt
  BY <1>2, <1>3 DEF CpuInv, Depth
<1>5. g \notin IntrAt
  BY <1>2, <1>3, Zenon DEF RetInv, ResumeAt
<1>6. x \in CPUs => g \in ResumeAt(x)
  <2>1. x \in CPUs => g \in SchedAt
    BY Zenon DEF IInv, RunInv
  <2>2. QED
    BY <1>4, <1>5, <2>1, Zenon DEF SchedAt, IntrAt, PtableAt, ResumeAt
<1>7. x \in Procs => g \in ResumeAt(x)
  <2>1. x \in Procs => g \in ProcAt /\ g # "dead"
    BY Zenon DEF IInv, ProcInv
  <2>2. QED
    BY <1>4, <1>5, <2>1, Names, Zenon DEF ProcAt, ExitAt, TicksAt, PtableAt, ResumeAt
<1>8. g # "dead" /\ g # "sched" /\ g \in ResumeAt(x)
  BY <1>2, <1>6, <1>7, Names, Zenon DEF ResumeAt
<1>9. h \in {"tickAcq", "trapKilled"}
  BY Zenon
<1> HIDE DEF h
<1>10. /\ Depth(h) = 0 /\ h \in IntrAt /\ h \in SchedAt /\ h \in ProcAt /\ h \notin ExitAt
       /\ \A l \in Locks : h \notin HeldAt(l) /\ g \notin HeldAt(l)
  BY <1>4, <1>9 DEF HeldAt, Depth, TicksAt, PtableAt, IntrAt, TickAt, SchedAt, ProcAt, ExitAt
<1>11. pc'[x] = h /\ ret'[x] = g
  BY <1>1, <1>2, Here, Doms, Zenon
<1>12. RetInv(x)'
  BY <1>1, <1>8, <1>9, <1>10, <1>11, Zenon DEF RetInv, ResumeAt
<1>13. h \notin {"trapret", "sti"} => (FALSE <=> g = "dead")
  BY <1>8, Zenon
<1>14. QED
  BY <1>1, <1>3, <1>8, <1>9, <1>10, <1>12, <1>13, FlagStep, Zenon DEF FlagMove

------------------------------------------------------------------------------
(* Only one CPU is at a place where ptable.lock is held.                   *)
LEMMA PtableOwner ==
  ASSUME IInv, NEW c \in CPUs, NEW d \in CPUs, pc[run[c]] \in PtableAt, pc[run[d]] \in PtableAt
  PROVE  c = d
<1>1. "ptable" \in Locks /\ HeldAt("ptable") = PtableAt
  BY Zenon DEF Locks, HeldAt
<1>2. locked["ptable"] = c /\ locked["ptable"] = d
  BY <1>1 DEF IInv, CpuInv
<1>3. QED
  BY <1>2, Zenon

(* The steps that change the state of processes without a switch: wakeup1  *)
(* and kill() make sleepers RUNNABLE, sleep() marks its caller.  The lock  *)
(* keeps a process that is about to switch away out of their reach.        *)
LEMMA StateStep ==
  ASSUME IInv, TypeOK', NEW c \in CPUs,
         wakeup1(c) \/ SleepSet(c) \/ \E p \in Procs : KillBody(c, p)
  PROVE  IInv'
<1> DEFINE x == run[c]
           g == pc[run[c]]
<1>0. /\ UNCHANGED <<cpuVars, run, ret, saved>>
      /\ \/ /\ g = "slpSet" /\ pc' = [pc EXCEPT ![x] = "sched"]
            /\ x \in Procs /\ pstate' = [pstate EXCEPT ![x] = "SLEEPING"]
         \/ /\ \/ g = "wakeup1" /\ pc' = [pc EXCEPT ![x] = "wakeRel"]
               \/ g = "kill" /\ pc' = [pc EXCEPT ![x] = "killRel"]
            /\ \A p \in Procs : pstate'[p] # pstate[p] => pstate[p] = "SLEEPING" /\ pstate'[p] = "RUNNABLE"
  <2>1. CASE wakeup1(c)
    BY <2>1, Zenon DEF wakeup1, At, Goto
  <2>2. CASE SleepSet(c)
    BY <2>2, Zenon DEF SleepSet, At, Goto
  <2>3. CASE \E p \in Procs : KillBody(c, p)
    BY <2>3 DEF KillBody, Step, At, Goto, IInv, TypeOK
  <2>4. QED
    BY <2>1, <2>2, <2>3, Zenon
<1>1. PICK h : /\ <<g, h>> \in {<<"wakeup1", "wakeRel">>, <<"slpSet", "sched">>, <<"kill", "killRel">>}
               /\ pc' = [pc EXCEPT ![x] = h] /\ UNCHANGED <<cpuVars, run, ret, saved>>
               /\ g # "slpSet" =>
                    \A p \in Procs : pstate'[p] # pstate[p] => pstate[p] = "SLEEPING" /\ pstate'[p] = "RUNNABLE"
               /\ g = "slpSet" =>
                    x \in Procs /\ pstate' = [pstate EXCEPT ![x] = "SLEEPING"]
  BY <1>0
<1>2. x \in Contexts /\ pc'[x] = h /\ ret'[x] = ret[x] /\ RetInv(x)
  BY <1>1, Zenon DEF IInv, TypeOK
<1>3. StayOn(c)
  BY <1>1, Zenon DEF StayOn, cpuVars, IInv, TypeOK
<1>4. CpuInv(c)'
  <2>1. /\ g \notin DOMAIN AcquireAt /\ g \notin {"trapret", "sti", "schedRel", "forkret"}
        /\ g = "scan" => h = "schedRel"
    BY <1>1, Zenon DEF AcquireAt
  <2>2. /\ \A l \in Locks : g \in HeldAt(l) <=> h \in HeldAt(l)
        /\ Depth(h) = Depth(g)
    BY <1>1, Zenon DEF HeldAt, Depth, TicksAt, PtableAt
  <2>3. QED
    BY <1>1, <2>1, <2>2, QuietCpu, Zenon
<1>5. RetInv(x)'
  BY <1>1, <1>2, Zenon DEF RetInv, ResumeAt, IntrAt, TickAt, ExitAt
<1>6. x \in CPUs => pc'[x] \in SchedAt
  <2>1. ASSUME x \in CPUs PROVE g \in SchedAt
    BY <2>1, Zenon DEF IInv, RunInv
  <2>2. QED
    BY <1>1, <1>2, <2>1, Names, Zenon DEF SchedAt, TickAt
<1>7. ASSUME NEW p \in Procs, p = x PROVE ProcInv(p)'
  <2>1. g \in ProcAt /\ g # "sched" /\ pstate[p] = "RUNNING"
    BY <1>1, <1>7, Zenon DEF IInv, ProcInv
  <2>2. h \in ProcAt /\ h # "dead"
    BY <1>1, <2>1, Zenon DEF ProcAt, IntrAt, TickAt
  <2>3. pstate'[p] = (IF h = "sched" THEN "SLEEPING" ELSE "RUNNING")
    BY <1>1, <1>7, <2>1 DEF IInv, TypeOK
  <2>4. QED
    BY <1>1, <1>2, <1>7, <2>2, <2>3 DEF ProcInv
<1>8. ASSUME NEW p \in Procs, p # x PROVE ProcInv(p)'
  <2>1. pc'[p] = pc[p] /\ ProcInv(p)
    BY <1>3, <1>8, Names, Zenon DEF StayOn, IInv
  <2>2. CASE pstate'[p] = pstate[p]
    BY <1>1, <2>1, <2>2, FrameProc, Zenon
  <2>3. CASE pstate'[p] # pstate[p]
    <3>1. pstate[p] = "SLEEPING" /\ pstate'[p] = "RUNNABLE" /\ g # "slpSet"
      BY <1>1, <1>8, <2>3 DEF IInv, TypeOK
    <3>2. ASSUME NEW d \in CPUs, run[d] = p PROVE FALSE
      <4>1. pc[run[d]] = "sched"
        BY <2>1, <3>1, <3>2, Zenon DEF ProcInv
      <4>2. c = d
        BY <1>1, <4>1, PtableOwner, Zenon DEF PtableAt
      <4>3. QED
        BY <1>8, <3>2, <4>2, Zenon
    <3>3. pc[p] = "slpBack"
      BY <2>1, <3>1, <3>2, Zenon DEF ProcInv
    <3>4. QED
      BY <1>1, <2>1, <3>1, <3>2, <3>3 DEF ProcInv, ParkedAt
  <2>4. QED
    BY <2>2, <2>3, Zenon
<1>9. QED
  BY <1>3, <1>4, <1>5, <1>6, <1>7, <1>8, StayStep, Zenon

(* swtch in scheduler(): the CPU continues inside the process, with        *)
(* ptable.lock held on its behalf and the intena the process had.          *)
LEMMA DispatchStep ==
  ASSUME IInv, TypeOK', NEW c \in CPUs, Dispatch(c)
  PROVE  IInv'
<1>1. PICK p \in Procs :
        /\ pstate[p] = "RUNNABLE" /\ pstate' = [pstate EXCEPT ![p] = "RUNNING"]
        /\ run' = [run EXCEPT ![c] = p]
        /\ intena' = [intena EXCEPT ![c] = IF pc[p] = "forkret" THEN @ ELSE saved[p]]
        /\ pc[run[c]] = "scan" /\ UNCHANGED <<locked, spinning, ncli, IF_, pc, ret, saved>>
  BY Zenon DEF Dispatch, At, RestoreIntena, RunnableFrom
<1>2. run[c] = c
  <2>1. "scan" \notin ProcAt
    BY Zenon DEF ProcAt, IntrAt, TickAt, ExitAt
  <2>2. QED
    BY <1>1, <2>1 DEF IInv, RunInv, ProcInv
<1>3. (\A d \in CPUs : run[d] # p) /\ pc[p] \in ParkedAt /\ pc[p] \in ProcAt
  BY <1>1, Zenon DEF IInv, ProcInv
<1>4. run'[c] = p /\ \A d \in CPUs \ {c} : run'[d] = run[d]
  BY <1>1, Zenon DEF IInv, TypeOK
<1>5. OneRun'
  BY <1>3, <1>4, Zenon DEF IInv, OneRun
<1>6. intena'[c] = (IF pc[p] = "forkret" THEN intena[c] ELSE saved[p])
      /\ \A d \in CPUs \ {c} : intena'[d] = intena[d]
  BY <1>1, Zenon DEF IInv, TypeOK
<1>7. CpuInv(c)'
  <2>1. CpuInv(c) /\ RetInv(p)
    BY Names, Zenon DEF IInv
  <2>2. /\ Depth("scan") = 1 /\ Depth(pc[p]) = 1
        /\ \A l \in Locks : "scan" \in HeldAt(l) <=> pc[p] \in HeldAt(l)
        /\ "scan" \notin DOMAIN AcquireAt /\ pc[p] \notin {"trapret", "sti"}
    BY <1>3 DEF Depth, TicksAt, PtableAt, HeldAt, ParkedAt, AcquireAt
  <2>3. ~spinning[c] /\ ncli[c] = 1 /\ ~IF_[c]
    BY <1>1, <2>1, <2>2 DEF CpuInv
  <2>4. \A l \in Locks : locked[l] = c <=> pc[p] \in HeldAt(l)
    BY <1>1, <2>1, <2>2, Zenon DEF CpuInv
  <2>5. pc[p] # "forkret" => (intena'[c] <=> ret[p] = "dead")
    BY <1>3, <1>6, <2>1, Zenon DEF RetInv, ParkedAt
  <2>6. QED
    BY <1>1, <1>4, <2>2, <2>3, <2>4, <2>5 DEF CpuInv, HeldAt, Depth
<1>8. ASSUME NEW d \in CPUs, d # c PROVE CpuInv(d)'
  BY <1>1, <1>4, <1>6, <1>8, FrameCpu, Zenon DEF IInv
<1>9. \A d \in CPUs : RunInv(d)'
  BY <1>1, <1>2, <1>4 DEF IInv, RunInv
<1>10. \A x \in Contexts : RetInv(x)'
  BY <1>1, Zenon DEF IInv, RetInv, ResumeAt
<1>11. ProcInv(p)'
  <2>1. pstate'[p] = "RUNNING" /\ pc[p] \notin {"dead", "sched"}
    BY <1>1, <1>3, Zenon DEF IInv, TypeOK, ParkedAt
  <2>2. QED
    BY <1>1, <1>3, <1>4, <2>1, Zenon DEF ProcInv
<1>12. ASSUME NEW q \in Procs, q # p PROVE ProcInv(q)'
  <2>1. pstate'[q] = pstate[q] /\ ProcInv(q)
    BY <1>1, <1>12, Zenon DEF IInv, TypeOK
  <2>2. (\E d \in CPUs : run'[d] = q) <=> (\E d \in CPUs : run[d] = q)
    BY <1>2, <1>4, <1>12, Names, Zenon
  <2>3. QED
    BY <1>1, <2>1, <2>2, Zenon DEF ProcInv
<1>13. QED
  BY <1>5, <1>7, <1>8, <1>9, <1>10, <1>11, <1>12 DEF IInv

(* sched(): yield(), sleep() and exit() leave the CPU to its scheduler,    *)
(* which finds ptable.lock held, and the process parked.                   *)
LEMMA SwitchStep ==
  ASSUME IInv, TypeOK', NEW c \in CPUs, Yield(c) \/ SleepSwitch(c) \/ Exit(c)
  PROVE  IInv'
<1>0. PICK p \in Procs :
        /\ run[c] = p /\ saved' = [saved EXCEPT ![p] = intena[c]]
        /\ run' = [run EXCEPT ![c] = c] /\ UNCHANGED <<cpuVars, ret>>
        /\ \/ /\ pc[p] = "yield" /\ pc' = [pc EXCEPT ![p] = "yieldBack"]
              /\ pstate' = [pstate EXCEPT ![p] = "RUNNABLE"]
           \/ /\ pc[p] = "sched" /\ pc' = [pc EXCEPT ![p] = "slpBack"]
              /\ pstate' = pstate
           \/ /\ pc[p] = "exit" /\ pc' = [pc EXCEPT ![p] = "dead"]
              /\ pstate' = [pstate EXCEPT ![p] = "ZOMBIE"]
  BY Zenon DEF Yield, SleepSwitch, Exit, Switch, At, procVars
<1>1. PICK h :
        /\ <<pc[p], h>> \in {<<"yield", "yieldBack">>, <<"sched", "slpBack">>, <<"exit", "dead">>}
        /\ run[c] = p /\ saved' = [saved EXCEPT ![p] = intena[c]]
        /\ run' = [run EXCEPT ![c] = c]
        /\ pc' = [pc EXCEPT ![p] = h] /\ UNCHANGED <<cpuVars, ret>>
        /\ pc[p] = "yield" => pstate' = [pstate EXCEPT ![p] = "RUNNABLE"]
        /\ pc[p] = "sched" => pstate' = pstate
        /\ pc[p] = "exit" => pstate' = [pstate EXCEPT ![p] = "ZOMBIE"]
  BY <1>0
<1>2. /\ p \in Contexts /\ c \in Contexts /\ p # c
      /\ pc'[p] = h /\ \A y \in Contexts \ {p} : pc'[y] = pc[y]
      /\ saved'[p] = intena[c] /\ \A q \in Procs \ {p} : saved'[q] = saved[q]
  BY <1>1, Names DEF IInv, TypeOK
<1>3. run'[c] = c /\ \A d \in CPUs \ {c} : run'[d] = run[d] /\ run[d] # p /\ run[d] # c
  <2>1. \A d \in CPUs \ {c} : run'[d] = run[d] /\ run[d] # p
    BY <1>1, Zenon DEF IInv, TypeOK, OneRun
  <2>2. \A d \in CPUs \ {c} : run[d] = d \/ run[d] \in Procs
    BY Zenon DEF IInv, RunInv
  <2>3. QED
    BY <1>1, <2>1, <2>2, Names DEF IInv, TypeOK
<1>4. pc[c] = "scan"
  BY <1>1, <1>2, Zenon DEF IInv, RunInv
<1>5. CpuInv(c) /\ RetInv(p) /\ RetInv(c) /\ ProcInv(p)
  BY <1>2, Zenon DEF IInv
<1>6. OneRun'
  BY <1>3, Zenon DEF IInv, OneRun
<1>7. /\ Depth(pc[p]) = 1 /\ Depth("scan") = 1
      /\ \A l \in Locks : pc[p] \in HeldAt(l) <=> "scan" \in HeldAt(l)
      /\ pc[p] \notin DOMAIN AcquireAt
  BY <1>1 DEF Depth, TicksAt, PtableAt, HeldAt, AcquireAt
<1>8. ~spinning[c] /\ ncli[c] = 1 /\ ~IF_[c] /\ (intena[c] <=> ret[p] = "dead")
  BY <1>1, <1>5, <1>7 DEF CpuInv
<1>9. CpuInv(c)'
  <2>1. \A l \in Locks : locked[l] = c <=> "scan" \in HeldAt(l)
    BY <1>1, <1>5, <1>7, Zenon DEF CpuInv
  <2>2. pc'[c] = "scan" /\ locked' = locked /\ spinning' = spinning /\ ncli' = ncli /\ IF_' = IF_
    BY <1>1, <1>2, <1>4, Zenon DEF cpuVars
  <2>3. QED
    BY <1>3, <1>7, <1>8, <2>1, <2>2 DEF CpuInv, HeldAt, Depth
<1>10. ASSUME NEW d \in CPUs, d # c PROVE CpuInv(d)'
  <2>1. run'[d] = run[d] /\ pc'[run[d]] = pc[run[d]] /\ ret'[run[d]] = ret[run[d]]
    BY <1>1, <1>2, <1>3, <1>10 DEF IInv, TypeOK
  <2>2. /\ spinning'[d] = spinning[d] /\ ncli'[d] = ncli[d] /\ IF_'[d] = IF_[d] /\ intena'[d] = intena[d]
        /\ \A l \in Locks : locked'[l] = d <=> locked[l] = d
    BY <1>1, Zenon DEF cpuVars
  <2>3. CpuInv(d)
    BY Zenon DEF IInv
  <2>4. QED
    BY <2>1, <2>2, <2>3, FrameCpu, Zenon
<1>11. \A d \in CPUs : RunInv(d)'
  BY <1>2, <1>3, Names, Zenon DEF IInv, RunInv
<1>12. ASSUME NEW x \in Contexts PROVE RetInv(x)'
  <2>1. CASE x = p
    BY <1>1, <1>2, <1>5, <1>8, <2>1 DEF RetInv, ResumeAt, IntrAt, TickAt, ExitAt
  <2>2. CASE x # p
    BY <1>1, <1>2, <2>2 DEF IInv, RetInv, ResumeAt
  <2>3. QED
    BY <2>1, <2>2, Zenon
<1>13. ProcInv(p)'
  <2>1. \A d \in CPUs : run'[d] # p
    BY <1>2, <1>3, Zenon
  <2>2. /\ pc[p] = "yield" => pstate'[p] = "RUNNABLE"
        /\ pc[p] = "sched" => pstate'[p] = "SLEEPING"
        /\ pc[p] = "exit" => pstate'[p] = "ZOMBIE"
    BY <1>1, <1>5 DEF IInv, TypeOK, ProcInv
  <2>3. h \in ProcAt
    BY <1>1, Zenon DEF ProcAt, IntrAt, ExitAt
  <2>4. QED
    BY <1>1, <1>2, <2>1, <2>2, <2>3, Zenon DEF ProcInv, ParkedAt
<1>14. ASSUME NEW q \in Procs, q # p PROVE ProcInv(q)'
  <2>1. pstate'[q] = pstate[q] /\ pc'[q] = pc[q] /\ ProcInv(q)
    BY <1>1, <1>2, <1>14, Names DEF IInv, TypeOK
  <2>2. (\E d \in CPUs : run'[d] = q) <=> (\E d \in CPUs : run[d] = q)
    BY <1>1, <1>3, <1>14, Names, Zenon
  <2>3. QED
    BY <2>1, <2>2, Zenon DEF ProcInv
<1>15. QED
  BY <1>6, <1>9, <1>10, <1>11, <1>12, <1>13, <1>14 DEF IInv

------------------------------------------------------------------------------
(* Every step keeps the types.                                             *)
LEMMA TypeStep ==
  ASSUME IInv, Next
  PROVE  TypeOK'
<1> DEFINE Labels == SchedAt \cup ProcAt
<1>0. TypeOK
  BY Zenon DEF IInv
<1>1. PICK c \in CPUs : CpuStep(c) \/ AcquireEnd(c) \/ Timer(c) \/ \E p \in Procs : SysEnter(c, p)
  BY Zenon DEF Next
<1>2. CpuInv(c) /\ ncli[c] \in Nat /\ run[c] \in Contexts
  BY Zenon DEF IInv, TypeOK
<1>3. CASE AcquireBegin(c)
  BY <1>0, <1>3 DEF TypeOK, AcquireBegin, pushcli, procVars, ctlVars
<1>4. CASE AcquireEnd(c)
  <2>1. pc[run[c]] \in DOMAIN AcquireAt
    BY <1>2, <1>4, Zenon DEF CpuInv, AcquireEnd
  <2>2. AcquireAt[pc[run[c]]][1] \in Locks /\ AcquireAt[pc[run[c]]][2] \in Labels
    BY <2>1 DEF AcquireAt, Locks, SchedAt, ProcAt, IntrAt, TickAt, ExitAt
  <2>3. QED
    BY <1>0, <1>4, <2>2, Zenon DEF TypeOK, AcquireEnd, Goto, procVars
<1>5. CASE Release(c)
  <2>1. pc[run[c]] \in DOMAIN ReleaseAt
    BY <1>5, Zenon DEF Release
  <2>2. ReleaseAt[pc[run[c]]][1] \in Locks /\ ReleaseAt[pc[run[c]]][2] \in Labels
    BY <2>1 DEF ReleaseAt, Locks, SchedAt, ProcAt, IntrAt, TickAt, ExitAt
  <2>3. ncli[c] - 1 \in Nat
    BY <1>2, <2>1, ReleaseTable DEF CpuInv
  <2>4. QED
    BY <1>0, <1>5, <2>2, <2>3, Zenon DEF TypeOK, Release, popcli, Goto, procVars
<1> USE DEF SchedAt, ProcAt, IntrAt, TickAt, ExitAt
<1>6. CASE Sti(c) \/ Trapret(c) \/ Timer(c) \/ Iret(c)
  BY <1>0, <1>2, <1>6 DEF TypeOK, Sti, Trapret, Timer, Iret, Goto, procVars
<1>7. CASE ScanEnds(c) \/ Tick(c) \/ TrapEnd(c)
  BY <1>0, <1>7 DEF TypeOK, ScanEnds, Tick, TrapEnd, Goto, procVars, cpuVars
<1>8. CASE \E p \in Procs : SysEnter(c, p) \/ SetTicks0(c, p) \/ SleepTest(c, p)
  BY <1>0, <1>8 DEF TypeOK, SysEnter, SetTicks0, SleepTest, Step, Goto, procVars, cpuVars
<1>9. CASE wakeup1(c) \/ SleepSet(c) \/ \E p \in Procs : KillBody(c, p)
  BY <1>0, <1>9 DEF TypeOK, wakeup1, SleepSet, KillBody, Step, Goto, cpuVars
<1>10. CASE Dispatch(c)
  BY <1>0, <1>10 DEF TypeOK, Dispatch, RestoreIntena, RunnableFrom, Contexts
<1>11. CASE Yield(c) \/ SleepSwitch(c) \/ Exit(c)
  BY <1>0, <1>11 DEF TypeOK, Yield, SleepSwitch, Exit, Switch, procVars, cpuVars, Contexts
<1>12. QED
  BY <1>1, <1>3, <1>4, <1>5, <1>6, <1>7, <1>8, <1>9, <1>10, <1>11, Zenon DEF CpuStep

(* The state in which the CPUs enter scheduler().                          *)
LEMMA InitStep ==
  ASSUME Init
  PROVE  IInv
<1>1. TypeOK
  BY Zenon DEF Init, TypeOK, Contexts, SchedAt, ProcAt, ExitAt
<1>2. \A c \in CPUs : run[c] = c /\ pc[c] = "sti"
  BY Zenon DEF Init
<1>3. \A p \in Procs : pc[p] = "forkret" /\ pstate[p] = "RUNNABLE"
  BY Names, Zenon DEF Init
<1>4. OneRun
  BY <1>2, Zenon DEF OneRun
<1>5. ASSUME NEW c \in CPUs PROVE CpuInv(c) /\ RunInv(c)
  <2>1. ~spinning[c] /\ ncli[c] = 0 /\ \A l \in Locks : locked[l] # c
    BY Names, Zenon DEF Init
  <2>2. QED
    BY <1>2, <2>1 DEF CpuInv, RunInv, HeldAt, Depth, TicksAt, PtableAt, SchedAt
<1>6. ASSUME NEW x \in Contexts PROVE RetInv(x)
  <2>1. ret[x] = "dead" /\ pc[x] \in {"sti", "forkret"}
    BY Zenon DEF Init, Contexts
  <2>2. QED
    BY <2>1, Zenon DEF RetInv, IntrAt, TickAt, ExitAt
<1>7. \A p \in Procs : ProcInv(p)
  BY <1>2, <1>3, Names DEF ProcInv, ParkedAt, ProcAt
<1>8. QED
  BY <1>1, <1>4, <1>5, <1>6, <1>7, Zenon DEF IInv

(* The steps without a lock, a flag or a change of state.                  *)
LEMMA PlainStep ==
  ASSUME IInv, TypeOK', NEW c \in CPUs,
         \/ ScanEnds(c) \/ Tick(c) \/ TrapEnd(c)
         \/ \E p \in Procs : SysEnter(c, p) \/ SetTicks0(c, p) \/ SleepTest(c, p)
  PROVE  IInv'
<1>1. CASE ScanEnds(c)
  BY <1>1, QuietStep, Zenon DEF QuietMove, ScanEnds, At, Goto, procVars
<1>2. CASE Tick(c)
  BY <1>2, QuietStep, Zenon DEF QuietMove, Tick, At, Goto
<1>3. CASE TrapEnd(c)
  BY <1>3, QuietStep, Zenon DEF QuietMove, TrapEnd, At, Goto, procVars, InterruptedUser
<1>4. ASSUME NEW p \in Procs, SysEnter(c, p) \/ SetTicks0(c, p) \/ SleepTest(c, p)
      PROVE  IInv'
  BY <1>4, QuietStep, Zenon DEF QuietMove, SysEnter, SetTicks0, SleepTest, Step, At, Goto, procVars
<1>5. QED
  BY <1>1, <1>2, <1>3, <1>4, Zenon

(* The inductive invariant of the kernel's locking and switching.          *)
THEOREM SchedInductive == Spec => []IInv
<1>1. Init => IInv
  BY InitStep, Zenon
<1>2. IInv /\ [Next]_vars => IInv'
  <2>1. SUFFICES ASSUME IInv, [Next]_vars PROVE IInv'
    BY Zenon
  <2>2. CASE UNCHANGED vars
    <3>1. UNCHANGED <<locked, spinning, ncli, intena, IF_, run, pc, ret, saved, pstate>>
      BY <2>2, Zenon DEF vars, cpuVars, procVars, ctlVars
    <3>2. TypeOK' /\ OneRun'
      BY <2>1, <3>1, Zenon DEF IInv, TypeOK, OneRun
    <3>3. ASSUME NEW c \in CPUs PROVE CpuInv(c)' /\ RunInv(c)'
      BY <2>1, <3>1 DEF IInv, CpuInv, RunInv, HeldAt, Depth
    <3>4. \A x \in Contexts : RetInv(x)'
      BY <2>1, <3>1, Zenon DEF IInv, RetInv, ResumeAt
    <3>5. \A p \in Procs : ProcInv(p)'
      BY <2>1, <3>1, Zenon DEF IInv, ProcInv
    <3>6. QED
      BY <3>2, <3>3, <3>4, <3>5, Zenon DEF IInv
  <2>3. CASE Next
    <3>1. TypeOK'
      BY <2>1, <2>3, TypeStep, Zenon
    <3>2. PICK c \in CPUs : CpuStep(c) \/ AcquireEnd(c) \/ Timer(c) \/ \E p \in Procs : SysEnter(c, p)
      BY <2>3, Zenon DEF Next
    <3>3. QED
      BY <2>1, <3>1, <3>2, AcquireBeginStep, AcquireEndStep, ReleaseStep, StiStep, IretStep, TimerStep,
         StateStep, DispatchStep, SwitchStep, PlainStep, Zenon DEF CpuStep
  <2>4. QED
    BY <2>1, <2>2, <2>3, Zenon
<1>3. QED
  BY <1>1, <1>2, PTL DEF Spec

(* No process runs on two CPUs and every RUNNING process runs on one,      *)
(* whatever the number of CPUs and processes: scheduler(), sched() and     *)
(* sleep() hand ptable.lock over the switch.                               *)
THEOREM OneStackHolds == Spec => []OneStack
<1>1. IInv => OneStack
  BY Zenon DEF IInv, OneRun, ProcInv, OneStack
<1>2. QED
  BY <1>1, SchedInductive, PTL

(* acquire, release, popcli and sched never reach one of their panics, and *)
(* nothing runs after exit()'s sched() returned.                           *)
THEOREM NoPanicHolds == Spec => []NoPanic
<1>1. ASSUME IInv, NEW c \in CPUs
      PROVE  LET here == pc[run[c]] IN
               /\ spinning[c] => locked[AcquireAt[here][1]] # c
               /\ here \in DOMAIN ReleaseAt =>
                    locked[ReleaseAt[here][1]] = c /\ ncli[c] > 0 /\ ~IF_[c]
               /\ here \in {"sched", "yield", "exit"} =>
                    Holding(c) = {"ptable"} /\ ncli[c] = 1 /\ ~IF_[c]
               /\ here # "dead"
  <2> DEFINE here == pc[run[c]]
  <2>1. CpuInv(c)
    BY <1>1, Zenon DEF IInv
  <2>2. spinning[c] => locked[AcquireAt[here][1]] # c
    BY <2>1, AcquireTable, Zenon DEF CpuInv
  <2>3. ASSUME here \in DOMAIN ReleaseAt
        PROVE  locked[ReleaseAt[here][1]] = c /\ ncli[c] > 0 /\ ~IF_[c]
    <3>1. ~spinning[c]
      BY <2>1, <2>3, Zenon DEF CpuInv, AcquireAt, ReleaseAt
    <3>2. /\ locked[ReleaseAt[here][1]] = c /\ ncli[c] = Depth(here) /\ ncli[c] > 0
          /\ here \notin {"trapret", "sti"}
      BY <2>1, <2>3, <3>1, ReleaseTable DEF CpuInv
    <3>3. QED
      BY <2>1, <3>2 DEF CpuInv
  <2>4. ASSUME here \in {"sched", "yield", "exit"}
        PROVE  Holding(c) = {"ptable"} /\ ncli[c] = 1 /\ ~IF_[c]
    <3>1. /\ here \notin DOMAIN AcquireAt /\ Depth(here) = 1
          /\ here \in HeldAt("ptable") /\ here \notin HeldAt("tickslock")
      BY <2>4 DEF AcquireAt, Depth, HeldAt, TicksAt, PtableAt
    <3>2. ncli[c] = 1 /\ ~IF_[c]
      BY <2>1, <2>4, <3>1 DEF CpuInv
    <3>3. QED
      BY <2>1, <3>1, <3>2, Zenon DEF CpuInv, Holding, Locks
  <2>5. here # "dead"
    BY <1>1 DEF IInv, ProcInv, RunInv, SchedAt, TickAt
  <2>6. QED
    BY <2>2, <2>3, <2>4, <2>5, Zenon
<1>2. IInv => NoPanic
  BY <1>1, Zenon DEF NoPanic
<1>3. QED
  BY <1>2, SchedInductive, PTL

(* Interrupts are off exactly where acquire, release, the trap gates and   *)
(* the scheduler mean them to be, and ncli counts the locks.               *)
THEOREM InterruptsHold == Spec => []InterruptDiscipline
<1>1. ASSUME IInv, NEW c \in CPUs
      PROVE  /\ ncli[c] = Cardinality(Holding(c)) + (IF spinning[c] THEN 1 ELSE 0)
             /\ \/ At(c, "trapret") \/ At(c, "sti")
                \/ IF_[c] <=> ncli[c] = 0 /\ ret[run[c]] = "dead"
  <2> DEFINE here == pc[run[c]]
  <2>1. CpuInv(c)
    BY <1>1, Zenon DEF IInv
  <2>2. Cardinality(Holding(c)) = Depth(here)
    <3>1. /\ "tickslock" \in Holding(c) <=> here \in TicksAt
          /\ "ptable" \in Holding(c) <=> here \in PtableAt
          /\ Holding(c) \subseteq {"tickslock", "ptable"}
      BY <2>1, Zenon DEF CpuInv, Holding, Locks, HeldAt
    <3>2. /\ Cardinality({}) = 0 /\ Cardinality({"tickslock"}) = 1 /\ Cardinality({"ptable"}) = 1
          /\ Cardinality({"tickslock", "ptable"}) = 2
      <4>1. Cardinality({}) = 0
        BY FS_EmptySet, Zenon
      <4>2. IsFiniteSet({"tickslock"}) /\ Cardinality({"tickslock"}) = 1 /\ Cardinality({"ptable"}) = 1
        BY FS_Singleton, Zenon
      <4>3. Cardinality({"tickslock"} \cup {"ptable"}) = Cardinality({"tickslock"}) + 1
        BY <4>2, FS_AddElement, Zenon
      <4>4. {"tickslock"} \cup {"ptable"} = {"tickslock", "ptable"}
        BY Zenon
      <4>5. QED
        BY <4>1, <4>2, <4>3, <4>4
    <3>3. Holding(c) = {} \/ Holding(c) = {"tickslock"} \/ Holding(c) = {"ptable"}
          \/ Holding(c) = {"tickslock", "ptable"}
      BY <3>1, Zenon
    <3>4. QED
      BY <3>1, <3>2, <3>3 DEF Depth
  <2>3. QED
    BY <2>1, <2>2, Zenon DEF CpuInv, At
<1>2. IInv => InterruptDiscipline
  BY <1>1, Zenon DEF InterruptDiscipline
<1>3. QED
  BY <1>2, SchedInductive, PTL
==============================================================================
