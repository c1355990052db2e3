----------------------------- MODULE ProcSteps ------------------------------
(***************************************************************************)
(* The inductive invariant PInv of the process table of proc.c (its reason *)
(* is explained in ProcProofs), and that every step keeps it.              *)
(*                                                                         *)
(* The step lemmas (LocalStep to JoinReapStep) say what each kind of       *)
(* change to the table does to the invariant; the action lemmas (LocalAct  *)
(* to JoinReapsAct) show which of them every action of Proc is.            *)
(***************************************************************************)
EXTENDS Proc, TLAPS

States == {"UNUSED", "EMBRYO", "SLEEPING", "RUNNABLE", "RUNNING", "ZOMBIE"}
Ops == {"user", "none", "alloc", "copyuvm", "allocuvm", "go", "exit", "thread_exit", "wait", "join"}
Locs == [op : Ops, arg : Nat, thread : BOOLEAN]

\* No program makes up pids, and one that uses LWPs neither forks, exits nor
\* kills.
Apart(w) ==
  /\ "any pid" \notin w
  /\ "thread_create" \in w => w \cap {"fork", "exit", "thread exit()", "kill"} = {}
Separate == \A w \in Workloads : Apart(w)

\* What the count of stacks and the scans of the table need of finite sets,
\* proved in ProcProofs.
SlotSets ==
  /\ \A S \in SUBSET Slots : Cardinality(S) \in Nat
  /\ \A S \in SUBSET Slots : \A n \in Slots \ S : Cardinality(S \cup {n}) = Cardinality(S) + 1
  /\ \A S \in SUBSET Slots : \A n \in S : Cardinality(S \ {n}) = Cardinality(S) - 1
  /\ \A n \in Slots : Cardinality({n}) = 1
  /\ \A S \in SUBSET Slots : S # {} => Least(S) \in S

Types ==
  /\ state \in [Slots -> States]
  /\ pid \in [Slots -> Nat] /\ ptid \in [Slots -> Nat] /\ tid \in [Slots -> Nat]
  /\ parent \in [Slots -> Slots \cup {0}]
  /\ main_thread \in [Slots -> Slots \cup {0}]
  /\ chan \in [Slots -> Slots \cup {0}]
  /\ DOMAIN killed = Slots /\ DOMAIN kstack = Slots /\ DOMAIN t_flag = Slots
  /\ nextpid \in Nat /\ nexttid \in Nat /\ kpages \in Int
  /\ cur \in [CPUs -> Slots \cup {0}]
  /\ at \in [CPUs -> Locs] /\ ctx \in [Slots -> Locs]
  /\ owned \in [Slots -> SUBSET Nat]

\* Where the code of slot p is, on a CPU or not.
loc ==
  [p \in Slots |-> IF state[p] = "RUNNING" THEN at[CHOOSE c \in CPUs : cur[c] = p] ELSE ctx[p]]

Makes(p) == Alive(p) /\ loc[p].op \in Making
New(p) == loc[p].arg

\* The slot that p's fork or thread_create fills.
Embryo(p) ==
  /\ New(p) \in Slots /\ state[New(p)] = "EMBRYO" /\ owned[New(p)] = {}
  /\ kstack[New(p)] <=> loc[p].op # "alloc"
  /\ loc[p].op # "go" => parent[New(p)] = 0 /\ ~t_flag[New(p)]
  /\ loc[p].op = "go" /\ loc[p].thread =>
       t_flag[New(p)] /\ parent[New(p)] = 0 /\ main_thread[New(p)] = p
  /\ loc[p].op = "go" /\ ~loc[p].thread => ~t_flag[New(p)] /\ parent[New(p)] = p
  /\ loc[p].op = "allocuvm" => loc[p].thread
  /\ loc[p].op = "copyuvm" => ~loc[p].thread
Embryos ==
  /\ \A p \in Slots : Makes(p) => Embryo(p)
  /\ \A p, q \in Slots : Makes(p) /\ Makes(q) /\ New(p) = New(q) => p = q

InitLives ==
  /\ Alive(initproc) /\ ~t_flag[initproc] /\ parent[initproc] = 0
  /\ loc[initproc].op \notin {"exit", "thread_exit", "allocuvm", "join"}
  /\ Makes(initproc) => ~loc[initproc].thread

Sleepers == \A p \in Slots : state[p] = "SLEEPING" => chan[p] = p /\ loc[p].op \in {"wait", "join"}

Parented(p) ==
  /\ parent[p] \in Slots \cup {0} /\ parent[p] # p
  /\ state[p] = "UNUSED" \/ t_flag[p] => parent[p] = 0
Parents == \A p \in Slots : Parented(p)

\* Programs without LWPs.
Plain(p) ==
  /\ ~t_flag[p] /\ main_thread[p] = 0 /\ owned[p] = {}
  /\ loc[p].op \notin {"join", "thread_exit", "allocuvm"} /\ ~loc[p].thread
PidsKnown ==
  /\ \A p \in Slots : (state[p] # "UNUSED" => ptid[p] = pid[p] /\ pid[p] # 0) /\ pid[p] < nextpid
  /\ \A p, q \in Slots : pid[p] = pid[q] /\ pid[p] # 0 => p = q
  /\ nextpid > 0
NoLwps == "thread_create" \notin calls => PidsKnown /\ \A p \in Slots : Plain(p)

\* Programs of LWPs: q is the LWP t of p.
Created(p, t, q) == main_thread[q] = p /\ tid[q] = t /\ t_flag[q]
Backed(p, t, q) ==
  /\ Created(p, t, q)
  /\ Alive(q) \/ state[q] = "ZOMBIE" \/ (loc[p].op = "go" /\ loc[p].thread /\ New(p) = q)
Lwp(p) ==
  /\ ~killed[p] /\ loc[p].op # "exit"
  /\ state[p] = "ZOMBIE" => t_flag[p]
  /\ Alive(p) /\ loc[p].op = "thread_exit" => t_flag[p]
  /\ Alive(p) /\ ~t_flag[p] /\ p # initproc => parent[p] = initproc
  /\ Makes(p) /\ ~loc[p].thread => p = initproc
  /\ Alive(p) /\ loc[p].op = "join" => loc[p].arg \in owned[p]
OwnedReal(p) == Alive(p) => \A t \in owned[p] : \E q \in Slots : Backed(p, t, q)
JoinReal(p) ==
  state[p] = "SLEEPING" /\ loc[p].op = "join" => \E q \in Slots : Created(p, loc[p].arg, q) /\ Alive(q)
OnlyLwps == "thread_create" \in calls => \A p \in Slots : Lwp(p) /\ OwnedReal(p) /\ JoinReal(p)

\* NoLostExit, with loc.
WaitOk(p) == loc[p].op = "wait" => Kids(p) # {} /\ Zombies(Kids(p)) = {} /\ ~killed[p]
JoinOk(p) == loc[p].op = "join" => Lwps(p, loc[p].arg) # {} /\ Zombies(Lwps(p, loc[p].arg)) = {}
Waiters == \A p \in Slots : state[p] = "SLEEPING" => WaitOk(p) /\ JoinOk(p)

SInv ==
  /\ Apart(calls) /\ Embryos /\ InitLives /\ Sleepers /\ Parents /\ NoLwps /\ OnlyLwps
  /\ NoOrphans /\ Waiters /\ StackCount

PInv == Types /\ OnCpu /\ SInv

-----------------------------------------------------------------------------
\* A CPU runs a slot that is RUNNING, and no other CPU runs it.
LEMMA CurIs ==
  ASSUME Types, OnCpu
  PROVE  \A c \in CPUs : cur[c] # 0 =>
           cur[c] \in Slots /\ state[cur[c]] = "RUNNING" /\ \A d \in CPUs : cur[d] = cur[c] => d = c
<1>1. \A c \in CPUs : cur[c] \in Slots \cup {0}
  BY Zenon DEF Types
<1> QED
  BY <1>1, Zenon DEF OnCpu

\* What runs on a CPU is where that CPU is.
LEMMA LocRunning ==
  ASSUME Types, OnCpu, NEW c \in CPUs, cur[c] # 0
  PROVE  cur[c] \in Slots /\ state[cur[c]] = "RUNNING" /\ loc[cur[c]] = at[c]
<1>1. cur[c] \in Slots /\ state[cur[c]] = "RUNNING"
  BY ZenonT(30) DEF Types, OnCpu
<1>2. (CHOOSE d \in CPUs : cur[d] = cur[c]) = c
  BY Zenon DEF OnCpu
<1> QED
  BY <1>1, <1>2, Zenon DEF loc

\* What does not run is where its saved context is (swtch).
LEMMA LocIdle ==
  \A p \in Slots : state[p] # "RUNNING" => loc[p] = ctx[p]
BY Zenon DEF loc

\* A step of the running code moves its own slot and no other.
LEMMA LocGoto ==
  ASSUME Types, OnCpu, NEW c \in CPUs, NEW l, cur[c] # 0, Goto(c, l),
         \A p \in Slots : state'[p] = "RUNNING" <=> state[p] = "RUNNING"
  PROVE  OnCpu' /\ loc'[cur[c]] = l /\ \A p \in Slots : p # cur[c] => loc'[p] = loc[p]
<1>1. at' = [at EXCEPT ![c] = l] /\ cur' = cur /\ ctx' = ctx
  BY Zenon DEF Goto
<1>2. at'[c] = l /\ \A d \in CPUs : d # c => at'[d] = at[d]
  BY <1>1, Zenon DEF Types
<1>3. OnCpu'
  <2>1. \A d \in CPUs : cur[d] # 0 => state'[cur[d]] = "RUNNING"
    BY CurIs, Zenon
  <2>2. \A p \in Slots : state'[p] = "RUNNING" => \E d \in CPUs : cur[d] = p
    BY Zenon DEF OnCpu
  <2>3. \A d, e \in CPUs : cur[d] = cur[e] /\ cur[d] # 0 => d = e
    BY Zenon DEF OnCpu
  <2> QED
    BY <1>1, <2>1, <2>2, <2>3, Zenon DEF OnCpu
<1>4. cur[c] \in Slots /\ state[cur[c]] = "RUNNING"
  BY LocRunning, Zenon
<1>5. \A p \in Slots : loc'[p] = IF state[p] = "RUNNING" THEN at'[CHOOSE d \in CPUs : cur[d] = p] ELSE ctx[p]
  <2>1. \A p \in Slots : loc'[p] = IF state'[p] = "RUNNING" THEN at'[CHOOSE d \in CPUs : cur'[d] = p] ELSE ctx'[p]
    BY Zenon DEF loc
  <2>2. \A p \in Slots : (CHOOSE d \in CPUs : cur'[d] = p) = CHOOSE d \in CPUs : cur[d] = p
    BY <1>1, Zenon
  <2> QED
    BY <1>1, <2>1, <2>2, Zenon
<1>6. (CHOOSE d \in CPUs : cur[d] = cur[c]) = c
  BY Zenon DEF OnCpu
<1>7. loc'[cur[c]] = l
  BY <1>2, <1>4, <1>5, <1>6, Zenon
<1>8. ASSUME NEW p \in Slots, p # cur[c] PROVE loc'[p] = loc[p]
  <2>1. CASE state[p] = "RUNNING"
    <3>1. PICK d \in CPUs : cur[d] = p
      BY <2>1, Zenon DEF OnCpu
    <3>2. (CHOOSE e \in CPUs : cur[e] = p) \in CPUs /\ cur[CHOOSE e \in CPUs : cur[e] = p] = p
      BY <3>1, Zenon
    <3>3. (CHOOSE e \in CPUs : cur[e] = p) # c
      BY <1>8, <3>2, Zenon
    <3> QED
      BY <1>2, <1>5, <2>1, <3>2, <3>3, Zenon DEF loc
  <2>2. CASE state[p] # "RUNNING"
    BY <1>5, <2>2, Zenon DEF loc
  <2> QED
    BY <2>1, <2>2, Zenon
<1> QED
  BY <1>3, <1>7, <1>8, Zenon

\* sched() saves where the running code is and moves no slot.
LEMMA LocSched ==
  ASSUME Types, OnCpu, NEW c \in CPUs, NEW l, cur[c] # 0, Sched(c, l),
         \A p \in Slots : state'[p] = "RUNNING" <=> state[p] = "RUNNING" /\ p # cur[c]
  PROVE  OnCpu' /\ loc'[cur[c]] = l /\ \A p \in Slots : p # cur[c] => loc'[p] = loc[p]
<1>1. /\ ctx' = [ctx EXCEPT ![cur[c]] = l]
      /\ cur' = [cur EXCEPT ![c] = 0]
      /\ at' = [at EXCEPT ![c] = None]
  BY Zenon DEF Sched
<1>2. cur[c] \in Slots /\ state[cur[c]] = "RUNNING"
  BY LocRunning, Zenon
<1>3. /\ cur'[c] = 0 /\ \A d \in CPUs : d # c => cur'[d] = cur[d] /\ at'[d] = at[d]
      /\ ctx'[cur[c]] = l /\ \A p \in Slots : p # cur[c] => ctx'[p] = ctx[p]
  BY <1>1, <1>2, Zenon DEF Types
<1>4. OnCpu'
  <2>1. ASSUME NEW d \in CPUs, cur'[d] # 0 PROVE state'[cur'[d]] = "RUNNING" /\ d # c /\ cur'[d] = cur[d]
    <3>1. d # c /\ cur'[d] = cur[d]
      BY <1>3, <2>1, Zenon
    <3>2. cur[d] \in Slots /\ state[cur[d]] = "RUNNING" /\ cur[d] # cur[c]
      BY <2>1, <3>1, CurIs, Zenon
    <3> QED
      BY <3>1, <3>2, Zenon
  <2>2. ASSUME NEW p \in Slots, state'[p] = "RUNNING" PROVE \E d \in CPUs : cur'[d] = p
    <3>1. state[p] = "RUNNING" /\ p # cur[c]
      BY <2>2, Zenon
    <3>2. PICK d \in CPUs : cur[d] = p
      BY <3>1, Zenon DEF OnCpu
    <3> QED
      BY <1>3, <3>1, <3>2, Zenon
  <2>3. ASSUME NEW d \in CPUs, NEW e \in CPUs, cur'[d] = cur'[e], cur'[d] # 0 PROVE d = e
    <3>1. cur[d] = cur[e] /\ cur[d] # 0
      BY <2>1, <2>3, Zenon
    <3> QED
      BY <3>1, Zenon DEF OnCpu
  <2> QED
    BY <2>1, <2>2, <2>3, Zenon DEF OnCpu
<1>5. state'[cur[c]] # "RUNNING"
  BY <1>2, Zenon
<1>6. loc'[cur[c]] = l
  BY <1>2, <1>3, <1>5, LocIdle, Zenon DEF loc
<1>7. ASSUME NEW p \in Slots, p # cur[c] PROVE loc'[p] = loc[p]
  <2>1. CASE state[p] = "RUNNING"
    <3>0. state'[p] = "RUNNING"
      BY <1>7, <2>1, Zenon
    <3>1. PICK d \in CPUs : cur[d] = p
      BY <2>1, Zenon DEF OnCpu
    <3>2. d # c /\ cur'[d] = p
      BY <1>3, <1>7, <3>1, Zenon
    <3>3. (CHOOSE e \in CPUs : cur[e] = p) = d
      <4>1. p # 0
        BY SMT DEF Slots
      <4>2. \A e \in CPUs : cur[e] = p => e = d
        BY <3>1, <4>1, Zenon DEF OnCpu
      <4> QED
        BY <3>1, <4>2, Zenon
    <3>4. (CHOOSE e \in CPUs : cur'[e] = p) = d
      <4>1. p # 0
        BY SMT DEF Slots
      <4>2. \A e \in CPUs : cur'[e] = p => e = d
        BY <1>4, <3>2, <4>1, Zenon DEF OnCpu
      <4> QED
        BY <3>2, <4>2, Zenon
    <3>5. loc[p] = at[d] /\ loc'[p] = at'[d]
      BY <2>1, <3>0, <3>3, <3>4, Zenon DEF loc
    <3> QED
      BY <1>3, <3>2, <3>5, Zenon
  <2>2. CASE state[p] # "RUNNING"
    <3>1. state'[p] # "RUNNING"
      BY <2>2, Zenon
    <3> QED
      BY <1>3, <1>7, <2>2, <3>1, Zenon DEF loc
  <2> QED
    BY <2>1, <2>2, Zenon
<1> QED
  BY <1>4, <1>6, <1>7, Zenon

\* The scheduler's swtch moves no slot.
LEMMA LocDispatch ==
  ASSUME Types, OnCpu, NEW c \in CPUs, NEW p \in Slots, Dispatch(c, p)
  PROVE  OnCpu' /\ \A q \in Slots : loc'[q] = loc[q]
<1>1. /\ cur[c] = 0 /\ state[p] = "RUNNABLE"
      /\ state' = [state EXCEPT ![p] = "RUNNING"]
      /\ cur' = [cur EXCEPT ![c] = p] /\ at' = [at EXCEPT ![c] = ctx[p]] /\ ctx' = ctx
  BY Zenon DEF Dispatch
<1>2. /\ cur'[c] = p /\ at'[c] = ctx[p]
      /\ \A d \in CPUs : d # c => cur'[d] = cur[d] /\ at'[d] = at[d]
      /\ state'[p] = "RUNNING" /\ \A q \in Slots : q # p => state'[q] = state[q]
  BY <1>1, Zenon DEF Types
<1>3. p # 0
  BY SMT DEF Slots
<1>4. \A d \in CPUs : cur[d] # p
  <2>1. "RUNNABLE" # "RUNNING"
    OBVIOUS
  <2> QED
    BY <1>1, <1>3, <2>1, Zenon DEF OnCpu
<1>5. OnCpu'
  <2>1. ASSUME NEW d \in CPUs, cur'[d] # 0 PROVE state'[cur'[d]] = "RUNNING"
    <3>1. CASE d = c
      BY <1>2, <3>1, Zenon
    <3>2. CASE d # c
      <4>1. cur'[d] = cur[d] /\ cur[d] \in Slots /\ cur[d] # p /\ state[cur[d]] = "RUNNING"
        BY <1>2, <1>4, <2>1, <3>2, CurIs, Zenon
      <4> QED
        BY <1>2, <4>1, Zenon
    <3> QED
      BY <3>1, <3>2, Zenon
  <2>2. ASSUME NEW d \in CPUs, NEW e \in CPUs, cur'[d] = cur'[e], cur'[d] # 0 PROVE d = e
    <3>1. CASE d = c
      BY <1>2, <1>4, <2>2, <3>1, Zenon
    <3>2. CASE e = c
      BY <1>2, <1>4, <2>2, <3>2, Zenon
    <3>3. CASE d # c /\ e # c
      <4>1. cur[d] = cur[e] /\ cur[d] # 0
        BY <1>2, <2>2, <3>3, Zenon
      <4> QED
        BY <4>1, Zenon DEF OnCpu
    <3> QED
      BY <3>1, <3>2, <3>3, Zenon
  <2>3. ASSUME NEW q \in Slots, state'[q] = "RUNNING" PROVE \E d \in CPUs : cur'[d] = q
    <3>1. CASE q = p
      BY <1>2, <3>1, Zenon
    <3>2. CASE q # p
      <4>1. PICK d \in CPUs : cur[d] = q
        BY <1>2, <2>3, <3>2, Zenon DEF OnCpu
      <4>2. q # 0
        BY SMT DEF Slots
      <4> QED
        BY <1>1, <1>2, <4>1, <4>2, Zenon
    <3> QED
      BY <3>1, <3>2, Zenon
  <2> QED
    BY <2>1, <2>2, <2>3, Zenon DEF OnCpu
<1>6. ASSUME NEW q \in Slots PROVE loc'[q] = loc[q]
  <2>0. q # 0
    BY SMT DEF Slots
  <2>1. CASE state'[q] = "RUNNING"
    <3>1. PICK d \in CPUs : cur'[d] = q
      BY <1>5, <2>1, Zenon DEF OnCpu
    <3>2. (CHOOSE e \in CPUs : cur'[e] = q) = d
      BY <1>5, <2>0, <3>1, Zenon DEF OnCpu
    <3>3. loc'[q] = at'[d]
      BY <2>1, <3>2, Zenon DEF loc
    <3>4. CASE q = p
      <4>1. d = c
        BY <1>2, <1>4, <3>1, <3>4, Zenon
      <4>2. state[q] # "RUNNING"
        BY <1>1, <3>4
      <4> QED
        BY <1>2, <3>3, <3>4, <4>1, <4>2, Zenon DEF loc
    <3>5. CASE q # p
      <4>1. d # c /\ cur[d] = q
        BY <1>2, <3>1, <3>5, Zenon
      <4>2. loc[q] = at[d]
        BY <2>0, <4>1, LocRunning, Zenon
      <4> QED
        BY <1>2, <3>3, <4>1, <4>2, Zenon
    <3> QED
      BY <3>4, <3>5, Zenon
  <2>2. CASE state'[q] # "RUNNING"
    <3>1. q # p /\ state[q] # "RUNNING"
      BY <1>2, <2>2, Zenon
    <3> QED
      BY <1>1, <2>2, <3>1, Zenon DEF loc
  <2> QED
    BY <2>1, <2>2, Zenon
<1> QED
  BY <1>5, <1>6, Zenon

\* The end of fork and thread_create.
LEMMA LocMake ==
  ASSUME Types, OnCpu, NEW c \in CPUs, NEW n \in Slots, cur[c] # 0, state[n] = "EMBRYO",
         state' = [state EXCEPT ![n] = "RUNNABLE"], at' = [at EXCEPT ![c] = User],
         ctx' = [ctx EXCEPT ![n] = User], cur' = cur
  PROVE  /\ OnCpu' /\ loc'[cur[c]] = User /\ loc'[n] = User
         /\ \A p \in Slots : p # cur[c] /\ p # n => loc'[p] = loc[p]
<1>1. /\ state'[n] = "RUNNABLE" /\ \A p \in Slots : p # n => state'[p] = state[p]
      /\ at'[c] = User /\ \A d \in CPUs : d # c => at'[d] = at[d]
      /\ ctx'[n] = User /\ \A p \in Slots : p # n => ctx'[p] = ctx[p]
  BY Zenon DEF Types
<1>2. \A p \in Slots : state'[p] = "RUNNING" <=> state[p] = "RUNNING"
  BY <1>1
<1>3. cur[c] \in Slots /\ state[cur[c]] = "RUNNING" /\ cur[c] # n
  BY LocRunning
<1>4. OnCpu'
  <2>1. \A d \in CPUs : cur[d] # 0 => state'[cur[d]] = "RUNNING"
    BY <1>2, CurIs, Zenon
  <2>2. \A p \in Slots : state'[p] = "RUNNING" => \E d \in CPUs : cur[d] = p
    BY <1>2, Zenon DEF OnCpu
  <2>3. \A d, e \in CPUs : cur[d] = cur[e] /\ cur[d] # 0 => d = e
    BY Zenon DEF OnCpu
  <2> QED
    BY <2>1, <2>2, <2>3, Zenon DEF OnCpu
<1>5. loc'[n] = User
  BY <1>1 DEF loc
<1>6. (CHOOSE d \in CPUs : cur[d] = cur[c]) = c
  BY Zenon DEF OnCpu
<1>7. loc'[cur[c]] = User
  BY <1>1, <1>2, <1>3, <1>6, Zenon DEF loc
<1>8. ASSUME NEW p \in Slots, p # cur[c], p # n PROVE loc'[p] = loc[p]
  <2>1. CASE state[p] = "RUNNING"
    <3>1. PICK d \in CPUs : cur[d] = p
      BY <2>1, Zenon DEF OnCpu
    <3>2. (CHOOSE e \in CPUs : cur[e] = p) \in CPUs /\ cur[CHOOSE e \in CPUs : cur[e] = p] = p
      BY <3>1, Zenon
    <3>3. (CHOOSE e \in CPUs : cur[e] = p) # c
      BY <1>8, <3>2, Zenon
    <3>4. (CHOOSE e \in CPUs : cur'[e] = p) = CHOOSE e \in CPUs : cur[e] = p
      BY Zenon
    <3>5. loc'[p] = at'[CHOOSE e \in CPUs : cur[e] = p] /\ loc[p] = at[CHOOSE e \in CPUs : cur[e] = p]
      BY <1>2, <2>1, <3>4, Zenon DEF loc
    <3> QED
      BY <1>1, <3>2, <3>3, <3>5, Zenon
  <2>2. CASE state[p] # "RUNNING"
    BY <1>1, <1>2, <1>8, <2>2, Zenon DEF loc
  <2> QED
    BY <2>1, <2>2, Zenon
<1> QED
  BY <1>4, <1>5, <1>7, <1>8, Zenon

-----------------------------------------------------------------------------
\* What a step must leave alone of the slot that q's fork or thread_create
\* fills.
LEMMA KeepEmbryo ==
  ASSUME NEW q \in Slots, Embryo(q), loc'[q] = loc[q], NEW x, x = New(q),
         state'[x] = "EMBRYO", kstack'[x] <=> kstack[x], t_flag'[x] <=> t_flag[x],
         owned'[x] = owned[x],
         parent[x] \in {0, q} => parent'[x] = parent[x],
         main_thread[x] = q => main_thread'[x] = q
  PROVE  Embryo(q)' /\ New(q)' = New(q)
<1>1. New(q)' = x
  BY Zenon DEF New
<1>2. x \in Slots
  BY Zenon DEF Embryo
<1> QED
  BY <1>1, <1>2, Zenon DEF Embryo

\* The same for all of them, when no fork or thread_create begins.
LEMMA KeepEmbryos ==
  ASSUME Embryos,
         \A q \in Slots : Makes(q)' => Makes(q) /\ loc'[q] = loc[q],
         \A x \in Slots : state[x] = "EMBRYO" =>
           /\ state'[x] = "EMBRYO" /\ (kstack'[x] <=> kstack[x]) /\ (t_flag'[x] <=> t_flag[x])
           /\ owned'[x] = owned[x],
         \A q, x \in Slots : Makes(q)' /\ state[x] = "EMBRYO" =>
           /\ parent[x] \in {0, q} => parent'[x] = parent[x]
           /\ main_thread[x] = q => main_thread'[x] = q
  PROVE  Embryos'
<1>1. ASSUME NEW q \in Slots, Makes(q)' PROVE Embryo(q)' /\ New(q)' = New(q)
  <2>1. Makes(q) /\ loc'[q] = loc[q]
    BY <1>1, Zenon
  <2>2. Embryo(q)
    BY <2>1, Zenon DEF Embryos
  <2> DEFINE x == New(q)
  <2>3. x \in Slots /\ state[x] = "EMBRYO" /\ x = New(q)
    BY <2>2, Zenon DEF Embryo
  <2> HIDE DEF x
  <2>4. /\ state'[x] = "EMBRYO" /\ (kstack'[x] <=> kstack[x]) /\ (t_flag'[x] <=> t_flag[x])
        /\ owned'[x] = owned[x]
        /\ parent[x] \in {0, q} => parent'[x] = parent[x]
        /\ main_thread[x] = q => main_thread'[x] = q
    BY <1>1, <2>3, Zenon
  <2> QED
    BY <2>1, <2>2, <2>3, <2>4, KeepEmbryo, Zenon
<1>2. ASSUME NEW q \in Slots, NEW r \in Slots, Makes(q)', Makes(r)', New(q)' = New(r)' PROVE q = r
  <2>1. Makes(q) /\ Makes(r)
    BY <1>2, Zenon
  <2>2. New(q) = New(r)
    BY <1>1, <1>2, Zenon
  <2> QED
    BY <2>1, <2>2, Zenon DEF Embryos
<1> QED
  BY <1>1, <1>2, Zenon DEF Embryos

\* The finite set of slots with a kernel stack, when one is allocated or freed.
LEMMA CountStacks ==
  ASSUME SlotSets, StackCount, NEW n \in Slots, \A q \in Slots : q # n => (kstack'[q] <=> kstack[q])
  PROVE  /\ ~kstack[n] /\ kstack'[n] => Cardinality({q \in Slots : kstack'[q]}) = kpages + 1
         /\ kstack[n] /\ ~kstack'[n] => Cardinality({q \in Slots : kstack'[q]}) = kpages - 1
         /\ kpages \in Nat
<1> DEFINE S == {q \in Slots : kstack[q]}
           T == {q \in Slots : kstack'[q]}
<1>1. S \in SUBSET Slots
  OBVIOUS
<1>2. Cardinality(S) \in Nat
  BY <1>1, Zenon DEF SlotSets
<1>3. Cardinality(S) \in Nat /\ kpages = Cardinality(S)
  BY <1>2, Zenon DEF StackCount
<1>4. ASSUME ~kstack[n], kstack'[n] PROVE Cardinality(T) = kpages + 1
  <2>1. T = S \cup {n} /\ n \notin S
    BY <1>4, Zenon
  <2> HIDE DEF S, T
  <2>2. Cardinality(S \cup {n}) = Cardinality(S) + 1
    BY <1>1, <2>1, Zenon DEF SlotSets
  <2> QED
    BY <1>3, <2>1, <2>2
<1>5. ASSUME kstack[n], ~kstack'[n] PROVE Cardinality(T) = kpages - 1
  <2>1. T = S \ {n} /\ n \in S
    BY <1>5, Zenon
  <2> HIDE DEF S, T
  <2>2. Cardinality(S \ {n}) = Cardinality(S) - 1
    BY <1>1, <2>1, Zenon DEF SlotSets
  <2> QED
    BY <1>3, <2>1, <2>2
<1>6. kpages \in Nat
  BY <1>3, Zenon
<1> QED
  BY <1>4, <1>5, <1>6, Zenon

\* A step that neither allocates nor frees a kernel stack.
LEMMA KeepStacks ==
  ASSUME StackCount, kstack' = kstack, kpages' = kpages,
         \A q \in Slots : Alive(q)' \/ state'[q] = "ZOMBIE" => kstack[q],
         \A q \in Slots : state'[q] = "UNUSED" => ~kstack[q]
  PROVE  StackCount'
<1>1. kpages' = Cardinality({p \in Slots : kstack'[p]})
  BY Zenon DEF StackCount
<1> QED
  BY <1>1, Zenon DEF StackCount

\* A step that changes no pid.
LEMMA KeepPids ==
  ASSUME PidsKnown, pid' = pid, ptid' = ptid, nextpid' = nextpid,
         \A q \in Slots : state'[q] # "UNUSED" => state[q] # "UNUSED"
  PROVE  PidsKnown'
BY Zenon DEF PidsKnown

\* What a step may do to the children of a slot q that sleeps in wait, and to
\* the LWPs of one that sleeps in thread_join.
LEMMA KeepWait ==
  ASSUME NEW q \in Slots, WaitOk(q), loc'[q] = loc[q], killed'[q] <=> killed[q],
         \A k \in Slots : parent[k] = q => parent'[k] = q,
         \A k \in Slots : parent'[k] = q /\ state'[k] = "ZOMBIE" => parent[k] = q /\ state[k] = "ZOMBIE"
  PROVE  WaitOk(q)'
<1>1. SUFFICES ASSUME loc[q].op = "wait" PROVE Kids(q)' # {} /\ Zombies(Kids(q))' = {} /\ ~killed'[q]
  BY Zenon DEF WaitOk
<1>2. Kids(q) # {} /\ Zombies(Kids(q)) = {} /\ ~killed[q]
  BY <1>1, Zenon DEF WaitOk
<1>3. Kids(q)' # {}
  BY <1>2, Zenon DEF Kids
<1>4. Zombies(Kids(q))' = {}
  BY <1>2, Zenon DEF Kids, Zombies
<1> QED
  BY <1>2, <1>3, <1>4, Zenon

\* A sleeping thread_join keeps what it waits for when its LWPs stay.
LEMMA KeepJoin ==
  ASSUME NEW q \in Slots, JoinOk(q), loc'[q] = loc[q],
         loc[q].op = "join" => \E k \in Slots : main_thread'[k] = q /\ tid'[k] = loc[q].arg,
         \A k \in Slots : loc[q].op = "join" /\ main_thread'[k] = q /\ tid'[k] = loc[q].arg /\ state'[k] = "ZOMBIE" =>
           main_thread[k] = q /\ tid[k] = loc[q].arg /\ state[k] = "ZOMBIE"
  PROVE  JoinOk(q)'
<1>1. SUFFICES ASSUME loc[q].op = "join"
               PROVE  Lwps(q, loc[q].arg)' # {} /\ Zombies(Lwps(q, loc[q].arg))' = {}
  BY Zenon DEF JoinOk
<1>2. Zombies(Lwps(q, loc[q].arg)) = {}
  BY <1>1, Zenon DEF JoinOk
<1>3. Lwps(q, loc[q].arg)' # {}
  BY <1>1, Zenon DEF Lwps
<1>4. Zombies(Lwps(q, loc[q].arg))' = {}
  BY <1>1, <1>2, Zenon DEF Lwps, Zombies
<1> QED
  BY <1>3, <1>4, Zenon

\* A step after which the sleepers are among the ones before, and that gives
\* them no zombie and takes no child or LWP from them.
LEMMA KeepWaiters ==
  ASSUME Sleepers, Waiters,
         \A q \in Slots : state'[q] = "SLEEPING" =>
           state[q] = "SLEEPING" /\ chan'[q] = chan[q] /\ loc'[q] = loc[q] /\ (killed'[q] <=> killed[q]),
         \A q, k \in Slots : state'[q] = "SLEEPING" =>
           /\ parent[k] = q => parent'[k] = q
           /\ parent'[k] = q /\ state'[k] = "ZOMBIE" => parent[k] = q /\ state[k] = "ZOMBIE",
         \A q \in Slots : state'[q] = "SLEEPING" /\ loc[q].op = "join" =>
           \E k \in Slots : main_thread'[k] = q /\ tid'[k] = loc[q].arg,
         \A q, k \in Slots :
           state'[q] = "SLEEPING" /\ loc[q].op = "join" /\ main_thread'[k] = q /\ tid'[k] = loc[q].arg /\ state'[k] = "ZOMBIE" =>
             main_thread[k] = q /\ tid[k] = loc[q].arg /\ state[k] = "ZOMBIE"
  PROVE  Sleepers' /\ Waiters'
<1>1. Sleepers'
  <2>1. ASSUME NEW q \in Slots, state'[q] = "SLEEPING" PROVE chan'[q] = q /\ loc'[q].op \in {"wait", "join"}
    <3>1. state[q] = "SLEEPING" /\ chan'[q] = chan[q] /\ loc'[q] = loc[q]
      BY <2>1, Zenon
    <3> QED
      BY <3>1, Zenon DEF Sleepers
  <2> QED
    BY <2>1, Zenon DEF Sleepers
<1>2. ASSUME NEW q \in Slots, state'[q] = "SLEEPING" PROVE WaitOk(q)' /\ JoinOk(q)'
  <2>1. WaitOk(q) /\ JoinOk(q) /\ loc'[q] = loc[q] /\ (killed'[q] <=> killed[q])
    BY <1>2, Zenon DEF Waiters
  <2>2. WaitOk(q)'
    BY <1>2, <2>1, KeepWait, Zenon
  <2>3. JoinOk(q)'
    BY <1>2, <2>1, KeepJoin, Zenon
  <2> QED
    BY <2>2, <2>3, Zenon
<1> QED
  BY <1>1, <1>2, Zenon DEF Waiters

\* A step that leaves no parent dead and makes nobody alive.
LEMMA KeepFamilies ==
  ASSUME NoOrphans, Parents,
         \A q \in Slots : Alive(q)' \/ state'[q] = "ZOMBIE" =>
           (Alive(q) \/ state[q] = "ZOMBIE") /\ (t_flag'[q] <=> t_flag[q]) /\ parent'[q] = parent[q],
         \A q \in Slots : Alive(q) => Alive(q)'
  PROVE  NoOrphans'
<1>1. ASSUME NEW q \in Slots \ {initproc}, Alive(q)' \/ state'[q] = "ZOMBIE", ~t_flag'[q]
      PROVE  parent'[q] # 0 /\ Alive(parent[q])'
  <2>0. q \in Slots
    OBVIOUS
  <2>1. (Alive(q) \/ state[q] = "ZOMBIE") /\ ~t_flag[q] /\ parent'[q] = parent[q]
    BY <1>1, <2>0, Zenon
  <2>2. parent[q] # 0 /\ Alive(parent[q])
    BY <2>1, Zenon DEF NoOrphans
  <2>3. parent[q] \in Slots
    BY <2>0, <2>2, Zenon DEF Parents, Parented
  <2>4. \A r \in Slots : Alive(r) => state'[r] \in {"SLEEPING", "RUNNABLE", "RUNNING"}
    BY Zenon DEF Alive
  <2>5. state'[parent[q]] \in {"SLEEPING", "RUNNABLE", "RUNNING"}
    BY <2>2, <2>3, <2>4, Zenon
  <2> QED
    BY <2>1, <2>2, <2>5, Zenon DEF Alive
<1> QED
  BY <1>1, Zenon DEF NoOrphans

\* A step that creates no LWP, and takes none from a slot that owns it.
LEMMA KeepLwps ==
  ASSUME OnlyLwps, calls' = calls, "thread_create" \in calls,
         \A q \in Slots : Lwp(q)',
         \A q \in Slots : Alive(q)' => Alive(q) /\ owned'[q] \subseteq owned[q],
         \A q, r \in Slots : \A t \in owned'[q] : Alive(q)' /\ Backed(q, t, r) => Backed(q, t, r)',
         \A q \in Slots : state'[q] = "SLEEPING" => state[q] = "SLEEPING" /\ loc'[q] = loc[q],
         \A q, r \in Slots : state'[q] = "SLEEPING" /\ loc[q].op = "join" /\ Created(q, loc[q].arg, r) /\ Alive(r) =>
           main_thread'[r] = q /\ tid'[r] = loc[q].arg /\ t_flag'[r] /\ Alive(r)'
  PROVE  OnlyLwps'
<1>1. \A q \in Slots : OwnedReal(q) /\ JoinReal(q)
  BY Zenon DEF OnlyLwps
<1>2. ASSUME NEW q \in Slots PROVE OwnedReal(q)'
  <2>1. SUFFICES ASSUME Alive(q)', NEW t \in owned'[q] PROVE \E r \in Slots : Backed(q, t, r)'
    BY Zenon DEF OwnedReal
  <2>2. t \in owned[q] /\ Alive(q)
    BY <2>1, Zenon
  <2>3. PICK r \in Slots : Backed(q, t, r)
    BY <1>1, <2>2, Zenon DEF OwnedReal
  <2> QED
    BY <2>1, <2>3, Zenon
<1>3. ASSUME NEW q \in Slots PROVE JoinReal(q)'
  <2>1. SUFFICES ASSUME state'[q] = "SLEEPING", loc'[q].op = "join"
                 PROVE  \E r \in Slots : Created(q, loc[q].arg, r)' /\ Alive(r)'
    BY Zenon DEF JoinReal
  <2>2. state[q] = "SLEEPING" /\ loc[q].op = "join" /\ loc'[q] = loc[q]
    BY <2>1, Zenon
  <2>3. PICK r \in Slots : Created(q, loc[q].arg, r) /\ Alive(r)
    BY <1>1, <2>2, Zenon DEF JoinReal
  <2>4. main_thread'[r] = q /\ tid'[r] = loc[q].arg /\ t_flag'[r] /\ Alive(r)'
    BY <2>1, <2>2, <2>3, Zenon
  <2>5. Created(q, loc[q].arg, r)'
    BY <2>2, <2>4, Zenon DEF Created
  <2> QED
    BY <2>4, <2>5, Zenon
<1> QED
  BY <1>2, <1>3, Zenon DEF OnlyLwps

\* A step in which only the code of p moves on, out of what it was doing.
LEMMA LocalStep ==
  ASSUME SInv, NEW p \in Slots, NEW o \in {"user", "exit", "thread_exit"},
         loc'[p] = Loc(o, 0, FALSE), \A q \in Slots : q # p => loc'[q] = loc[q],
         state[p] = "RUNNING", loc[p].op # "go",
         p = initproc => o = "user",
         o = "thread_exit" => t_flag[p],
         o = "exit" => "thread_create" \notin calls,
         UNCHANGED <<slotVars, nextpid, kpages, calls>>,
         owned'[p] \subseteq owned[p], \A q \in Slots : q # p => owned'[q] = owned[q]
  PROVE  SInv'
<1>1. /\ state' = state /\ pid' = pid /\ ptid' = ptid /\ parent' = parent /\ killed' = killed
      /\ chan' = chan /\ kstack' = kstack /\ t_flag' = t_flag /\ main_thread' = main_thread
      /\ tid' = tid /\ nextpid' = nextpid /\ kpages' = kpages /\ calls' = calls
  BY Zenon DEF slotVars, threadVars
<1>2. loc'[p].op = o /\ loc'[p].thread = FALSE
  BY DEF Loc
<1>3. o \notin Making \cup {"wait", "join", "allocuvm"}
  BY DEF Making
<1>4. /\ ~Makes(p)' /\ \A q \in Slots : q # p => (Makes(q)' <=> Makes(q)) /\ New(q)' = New(q)
      /\ \A q \in Slots : Alive(q)' <=> Alive(q)
  BY <1>1, <1>2, <1>3, Zenon DEF Makes, Alive, New
<1>5. Apart(calls)' /\ Parents' /\ NoOrphans' /\ StackCount'
  BY <1>1, Zenon DEF SInv, Parents, Parented, NoOrphans, StackCount, Alive, Apart
<1>6. Embryos'
  <2>1. ASSUME NEW q \in Slots, Makes(q)' PROVE Embryo(q)'
    <3>1. q # p /\ Makes(q) /\ loc'[q] = loc[q] /\ New(q)' = New(q)
      BY <1>4, <2>1, Zenon
    <3>2. Embryo(q)
      BY <3>1, Zenon DEF SInv, Embryos
    <3>3. New(q) \in Slots /\ New(q) # p
      BY <3>2, Zenon DEF Embryo
    <3>4. owned'[New(q)] = owned[New(q)]
      BY <3>3, Zenon
    <3> QED
      BY <1>1, <3>1, <3>2, <3>4, Zenon DEF Embryo
  <2>2. ASSUME NEW q \in Slots, NEW r \in Slots, Makes(q)', Makes(r)', New(q)' = New(r)' PROVE q = r
    BY <1>4, <2>2, Zenon DEF SInv, Embryos
  <2> QED
    BY <2>1, <2>2, Zenon DEF Embryos
<1>7. InitLives'
  <2>1. CASE p = initproc
    BY <1>1, <1>2, <1>4, <2>1, Zenon DEF SInv, InitLives
  <2>2. CASE p # initproc
    <3>1. initproc \in Slots
      BY ProcAssumption DEF initproc, Slots
    <3> QED
      BY <1>1, <1>4, <2>2, <3>1, Zenon DEF SInv, InitLives
  <2> QED
    BY <2>1, <2>2, Zenon
<1>8. Sleepers' /\ Waiters'
  <2>1. \A q \in Slots : state[q] = "SLEEPING" => loc'[q] = loc[q]
    BY Zenon
  <2>2. Sleepers'
    BY <1>1, <2>1, Zenon DEF SInv, Sleepers
  <2>3. ASSUME NEW q \in Slots, state'[q] = "SLEEPING" PROVE WaitOk(q)' /\ JoinOk(q)'
    <3>1. loc'[q] = loc[q] /\ WaitOk(q) /\ JoinOk(q)
      BY <1>1, <2>1, <2>3, Zenon DEF SInv, Waiters
    <3>2. WaitOk(q)'
      BY <1>1, <3>1, Zenon DEF WaitOk, Kids, Zombies
    <3>3. Lwps(q, loc[q].arg)' = Lwps(q, loc[q].arg)
      BY <1>1, <3>1, Zenon DEF Lwps
    <3>4. Zombies(Lwps(q, loc[q].arg))' = Zombies(Lwps(q, loc[q].arg))
      BY <1>1, <3>3, Zenon DEF Zombies
    <3>5. JoinOk(q)'
      BY <3>1, <3>3, <3>4, Zenon DEF JoinOk
    <3> QED
      BY <3>2, <3>5, Zenon
  <2> QED
    BY <2>2, <2>3, Zenon DEF Waiters
<1>9. NoLwps'
  <2>1. SUFFICES ASSUME "thread_create" \notin calls PROVE NoLwps'
    BY <1>1, Zenon DEF NoLwps
  <2>2. PidsKnown'
    BY <1>1, <2>1, Zenon DEF SInv, NoLwps, PidsKnown
  <2>3. \A q \in Slots : Plain(q)
    BY <2>1, Zenon DEF SInv, NoLwps
  <2>4. o # "thread_exit"
    BY <2>3, Zenon DEF Plain
  <2>5. \A q \in Slots : owned'[q] = {}
    BY <2>3, Zenon DEF Plain
  <2>6. \A q \in Slots : Plain(q)'
    BY <1>1, <1>2, <1>3, <2>3, <2>4, <2>5, Zenon DEF Plain
  <2> QED
    BY <2>2, <2>6, Zenon DEF NoLwps
<1>10. OnlyLwps'
  <2>1. SUFFICES ASSUME "thread_create" \in calls PROVE OnlyLwps'
    BY <1>1, Zenon DEF OnlyLwps
  <2>2. o # "exit"
    BY <2>1, Zenon
  <2>3. \A q \in Slots : Lwp(q) /\ OwnedReal(q) /\ JoinReal(q)
    BY <2>1, Zenon DEF SInv, OnlyLwps
  <2>4. ASSUME NEW q \in Slots PROVE OwnedReal(q)'
    <3>1. \A r \in Slots : \A t : Backed(q, t, r) => Backed(q, t, r)'
      <4>1. \A r \in Slots : \A t : Created(q, t, r)' <=> Created(q, t, r)
        BY <1>1, Zenon DEF Created
      <4>2. loc[q].op = "go" => q # p
        BY Zenon
      <4> QED
        BY <1>1, <1>4, <4>1, <4>2, Zenon DEF Backed
    <3>2. owned'[q] \subseteq owned[q]
      BY Zenon
    <3> QED
      BY <1>4, <2>3, <3>1, <3>2, Zenon DEF OwnedReal
  <2>5. ASSUME NEW q \in Slots PROVE Lwp(q)'
    <3>0. Lwp(q)
      BY <2>3, Zenon
    <3>1. CASE q = p
      BY <1>1, <1>2, <1>3, <1>4, <2>2, <3>0, <3>1, Zenon DEF Lwp
    <3>2. CASE q # p
      BY <1>1, <1>4, <3>0, <3>2, Zenon DEF Lwp
    <3> QED
      BY <3>1, <3>2, Zenon
  <2>6. ASSUME NEW q \in Slots PROVE JoinReal(q)'
    <3>1. state[q] = "SLEEPING" => loc'[q] = loc[q]
      BY Zenon
    <3>2. \A r \in Slots : \A t : Created(q, t, r)' <=> Created(q, t, r)
      BY <1>1, Zenon DEF Created
    <3>3. \A r \in Slots : state'[q] = "SLEEPING" => (Created(q, loc[q].arg, r)' <=> Created(q, loc[q].arg, r))
      BY <1>1, <3>1, Zenon DEF Created
    <3> QED
      BY <1>1, <1>4, <2>3, <3>1, <3>3, Zenon DEF JoinReal
  <2> QED
    BY <2>4, <2>5, <2>6, Zenon DEF OnlyLwps
<1> QED
  BY <1>5, <1>6, <1>7, <1>8, <1>9, <1>10, Zenon DEF SInv

-----------------------------------------------------------------------------
\* The scheduler's steps: p goes on or off a CPU.
LEMMA SwitchStep ==
  ASSUME SInv, NEW p \in Slots, state[p] \in {"RUNNABLE", "RUNNING"},
         state'[p] \in {"RUNNABLE", "RUNNING"},
         \A q \in Slots : q # p => state'[q] = state[q] /\ chan'[q] = chan[q],
         \A q \in Slots : loc'[q] = loc[q],
         UNCHANGED <<pid, parent, killed, kstack, threadVars, nextpid, kpages, owned, calls>>
  PROVE  SInv'
<1>1. /\ pid' = pid /\ ptid' = ptid /\ parent' = parent /\ killed' = killed
      /\ kstack' = kstack /\ t_flag' = t_flag /\ main_thread' = main_thread /\ owned' = owned
      /\ tid' = tid /\ nextpid' = nextpid /\ kpages' = kpages /\ calls' = calls
  BY Zenon DEF threadVars
<1>2. /\ \A q \in Slots : Alive(q)' <=> Alive(q)
      /\ \A q \in Slots : state'[q] = "UNUSED" <=> state[q] = "UNUSED"
      /\ \A q \in Slots : state'[q] = "EMBRYO" <=> state[q] = "EMBRYO"
      /\ \A q \in Slots : state'[q] = "ZOMBIE" <=> state[q] = "ZOMBIE"
      /\ \A q \in Slots : state'[q] = "SLEEPING" <=> state[q] = "SLEEPING" 
      /\ \A q \in Slots : state[q] = "SLEEPING" => q # p
  BY DEF Alive
<1>3. \A q \in Slots : (Makes(q)' <=> Makes(q)) /\ New(q)' = New(q)
  BY <1>2, Zenon DEF Makes, New
<1>4. Embryos'
  BY <1>1, <1>2, <1>3, KeepEmbryos, Zenon DEF SInv
<1>5. StackCount'
  BY <1>1, <1>2, KeepStacks, Zenon DEF SInv, StackCount
<1>6. initproc \in Slots
  BY ProcAssumption DEF initproc, Slots
<1>7. InitLives'
  BY <1>1, <1>2, <1>3, <1>6, Zenon DEF SInv, InitLives
<1>8. Sleepers'
  BY <1>2, ZenonT(30) DEF SInv, Sleepers
<1>9. Parents' /\ Apart(calls)'
  <2>1. \A q \in Slots : Parented(q) => Parented(q)'
    BY <1>1, <1>2, Zenon DEF Parented
  <2> QED
    BY <1>1, <2>1, Zenon DEF SInv, Parents, Apart
<1>10. NoOrphans'
  <2>1. \A q \in Slots : Alive(q)' \/ state'[q] = "ZOMBIE" <=> Alive(q) \/ state[q] = "ZOMBIE"
    BY <1>2, Zenon
  <2>2. ASSUME NEW q \in Slots \ {initproc}, Alive(q)' \/ state'[q] = "ZOMBIE", ~t_flag'[q]
        PROVE  parent'[q] # 0 /\ Alive(parent[q])'
    <3>1. parent[q] # 0 /\ Alive(parent[q])
      BY <1>1, <2>1, <2>2, Zenon DEF SInv, NoOrphans
    <3>2. parent[q] \in Slots
      BY <3>1, Zenon DEF SInv, Parents, Parented
    <3> QED
      BY <1>1, <1>2, <3>1, <3>2, Zenon
  <2> QED
    BY <1>1, <2>2, Zenon DEF NoOrphans
<1>11. Waiters'
  <2>1. ASSUME NEW q \in Slots, state'[q] = "SLEEPING" PROVE WaitOk(q)' /\ JoinOk(q)'
    <3>1. WaitOk(q) /\ JoinOk(q)
      BY <1>2, <2>1, Zenon DEF SInv, Waiters
    <3>2. WaitOk(q)'
      BY <1>1, <1>2, <3>1, KeepWait, ZenonT(30)
    <3>3. loc[q].op = "join" => \E k \in Slots : main_thread'[k] = q /\ tid'[k] = loc[q].arg
      BY <1>1, <3>1, Zenon DEF JoinOk, Lwps
    <3>4. JoinOk(q)'
      BY <1>1, <1>2, <3>1, <3>3, KeepJoin, Zenon
    <3> QED
      BY <3>2, <3>4, Zenon
  <2> QED
    BY <2>1, Zenon DEF Waiters
<1>12. NoLwps'
  <2>1. PidsKnown => PidsKnown'
    BY <1>1, <1>2, KeepPids, Zenon
  <2>2. \A q \in Slots : Plain(q) => Plain(q)'
    BY <1>1, Zenon DEF Plain
  <2> QED
    BY <1>1, <2>1, <2>2, Zenon DEF SInv, NoLwps
<1>13. OnlyLwps'
  <2>1. \A q, r \in Slots : \A t : Created(q, t, r)' <=> Created(q, t, r)
    BY <1>1, Zenon DEF Created
  <2>2. \A q, r \in Slots : \A t : Backed(q, t, r) => Backed(q, t, r)'
    BY <1>2, <1>3, <2>1, Zenon DEF Backed
  <2>3. \A q \in Slots : Lwp(q) => Lwp(q)'
    BY <1>1, <1>2, <1>3, ZenonT(30) DEF Lwp
  <2>4. \A q \in Slots : OwnedReal(q) => OwnedReal(q)'
    BY <1>1, <1>2, <2>2, Zenon DEF OwnedReal
  <2>5. \A q, r \in Slots : Created(q, loc[q].arg, r)' <=> Created(q, loc[q].arg, r)
    BY <1>1, Zenon DEF Created
  <2>6. \A q \in Slots : JoinReal(q) => JoinReal(q)'
    BY <1>1, <1>2, <2>5, Zenon DEF JoinReal
  <2> QED
    BY <1>1, <2>3, <2>4, <2>6, Zenon DEF SInv, OnlyLwps
<1> QED
  BY <1>4, <1>5, <1>7, <1>8, <1>9, <1>10, <1>11, <1>12, <1>13, Zenon DEF SInv

-----------------------------------------------------------------------------
\* p goes to sleep in wait or in thread_join.
LEMMA SleepStep ==
  ASSUME SInv, NEW p \in Slots, NEW o \in {"wait", "join"}, NEW t,
         state[p] = "RUNNING", state'[p] = "SLEEPING", chan'[p] = p,
         \A q \in Slots : q # p => state'[q] = state[q] /\ chan'[q] = chan[q] /\ loc'[q] = loc[q],
         loc'[p] = Loc(o, t, FALSE), loc[p].op \in {"user", o},
         o = "join" /\ loc[p].op = "user" => p # initproc /\ t \in owned[p],
         loc[p].op = "join" => loc[p].arg = t,
         o = "wait" => Kids(p) # {} /\ Zombies(Kids(p)) = {} /\ ~killed[p],
         o = "join" => Lwps(p, t) # {} /\ Zombies(Lwps(p, t)) = {},
         UNCHANGED <<pid, parent, killed, kstack, threadVars, nextpid, kpages, owned, calls>>
  PROVE  SInv'
<1>1. /\ pid' = pid /\ ptid' = ptid /\ parent' = parent /\ killed' = killed
      /\ kstack' = kstack /\ t_flag' = t_flag /\ main_thread' = main_thread /\ owned' = owned
      /\ tid' = tid /\ nextpid' = nextpid /\ kpages' = kpages /\ calls' = calls
  BY Zenon DEF threadVars
<1>2. /\ \A q \in Slots : Alive(q)' <=> Alive(q)
      /\ \A q \in Slots : state'[q] = "UNUSED" <=> state[q] = "UNUSED"
      /\ \A q \in Slots : state'[q] = "EMBRYO" <=> state[q] = "EMBRYO"
      /\ \A q \in Slots : state'[q] = "ZOMBIE" <=> state[q] = "ZOMBIE"
  BY DEF Alive
<1>3. loc'[p].op = o /\ loc'[p].arg = t /\ loc'[p].thread = FALSE
  BY DEF Loc
<1>4. ~Makes(p)' /\ \A q \in Slots : q # p => (Makes(q)' <=> Makes(q)) /\ New(q)' = New(q)
  <2>1. o \notin Making
    BY DEF Making
  <2> QED
    BY <1>2, <1>3, <2>1, Zenon DEF Makes, New
<1>5. ASSUME o = "join" PROVE "thread_create" \in calls /\ t \in owned[p] /\ p # initproc
  <2>1. CASE loc[p].op = "user"
    <3>1. "thread_create" \notin calls => owned[p] = {}
      BY Zenon DEF SInv, NoLwps, Plain
    <3> QED
      BY <1>5, <2>1, <3>1, Zenon
  <2>2. CASE loc[p].op = "join"
    <3>1. "thread_create" \in calls
      BY <2>2, Zenon DEF SInv, NoLwps, Plain
    <3>2. Lwp(p) /\ Alive(p)
      BY <3>1, Zenon DEF SInv, OnlyLwps, Alive
    <3>3. t \in owned[p]
      BY <2>2, <3>2, Zenon DEF Lwp
    <3>4. p # initproc
      BY <2>2, Zenon DEF SInv, InitLives
    <3> QED
      BY <3>1, <3>3, <3>4, Zenon
  <2> QED
    BY <1>5, <2>1, <2>2, Zenon
<1>6. Embryos'
  BY <1>1, <1>2, <1>4, KeepEmbryos, Zenon DEF SInv
<1>7. StackCount'
  BY <1>1, <1>2, KeepStacks, Zenon DEF SInv, StackCount
<1>8. initproc \in Slots
  BY ProcAssumption DEF initproc, Slots
<1>9. InitLives'
  <2>1. CASE p = initproc
    <3>1. o = "wait"
      BY <1>5, <2>1, Zenon
    <3> QED
      BY <1>1, <1>2, <1>3, <1>4, <2>1, <3>1, Zenon DEF SInv, InitLives
  <2>2. CASE p # initproc
    BY <1>1, <1>2, <1>4, <1>8, <2>2, Zenon DEF SInv, InitLives
  <2> QED
    BY <2>1, <2>2, Zenon
<1>10. Sleepers'
  <2>1. chan'[p] = p /\ loc'[p].op \in {"wait", "join"}
    BY <1>3, Zenon
  <2> QED
    BY <2>1, Zenon DEF SInv, Sleepers
<1>11. Parents' /\ Apart(calls)'
  <2>1. \A q \in Slots : Parented(q) => Parented(q)'
    BY <1>1, <1>2, Zenon DEF Parented
  <2> QED
    BY <1>1, <2>1, Zenon DEF SInv, Parents, Apart
<1>12. NoOrphans'
  <2>1. \A q \in Slots : Alive(q)' \/ state'[q] = "ZOMBIE" <=> Alive(q) \/ state[q] = "ZOMBIE"
    BY <1>2, Zenon
  <2>2. ASSUME NEW q \in Slots \ {initproc}, Alive(q)' \/ state'[q] = "ZOMBIE", ~t_flag'[q]
        PROVE  parent'[q] # 0 /\ Alive(parent[q])'
    <3>1. parent[q] # 0 /\ Alive(parent[q])
      BY <1>1, <2>1, <2>2, Zenon DEF SInv, NoOrphans
    <3>2. parent[q] \in Slots
      BY <3>1, Zenon DEF SInv, Parents, Parented
    <3> QED
      BY <1>1, <1>2, <3>1, <3>2, Zenon
  <2> QED
    BY <1>1, <2>2, Zenon DEF NoOrphans
<1>13. Waiters'
  <2>1. ASSUME NEW q \in Slots, q # p, state'[q] = "SLEEPING" PROVE WaitOk(q)' /\ JoinOk(q)'
    <3>1. WaitOk(q) /\ JoinOk(q) /\ loc'[q] = loc[q]
      BY <1>2, <2>1, Zenon DEF SInv, Waiters
    <3>2. WaitOk(q)'
      BY <1>1, <1>2, <3>1, KeepWait, Zenon
    <3>3. loc[q].op = "join" => \E k \in Slots : main_thread'[k] = q /\ tid'[k] = loc[q].arg
      BY <1>1, <3>1, Zenon DEF JoinOk, Lwps
    <3>4. JoinOk(q)'
      BY <1>1, <1>2, <3>1, <3>3, KeepJoin, Zenon
    <3> QED
      BY <3>2, <3>4, Zenon
  <2>2. WaitOk(p)'
    <3>1. Kids(p)' = Kids(p) /\ Zombies(Kids(p))' = Zombies(Kids(p))
      <4>1. Kids(p)' = Kids(p) /\ Kids(p) \subseteq Slots
        BY <1>1, Zenon DEF Kids
      <4>2. \A q \in Slots : state'[q] = "ZOMBIE" <=> state[q] = "ZOMBIE"
        BY <1>2, Zenon
      <4> QED
        BY <4>1, <4>2, Zenon DEF Zombies
    <3> QED
      BY <1>1, <1>3, <3>1, Zenon DEF WaitOk
  <2>3. JoinOk(p)'
    <3>1. Lwps(p, t)' = Lwps(p, t) /\ Zombies(Lwps(p, t))' = Zombies(Lwps(p, t))
      BY <1>1, <1>2, Zenon DEF Lwps, Zombies
    <3>2. Lwps(p, loc[p].arg)' = Lwps(p, t)' /\ Zombies(Lwps(p, loc[p].arg))' = Zombies(Lwps(p, t))'
      BY <1>3, Zenon DEF Lwps, Zombies
    <3> QED
      BY <1>1, <1>3, <3>1, <3>2, Zenon DEF JoinOk
  <2> QED
    BY <2>1, <2>2, <2>3, Zenon DEF Waiters
<1>14. NoLwps'
  <2>1. PidsKnown => PidsKnown'
    BY <1>1, <1>2, KeepPids, Zenon
  <2>2. ASSUME "thread_create" \notin calls, NEW q \in Slots, Plain(q) PROVE Plain(q)'
    <3>1. CASE q = p
      <4>1. o = "wait"
        BY <1>5, <2>2, Zenon
      <4> QED
        BY <1>1, <1>3, <2>2, <3>1, <4>1, Zenon DEF Plain
    <3>2. CASE q # p
      BY <1>1, <2>2, <3>2, Zenon DEF Plain
    <3> QED
      BY <3>1, <3>2, Zenon
  <2> QED
    BY <1>1, <2>1, <2>2, Zenon DEF SInv, NoLwps
<1>15. OnlyLwps'
  <2>1. SUFFICES ASSUME "thread_create" \in calls PROVE OnlyLwps'
    BY <1>1, Zenon DEF OnlyLwps
  <2>2. \A q \in Slots : Lwp(q) /\ OwnedReal(q) /\ JoinReal(q)
    BY <2>1, Zenon DEF SInv, OnlyLwps
  <2>3. \A q, r \in Slots : \A u : Created(q, u, r)' <=> Created(q, u, r)
    BY <1>1, Zenon DEF Created
  <2>4. \A q, r \in Slots : \A u : Backed(q, u, r) => Backed(q, u, r)'
    <3>1. \A q \in Slots : loc[q].op = "go" => q # p
      BY Zenon
    <3> QED
      BY <1>2, <1>4, <2>3, <3>1, Zenon DEF Backed
  <2>5. ASSUME NEW q \in Slots PROVE Lwp(q)'
    <3>0. Lwp(q)
      BY <2>2, Zenon
    <3>1. CASE q = p
      <4>1. o # "exit" /\ o # "thread_exit"
        OBVIOUS
      <4>2. o = "join" => t \in owned'[p]
        BY <1>1, <1>5, Zenon
      <4> QED
        BY <1>1, <1>2, <1>3, <1>4, <3>0, <3>1, <4>1, <4>2, Zenon DEF Lwp
    <3>2. CASE q # p
      BY <1>1, <1>2, <1>4, <3>0, <3>2, Zenon DEF Lwp
    <3> QED
      BY <3>1, <3>2, Zenon
  <2>6. \A q \in Slots : OwnedReal(q)'
    BY <1>1, <1>2, <2>2, <2>4, Zenon DEF OwnedReal
  <2>7. ASSUME NEW q \in Slots, q # p PROVE JoinReal(q)'
    <3>1. \A r \in Slots : Created(q, loc[q].arg, r)' <=> Created(q, loc[q].arg, r)
      BY <1>1, <2>7, Zenon DEF Created
    <3> QED
      BY <1>1, <1>2, <2>2, <2>7, <3>1, Zenon DEF JoinReal
  <2>8. JoinReal(p)'
    <3>1. SUFFICES ASSUME o = "join" PROVE \E r \in Slots : Created(p, loc[p].arg, r)' /\ Alive(r)'
      BY <1>3, Zenon DEF JoinReal
    <3>2. Alive(p)
      BY Zenon DEF Alive
    <3>3. PICK r \in Slots : Backed(p, t, r)
      BY <1>5, <2>2, <3>1, <3>2, Zenon DEF OwnedReal
    <3>4. Created(p, t, r)
      BY <3>3, Zenon DEF Backed
    <3>5. state[r] # "ZOMBIE"
      BY <3>1, <3>4, Zenon DEF Created, Lwps, Zombies
    <3>6. loc[p].op # "go"
      BY <3>1, Zenon
    <3>7. Alive(r)'
      BY <1>2, <3>3, <3>5, <3>6, Zenon DEF Backed
    <3>8. Created(p, loc[p].arg, r)'
      BY <1>1, <1>3, <3>4, Zenon DEF Created
    <3> QED
      BY <3>7, <3>8, Zenon
  <2> QED
    BY <2>5, <2>6, <2>7, <2>8, Zenon DEF OnlyLwps
<1> QED
  BY <1>6, <1>7, <1>9, <1>10, <1>11, <1>12, <1>13, <1>14, <1>15, Zenon DEF SInv

-----------------------------------------------------------------------------
\* allocproc takes the unused slot n for p.
LEMMA AllocStep ==
  ASSUME SInv, NEW p \in Slots, NEW n \in Slots, NEW th \in BOOLEAN,
         state[p] = "RUNNING", loc[p].op = "user", state[n] = "UNUSED", state'[n] = "EMBRYO",
         pid'[n] = nextpid, ptid'[n] = nextpid, ~t_flag'[n], owned'[n] = {}, nextpid' = nextpid + 1,
         \A q \in Slots : q # n =>
           /\ state'[q] = state[q] /\ pid'[q] = pid[q] /\ ptid'[q] = ptid[q]
           /\ t_flag'[q] = t_flag[q] /\ owned'[q] = owned[q],
         nextpid \in Nat, \A q \in Slots : pid[q] \in Nat,
         loc'[p] = Loc("alloc", n, th), \A q \in Slots : q # p => loc'[q] = loc[q],
         th => p # initproc /\ "thread_create" \in calls,
         ~th => p = initproc \/ "thread_create" \notin calls,
         UNCHANGED <<parent, killed, chan, kstack, main_thread, tid, kpages, calls>>
  PROVE  SInv'
<1>1. /\ parent' = parent /\ killed' = killed /\ chan' = chan /\ kstack' = kstack
      /\ main_thread' = main_thread /\ tid' = tid /\ kpages' = kpages /\ calls' = calls
  BY Zenon
<1>2. /\ \A q \in Slots : Alive(q)' <=> Alive(q)
      /\ \A q \in Slots : state'[q] = "UNUSED" <=> state[q] = "UNUSED" /\ q # n
      /\ \A q \in Slots : state'[q] = "EMBRYO" <=> state[q] = "EMBRYO" \/ q = n
      /\ \A q \in Slots : state'[q] = "ZOMBIE" <=> state[q] = "ZOMBIE"
      /\ \A q \in Slots : state'[q] = "SLEEPING" <=> state[q] = "SLEEPING"
      /\ p # n /\ Alive(p) /\ ~Alive(n)
  BY DEF Alive
<1>3. loc'[p].op = "alloc" /\ loc'[p].arg = n /\ loc'[p].thread = th
  BY DEF Loc
<1>4. /\ Makes(p)' /\ New(p)' = n /\ ~Makes(n)'
      /\ \A q \in Slots : q # p => (Makes(q)' <=> Makes(q)) /\ New(q)' = New(q)
  <2>1. "alloc" \in Making
    BY DEF Making
  <2> QED
    BY <1>2, <1>3, <2>1, Zenon DEF Makes, New
<1>5. parent[n] = 0 /\ ~kstack[n]
  BY Zenon DEF SInv, Parents, Parented, StackCount
<1>6. Embryos'
  <2>1. ASSUME NEW q \in Slots, q # p, Makes(q)' PROVE Embryo(q)' /\ New(q)' = New(q) /\ New(q) # n
    <3>1. Makes(q) /\ loc'[q] = loc[q] /\ Embryo(q)
      BY <1>4, <2>1, Zenon DEF SInv, Embryos
    <3> DEFINE x == New(q)
    <3>2. x \in Slots /\ state[x] = "EMBRYO" /\ x = New(q)
      BY <3>1, Zenon DEF Embryo
    <3> HIDE DEF x
    <3>3. x # n
      BY <3>2, Zenon
    <3>4. state'[x] = "EMBRYO" /\ t_flag'[x] = t_flag[x] /\ owned'[x] = owned[x]
      BY <3>2, <3>3, Zenon
    <3>5. kstack'[x] = kstack[x] /\ parent'[x] = parent[x] /\ main_thread'[x] = main_thread[x]
      BY <1>1, Zenon
    <3>6. Embryo(q)' /\ New(q)' = New(q)
      BY <3>1, <3>2, <3>4, <3>5, KeepEmbryo
    <3> QED
      BY <3>2, <3>3, <3>6, Zenon
  <2>2. Embryo(p)'
    BY <1>1, <1>3, <1>4, <1>5, Zenon DEF Embryo
  <2>3. ASSUME NEW q \in Slots, NEW r \in Slots, Makes(q)', Makes(r)', New(q)' = New(r)' PROVE q = r
    <3>1. CASE q = p
      BY <1>4, <2>1, <2>3, <3>1, Zenon
    <3>2. CASE r = p
      BY <1>4, <2>1, <2>3, <3>2, Zenon
    <3>3. CASE q # p /\ r # p
      <4>1. Makes(q) /\ Makes(r) /\ New(q) = New(r)
        BY <1>4, <2>3, <3>3
      <4> QED
        BY <4>1, Zenon DEF SInv, Embryos
    <3> QED
      BY <3>1, <3>2, <3>3, Zenon
  <2> QED
    BY <2>1, <2>2, <2>3, Zenon DEF Embryos
<1>7. StackCount'
  BY <1>1, <1>2, KeepStacks, Zenon DEF SInv, StackCount
<1>8. initproc \in Slots /\ Alive(initproc) /\ initproc # n
  BY <1>2, ProcAssumption DEF initproc, Slots, SInv, InitLives
<1>9. InitLives'
  <2>1. CASE p = initproc
    <3>1. t_flag'[initproc] = t_flag[initproc]
      BY <1>8, Zenon
    <3> QED
      BY <1>1, <1>2, <1>3, <1>8, <2>1, <3>1 DEF SInv, InitLives
  <2>2. CASE p # initproc
    BY <1>1, <1>2, <1>4, <1>8, <2>2, Zenon DEF SInv, InitLives
  <2> QED
    BY <2>1, <2>2, Zenon
<1>10. Sleepers' /\ Waiters'
  <2>1. \A q \in Slots : state'[q] = "SLEEPING" =>
          state[q] = "SLEEPING" /\ chan'[q] = chan[q] /\ loc'[q] = loc[q] /\ (killed'[q] <=> killed[q])
    BY <1>1, <1>2, Zenon
  <2>2. ASSUME NEW q \in Slots, state'[q] = "SLEEPING", loc[q].op = "join"
        PROVE  \E k \in Slots : main_thread'[k] = q /\ tid'[k] = loc[q].arg
    <3>1. JoinOk(q)
      BY <2>1, <2>2, Zenon DEF SInv, Waiters
    <3>2. PICK k \in Slots : main_thread[k] = q /\ tid[k] = loc[q].arg
      BY <2>2, <3>1, Zenon DEF JoinOk, Lwps
    <3> QED
      BY <1>1, <3>2, Zenon
  <2>3. \A k \in Slots : /\ parent'[k] = parent[k] /\ main_thread'[k] = main_thread[k] /\ tid'[k] = tid[k]
                         /\ state'[k] = "ZOMBIE" <=> state[k] = "ZOMBIE"
    BY <1>1, <1>2, Zenon
  <2> QED
    BY <2>1, <2>2, <2>3, KeepWaiters, Zenon DEF SInv
<1>11. Parents' /\ Apart(calls)'
  <2>1. ASSUME NEW q \in Slots, Parented(q) PROVE Parented(q)'
    BY <1>1, <1>2, <1>5, <2>1, Zenon DEF Parented
  <2> QED
    BY <1>1, <2>1, Zenon DEF SInv, Parents, Apart
<1>12. NoOrphans'
  <2>1. \A q \in Slots : Alive(q)' \/ state'[q] = "ZOMBIE" => (Alive(q) \/ state[q] = "ZOMBIE") /\ q # n
    BY <1>2, Zenon
  <2>2. ASSUME NEW q \in Slots \ {initproc}, Alive(q)' \/ state'[q] = "ZOMBIE", ~t_flag'[q]
        PROVE  parent'[q] # 0 /\ Alive(parent[q])'
    <3>0. ~t_flag[q]
      BY <2>1, <2>2, Zenon
    <3>1. parent[q] # 0 /\ Alive(parent[q])
      BY <1>1, <2>1, <2>2, <3>0, Zenon DEF SInv, NoOrphans
    <3>2. parent[q] \in Slots
      BY <3>1, Zenon DEF SInv, Parents, Parented
    <3> QED
      BY <1>1, <1>2, <3>1, <3>2, Zenon
  <2> QED
    BY <1>1, <2>2, Zenon DEF NoOrphans
<1>14. NoLwps'
  <2>1. SUFFICES ASSUME "thread_create" \notin calls PROVE PidsKnown' /\ \A q \in Slots : Plain(q)'
    BY <1>1, Zenon DEF NoLwps
  <2>2. PidsKnown /\ \A q \in Slots : Plain(q)
    BY <2>1, Zenon DEF SInv, NoLwps
  <2>3. PidsKnown'
    <3>1. \A q \in Slots : pid[q] < nextpid
      BY <2>2, Zenon DEF PidsKnown
    <3>2. nextpid > 0
      BY <2>2, Zenon DEF PidsKnown
    <3>3. nextpid' > 0 /\ nextpid # 0
      BY <3>2
    <3>4. \A q \in Slots : pid'[q] < nextpid'
      BY <3>1
    <3>5. \A q \in Slots : pid[q] # nextpid
      BY <3>1
    <3>6. \A q \in Slots : state'[q] # "UNUSED" => ptid'[q] = pid'[q] /\ pid'[q] # 0
      <4>1. \A q \in Slots : state[q] # "UNUSED" => ptid[q] = pid[q] /\ pid[q] # 0
        BY <2>2, Zenon DEF PidsKnown
      <4> QED
        BY <3>3, <4>1, Zenon
    <3>7. ASSUME NEW q \in Slots, NEW r \in Slots, pid'[q] = pid'[r], pid'[q] # 0 PROVE q = r
      <4>1. \A x, y \in Slots : pid[x] = pid[y] /\ pid[x] # 0 => x = y
        BY <2>2, Zenon DEF PidsKnown
      <4>2. CASE q = n \/ r = n
        BY <3>5, <3>7, <4>2, ZenonT(30)
      <4>3. CASE q # n /\ r # n
        <5>1. pid'[q] = pid[q] /\ pid'[r] = pid[r]
          BY <4>3, Zenon
        <5> QED
          BY <3>7, <4>1, <5>1, ZenonT(30)
      <4> QED
        BY <4>2, <4>3, Zenon
    <3> QED
      BY <3>3, <3>4, <3>6, <3>7, Zenon DEF PidsKnown
  <2>4. ASSUME NEW q \in Slots PROVE Plain(q)'
    <3>0. Plain(q)
      BY <2>2, Zenon
    <3>1. owned'[q] = {} /\ ~t_flag'[q]
      BY <3>0, Zenon DEF Plain
    <3>2. CASE q = p
      BY <1>1, <1>3, <2>1, <3>0, <3>1, <3>2 DEF Plain
    <3>3. CASE q # p
      BY <1>1, <3>0, <3>1, <3>3, Zenon DEF Plain
    <3> QED
      BY <3>2, <3>3, Zenon
  <2> QED
    BY <2>3, <2>4, Zenon
<1>15. OnlyLwps'
  <2>1. SUFFICES ASSUME "thread_create" \in calls PROVE OnlyLwps'
    BY <1>1, Zenon DEF OnlyLwps
  <2>2. \A q \in Slots : Lwp(q) /\ OwnedReal(q) /\ JoinReal(q)
    BY <2>1, Zenon DEF SInv, OnlyLwps
  <2>3. \A q, r \in Slots : \A u : r # n => (Created(q, u, r)' <=> Created(q, u, r))
    BY <1>1, Zenon DEF Created
  <2>4. ASSUME NEW q \in Slots, NEW r \in Slots, NEW u, Backed(q, u, r), Alive(q) PROVE Backed(q, u, r)'
    <3>1. loc[q].op = "go" => q # p /\ Makes(q) /\ New(q) # n
      <4>1. "go" \in Making
        BY DEF Making
      <4> QED
        BY <2>4, <4>1, ZenonT(30) DEF SInv, Embryos, Embryo, Makes
    <3>2. r # n
      BY <2>4, <1>2, <3>1, Zenon DEF Backed
    <3> QED
      BY <1>2, <1>4, <2>3, <2>4, <3>1, <3>2, Zenon DEF Backed
  <2>5. ASSUME NEW q \in Slots PROVE Lwp(q)'
    <3>0. Lwp(q)
      BY <2>2, Zenon
    <3>1. CASE q = p
      <4>1. t_flag'[p] = t_flag[p] /\ owned'[p] = owned[p]
        BY <1>2, Zenon
      <4>2. "alloc" \notin {"exit", "thread_exit", "join"}
        OBVIOUS
      <4>3. ~th => p = initproc
        BY <2>1, Zenon
      <4> QED
        BY <1>1, <1>2, <1>3, <1>4, <3>0, <3>1, <4>1, <4>2, <4>3, Zenon DEF Lwp
    <3>2. CASE q = n
      BY <1>1, <1>2, <1>4, <3>0, <3>2, Zenon DEF Lwp
    <3>3. CASE q # p /\ q # n
      BY <1>1, <1>2, <1>4, <3>0, <3>3, ZenonT(30) DEF Lwp
    <3> QED
      BY <3>1, <3>2, <3>3, Zenon
  <2>6. ASSUME NEW q \in Slots PROVE OwnedReal(q)'
    <3>1. owned'[q] \subseteq owned[q]
      BY Zenon
    <3> QED
      BY <1>2, <2>2, <2>4, <3>1, Zenon DEF OwnedReal
  <2>7. ASSUME NEW q \in Slots PROVE JoinReal(q)'
    <3>1. SUFFICES ASSUME state[q] = "SLEEPING", loc[q].op = "join", loc'[q] = loc[q]
                   PROVE  \E r \in Slots : Created(q, loc[q].arg, r)' /\ Alive(r)'
      BY <1>2, Zenon DEF JoinReal
    <3>2. PICK r \in Slots : Created(q, loc[q].arg, r) /\ Alive(r)
      BY <2>2, <3>1, Zenon DEF JoinReal
    <3>3. r # n
      BY <1>2, <3>2, Zenon
    <3>4. Created(q, loc[q].arg, r)'
      BY <1>1, <3>1, <3>2, <3>3, Zenon DEF Created
    <3> QED
      BY <1>2, <3>2, <3>4, Zenon
  <2> QED
    BY <2>5, <2>6, <2>7, Zenon DEF OnlyLwps
<1> QED
  BY <1>6, <1>7, <1>9, <1>10, <1>11, <1>12, <1>14, <1>15, Zenon DEF SInv

-----------------------------------------------------------------------------
\* allocproc gets a kernel stack for p's new slot.
LEMMA StackStep ==
  ASSUME SlotSets, SInv, NEW p \in Slots, NEW n, n = New(p), state[p] = "RUNNING", loc[p].op = "alloc",
         loc'[p].op = IF loc[p].thread THEN "allocuvm" ELSE "copyuvm",
         loc'[p].arg = loc[p].arg, loc'[p].thread = loc[p].thread,
         \A q \in Slots : q # p => loc'[q] = loc[q],
         n \in Slots => kstack'[n],
         \A q \in Slots : q # n => kstack'[q] = kstack[q], kpages' = kpages + 1,
         UNCHANGED <<state, pid, parent, killed, chan, threadVars, nextpid, owned, calls>>
  PROVE  SInv'
<1>1. /\ state' = state /\ pid' = pid /\ ptid' = ptid /\ parent' = parent /\ killed' = killed
      /\ chan' = chan /\ t_flag' = t_flag /\ main_thread' = main_thread /\ owned' = owned
      /\ tid' = tid /\ nextpid' = nextpid /\ calls' = calls
  BY Zenon DEF threadVars
<1>2. Makes(p) /\ Alive(p)
  BY DEF Makes, Making, Alive
<1>3. /\ n \in Slots /\ state[n] = "EMBRYO" /\ ~kstack[n] /\ parent[n] = 0 /\ ~t_flag[n]
      /\ owned[n] = {} /\ kstack'[n]
  BY <1>2, Zenon DEF SInv, Embryos, Embryo
<1>4. /\ Makes(p)' /\ New(p)' = n
      /\ \A q \in Slots : q # p => (Makes(q)' <=> Makes(q)) /\ New(q)' = New(q)
      /\ \A q \in Slots : Alive(q)' <=> Alive(q)
  <2>1. loc'[p].op \in Making
    BY DEF Making
  <2> QED
    BY <1>1, <1>2, <2>1, Zenon DEF Makes, New, Alive
<1>5. Embryos'
  <2>1. ASSUME NEW q \in Slots, q # p, Makes(q)' PROVE Embryo(q)'
    <3>1. Makes(q) /\ loc'[q] = loc[q] /\ Embryo(q)
      BY <1>4, <2>1, Zenon DEF SInv, Embryos
    <3> DEFINE x == New(q)
    <3>2. x \in Slots /\ state[x] = "EMBRYO" /\ x = New(q)
      BY <3>1, Zenon DEF Embryo
    <3> HIDE DEF x
    <3>3. x # n
      BY <1>2, <2>1, <3>1, <3>2, Zenon DEF SInv, Embryos
    <3>4. kstack'[x] = kstack[x]
      BY <3>2, <3>3, Zenon
    <3> QED
      BY <1>1, <3>1, <3>2, <3>4, KeepEmbryo, ZenonT(30)
  <2>2. Embryo(p)'
    <3>1. loc'[p].op # "go" /\ loc'[p].op # "alloc"
      OBVIOUS
    <3>2. /\ loc'[p].op = "allocuvm" => loc'[p].thread
          /\ loc'[p].op = "copyuvm" => ~loc'[p].thread
      OBVIOUS
    <3> QED
      BY <1>1, <1>3, <1>4, <3>1, <3>2, Zenon DEF Embryo
  <2>3. ASSUME NEW q \in Slots, NEW r \in Slots, Makes(q)', Makes(r)', New(q)' = New(r)' PROVE q = r
    <3>1. Makes(q) /\ Makes(r) /\ New(q) = New(r)
      BY <1>2, <1>4, <2>3, ZenonT(30)
    <3> QED
      BY <3>1, Zenon DEF SInv, Embryos
  <2> QED
    BY <2>1, <2>2, <2>3, Zenon DEF Embryos
<1>6. StackCount'
  <2>1. kpages' = Cardinality({q \in Slots : kstack'[q]})
    BY <1>3, CountStacks DEF SInv
  <2>2. \A q \in Slots : kstack[q] => kstack'[q]
    BY <1>3, Zenon
  <2>3. \A q \in Slots : state[q] = "UNUSED" => q # n
    BY <1>3, Zenon
  <2> QED
    BY <1>1, <1>4, <2>1, <2>2, <2>3, Zenon DEF SInv, StackCount
<1>7. InitLives'
  <2>1. CASE p = initproc
    <3>1. ~loc[p].thread
      BY <1>2, <2>1, Zenon DEF SInv, InitLives
    <3>2. loc'[p].op = "copyuvm"
      BY <3>1, Zenon
    <3> QED
      BY <1>1, <1>4, <2>1, <3>1, <3>2 DEF SInv, InitLives
  <2>2. CASE p # initproc
    <3>1. initproc \in Slots
      BY ProcAssumption DEF initproc, Slots
    <3> QED
      BY <1>1, <1>4, <2>2, <3>1, Zenon DEF SInv, InitLives
  <2> QED
    BY <2>1, <2>2, Zenon
<1>8. Sleepers' /\ Waiters'
  <2>1. \A q \in Slots : state'[q] = "SLEEPING" => loc'[q] = loc[q]
    BY <1>1, Zenon
  <2>2. \A q \in Slots : state'[q] = "SLEEPING" /\ loc[q].op = "join" =>
          \E k \in Slots : main_thread'[k] = q /\ tid'[k] = loc[q].arg
    BY <1>1, Zenon DEF SInv, Waiters, JoinOk, Lwps
  <2> QED
    BY <1>1, <2>1, <2>2, KeepWaiters, Zenon DEF SInv
<1>9. Parents' /\ Apart(calls)' /\ NoOrphans'
  <2>1. Parents'
    BY <1>1, ZenonT(30) DEF SInv, Parents, Parented
  <2>2. Apart(calls)'
    BY <1>1, Zenon DEF SInv, Apart
  <2>3. NoOrphans'
    BY <1>1, Zenon DEF SInv, NoOrphans, Alive
  <2> QED
    BY <2>1, <2>2, <2>3, Zenon
<1>10. NoLwps'
  <2>1. SUFFICES ASSUME "thread_create" \notin calls PROVE PidsKnown' /\ \A q \in Slots : Plain(q)'
    BY <1>1, Zenon DEF NoLwps
  <2>2. PidsKnown /\ \A q \in Slots : Plain(q)
    BY <2>1, Zenon DEF SInv, NoLwps
  <2>3. PidsKnown'
    BY <1>1, <2>2, KeepPids, Zenon
  <2>4. ASSUME NEW q \in Slots PROVE Plain(q)'
    <3>0. Plain(q)
      BY <2>2, Zenon
    <3>1. CASE q = p
      <4>1. ~loc[p].thread /\ ~loc'[p].thread
        BY <3>0, <3>1, Zenon DEF Plain
      <4>2. loc'[p].op = "copyuvm"
        BY <4>1, Zenon
      <4> QED
        BY <1>1, <3>0, <3>1, <4>1, <4>2 DEF Plain
    <3>2. CASE q # p
      BY <1>1, <3>0, <3>2, Zenon DEF Plain
    <3> QED
      BY <3>1, <3>2, Zenon
  <2> QED
    BY <2>3, <2>4, Zenon
<1>11. OnlyLwps'
  <2>1. SUFFICES ASSUME "thread_create" \in calls PROVE OnlyLwps'
    BY <1>1, Zenon DEF OnlyLwps
  <2>2. \A q \in Slots : Lwp(q) /\ OwnedReal(q) /\ JoinReal(q)
    BY <2>1, Zenon DEF SInv, OnlyLwps
  <2>3. \A q, r \in Slots : \A u : Created(q, u, r)' <=> Created(q, u, r)
    BY <1>1, Zenon DEF Created
  <2>4. \A q, r \in Slots : \A u : Backed(q, u, r) => Backed(q, u, r)'
    <3>1. \A q \in Slots : loc[q].op = "go" => q # p
      BY Zenon
    <3> QED
      BY <1>1, <1>4, <2>3, <3>1, Zenon DEF Backed
  <2>5. ASSUME NEW q \in Slots PROVE Lwp(q)'
    <3>0. Lwp(q)
      BY <2>2, Zenon
    <3>1. CASE q = p
      <4>1. loc'[p].op \notin {"exit", "thread_exit", "join"}
        OBVIOUS
      <4> QED
        BY <1>1, <1>2, <1>4, <3>0, <3>1, <4>1, Zenon DEF Lwp
    <3>2. CASE q # p
      BY <1>1, <1>4, <3>0, <3>2, Zenon DEF Lwp
    <3> QED
      BY <3>1, <3>2, Zenon
  <2>6. \A q \in Slots : OwnedReal(q)'
    BY <1>1, <1>4, <2>2, <2>4, Zenon DEF OwnedReal
  <2>7. ASSUME NEW q \in Slots PROVE JoinReal(q)'
    <3>1. SUFFICES ASSUME state[q] = "SLEEPING", loc[q].op = "join", loc'[q] = loc[q]
                   PROVE  \E r \in Slots : Created(q, loc[q].arg, r)' /\ Alive(r)'
      BY <1>1, Zenon DEF JoinReal
    <3>2. PICK r \in Slots : Created(q, loc[q].arg, r) /\ Alive(r)
      BY <2>2, <3>1, Zenon DEF JoinReal
    <3>4. Created(q, loc[q].arg, r)'
      BY <1>1, <3>1, <3>2, Zenon DEF Created
    <3> QED
      BY <1>4, <3>2, <3>4, Zenon
  <2> QED
    BY <2>5, <2>6, <2>7, Zenon DEF OnlyLwps
<1> QED
  BY <1>5, <1>6, <1>7, <1>8, <1>9, <1>10, <1>11, Zenon DEF SInv

-----------------------------------------------------------------------------
\* fork gives up the slot it took for p, and the kernel stack if there is one.
LEMMA DropStep ==
  ASSUME SlotSets, SInv, NEW p \in Slots, NEW n, n = New(p), state[p] = "RUNNING",
         loc[p].op \in {"alloc", "copyuvm"}, loc'[p] = User,
         \A q \in Slots : q # p => loc'[q] = loc[q],
         n \in Slots => state'[n] = "UNUSED" /\ ~kstack'[n],
         \A q \in Slots : q # n => state'[q] = state[q] /\ kstack'[q] = kstack[q],
         loc[p].op = "alloc" => kstack' = kstack /\ kpages' = kpages,
         loc[p].op = "copyuvm" => kpages' = kpages - 1,
         UNCHANGED <<pid, parent, killed, chan, threadVars, nextpid, owned, calls>>
  PROVE  SInv'
<1>1. /\ pid' = pid /\ ptid' = ptid /\ parent' = parent /\ killed' = killed
      /\ chan' = chan /\ t_flag' = t_flag /\ main_thread' = main_thread /\ owned' = owned
      /\ tid' = tid /\ nextpid' = nextpid /\ calls' = calls
  BY Zenon DEF threadVars
<1>2. Makes(p) /\ Alive(p)
  BY DEF Makes, Making, Alive
<1>3. /\ n \in Slots /\ state[n] = "EMBRYO" /\ parent[n] = 0 /\ ~t_flag[n]
      /\ (kstack[n] <=> loc[p].op # "alloc") /\ state'[n] = "UNUSED" /\ ~kstack'[n]
  <2>1. Embryo(p)
    BY <1>2, Zenon DEF SInv, Embryos
  <2>2. loc[p].op # "go"
    OBVIOUS
  <2> QED
    BY <2>1, <2>2, Zenon DEF Embryo
<1>4. /\ \A q \in Slots : Alive(q)' <=> Alive(q)
      /\ \A q \in Slots : state'[q] = "UNUSED" <=> state[q] = "UNUSED" \/ q = n
      /\ \A q \in Slots : state'[q] = "ZOMBIE" <=> state[q] = "ZOMBIE"
      /\ \A q \in Slots : state'[q] = "SLEEPING" <=> state[q] = "SLEEPING"
      /\ \A q \in Slots : Alive(q) \/ state[q] = "ZOMBIE" => q # n
  BY <1>3 DEF Alive
<1>5. loc'[p].op = "user" /\ loc'[p].thread = FALSE
  BY DEF User, Loc
<1>6. ~Makes(p)' /\ \A q \in Slots : q # p => (Makes(q)' <=> Makes(q)) /\ New(q)' = New(q)
  <2>1. "user" \notin Making
    BY DEF Making
  <2> QED
    BY <1>4, <1>5, <2>1, Zenon DEF Makes, New
<1>7. Embryos'
  <2>1. ASSUME NEW q \in Slots, Makes(q)' PROVE Embryo(q)'
    <3>1. Makes(q) /\ loc'[q] = loc[q] /\ Embryo(q) /\ q # p
      BY <1>6, <2>1, Zenon DEF SInv, Embryos
    <3> DEFINE x == New(q)
    <3>2. x \in Slots /\ state[x] = "EMBRYO" /\ x = New(q)
      BY <3>1, Zenon DEF Embryo
    <3> HIDE DEF x
    <3>3. x # n
      BY <1>2, <3>1, <3>2, Zenon DEF SInv, Embryos
    <3>4. kstack'[x] = kstack[x] /\ state'[x] = state[x]
      BY <3>2, <3>3, Zenon
    <3> QED
      BY <1>1, <3>1, <3>2, <3>4, KeepEmbryo, ZenonT(30)
  <2>2. ASSUME NEW q \in Slots, NEW r \in Slots, Makes(q)', Makes(r)', New(q)' = New(r)' PROVE q = r
    BY <1>6, <2>2, Zenon DEF SInv, Embryos
  <2> QED
    BY <2>1, <2>2, Zenon DEF Embryos
<1>8. StackCount'
  <2>1. kpages' = Cardinality({q \in Slots : kstack'[q]})
    <3>1. CASE loc[p].op = "alloc"
      BY <3>1, Zenon DEF SInv, StackCount
    <3>2. CASE loc[p].op = "copyuvm"
      BY <1>3, <3>2, CountStacks DEF SInv
    <3> QED
      BY <3>1, <3>2, Zenon
  <2>2. \A q \in Slots : Alive(q)' \/ state'[q] = "ZOMBIE" => kstack'[q]
    BY <1>4, Zenon DEF SInv, StackCount
  <2>3. \A q \in Slots : state'[q] = "UNUSED" => ~kstack'[q]
    BY <1>3, <1>4, Zenon DEF SInv, StackCount
  <2> QED
    BY <2>1, <2>2, <2>3, Zenon DEF StackCount
<1>9. InitLives'
  <2>1. CASE p = initproc
    <3>1. "user" \notin {"exit", "thread_exit", "allocuvm", "join"}
      OBVIOUS
    <3> QED
      BY <1>1, <1>4, <1>5, <1>6, <2>1, <3>1, Zenon DEF SInv, InitLives
  <2>2. CASE p # initproc
    <3>1. initproc \in Slots
      BY ProcAssumption DEF initproc, Slots
    <3> QED
      BY <1>1, <1>4, <1>6, <2>2, <3>1, Zenon DEF SInv, InitLives
  <2> QED
    BY <2>1, <2>2, Zenon
<1>10. Sleepers' /\ Waiters'
  <2>1. \A q \in Slots : state'[q] = "SLEEPING" => state[q] = "SLEEPING" /\ loc'[q] = loc[q]
    BY <1>4, Zenon
  <2>2. \A q \in Slots : state'[q] = "SLEEPING" /\ loc[q].op = "join" =>
          \E k \in Slots : main_thread'[k] = q /\ tid'[k] = loc[q].arg
    BY <1>1, <2>1, Zenon DEF SInv, Waiters, JoinOk, Lwps
  <2> QED
    BY <1>1, <1>4, <2>1, <2>2, KeepWaiters, ZenonT(30) DEF SInv
<1>11. Parents' /\ Apart(calls)'
  <2>1. \A q \in Slots : Parented(q) => Parented(q)'
    BY <1>1, <1>3, <1>4, Zenon DEF Parented
  <2> QED
    BY <1>1, <2>1, Zenon DEF SInv, Parents, Apart
<1>12. NoOrphans'
  BY <1>1, <1>4, KeepFamilies, Zenon DEF SInv
<1>13. NoLwps'
  <2>1. SUFFICES ASSUME "thread_create" \notin calls PROVE PidsKnown' /\ \A q \in Slots : Plain(q)'
    BY <1>1, Zenon DEF NoLwps
  <2>2. PidsKnown /\ \A q \in Slots : Plain(q)
    BY <2>1, Zenon DEF SInv, NoLwps
  <2>3. PidsKnown'
    BY <1>1, <1>4, <2>2, KeepPids, Zenon
  <2>4. ASSUME NEW q \in Slots PROVE Plain(q)'
    <3>0. Plain(q) /\ "user" \notin {"join", "thread_exit", "allocuvm"}
      BY <2>2
    <3> QED
      BY <1>1, <1>5, <3>0, Zenon DEF Plain
  <2> QED
    BY <2>3, <2>4, Zenon
<1>14. OnlyLwps'
  <2>1. SUFFICES ASSUME "thread_create" \in calls PROVE OnlyLwps'
    BY <1>1, Zenon DEF OnlyLwps
  <2>2. \A q \in Slots : Lwp(q) /\ OwnedReal(q) /\ JoinReal(q)
    BY <2>1, Zenon DEF SInv, OnlyLwps
  <2>3. \A q, r \in Slots : \A u : Created(q, u, r)' <=> Created(q, u, r)
    BY <1>1, Zenon DEF Created
  <2>4. \A q, r \in Slots : \A u : Backed(q, u, r) => Backed(q, u, r)'
    <3>1. \A q \in Slots : loc[q].op = "go" => q # p
      OBVIOUS
    <3> QED
      BY <1>1, <1>4, <1>6, <2>3, <3>1, Zenon DEF Backed
  <2>5. ASSUME NEW q \in Slots PROVE Lwp(q)'
    <3>0. Lwp(q)
      BY <2>2, Zenon
    <3>1. CASE q = p
      <4>1. "user" \notin {"exit", "thread_exit", "join"}
        OBVIOUS
      <4> QED
        BY <1>1, <1>4, <1>5, <1>6, <3>0, <3>1, <4>1, Zenon DEF Lwp
    <3>2. CASE q # p
      BY <1>1, <1>4, <1>6, <3>0, <3>2, Zenon DEF Lwp
    <3> QED
      BY <3>1, <3>2, Zenon
  <2>6. \A q \in Slots : OwnedReal(q)'
    BY <1>1, <1>4, <2>2, <2>4, Zenon DEF OwnedReal
  <2>7. ASSUME NEW q \in Slots PROVE JoinReal(q)'
    <3>1. SUFFICES ASSUME state[q] = "SLEEPING", loc[q].op = "join", loc'[q] = loc[q]
                   PROVE  \E r \in Slots : Created(q, loc[q].arg, r)' /\ Alive(r)'
      BY <1>4, Zenon DEF JoinReal
    <3>2. PICK r \in Slots : Created(q, loc[q].arg, r) /\ Alive(r)
      BY <2>2, <3>1, Zenon DEF JoinReal
    <3>4. Created(q, loc[q].arg, r)'
      BY <1>1, <3>1, <3>2, Zenon DEF Created
    <3> QED
      BY <1>4, <3>2, <3>4, Zenon
  <2> QED
    BY <2>5, <2>6, <2>7, Zenon DEF OnlyLwps
<1> QED
  BY <1>7, <1>8, <1>9, <1>10, <1>11, <1>12, <1>13, <1>14, Zenon DEF SInv

-----------------------------------------------------------------------------
\* fork makes p the parent of the slot n that it fills.
LEMMA CopyStep ==
  ASSUME SInv, NEW p \in Slots, NEW n, n = New(p), state[p] = "RUNNING", loc[p].op = "copyuvm",
         loc'[p].op = "go", loc'[p].arg = loc[p].arg, loc'[p].thread = loc[p].thread,
         \A q \in Slots : q # p => loc'[q] = loc[q],
         n \in Slots => parent'[n] = p, \A q \in Slots : q # n => parent'[q] = parent[q],
         UNCHANGED <<state, pid, killed, chan, kstack, threadVars, nextpid, kpages, owned, calls>>
  PROVE  SInv'
<1>1. /\ state' = state /\ pid' = pid /\ ptid' = ptid /\ killed' = killed
      /\ chan' = chan /\ t_flag' = t_flag /\ main_thread' = main_thread /\ owned' = owned
      /\ tid' = tid /\ nextpid' = nextpid /\ calls' = calls /\ kstack' = kstack /\ kpages' = kpages
  BY Zenon DEF threadVars
<1>2. Makes(p) /\ Alive(p)
  BY DEF Makes, Making, Alive
<1>3. /\ n \in Slots /\ state[n] = "EMBRYO" /\ kstack[n] /\ parent[n] = 0 /\ ~t_flag[n]
      /\ owned[n] = {} /\ ~loc[p].thread /\ parent'[n] = p
  <2>1. Embryo(p)
    BY <1>2, Zenon DEF SInv, Embryos
  <2>2. "copyuvm" # "go" /\ "copyuvm" # "alloc"
    OBVIOUS
  <2> QED
    BY <2>1, <2>2, Zenon DEF Embryo
<1>4. /\ Makes(p)' /\ New(p)' = n
      /\ \A q \in Slots : q # p => (Makes(q)' <=> Makes(q)) /\ New(q)' = New(q)
      /\ \A q \in Slots : Alive(q)' <=> Alive(q)
      /\ ~Alive(n) /\ p # n
  <2>1. loc'[p].op \in Making
    BY DEF Making
  <2>2. ~Alive(n)
    BY <1>3 DEF Alive
  <2> QED
    BY <1>1, <1>2, <2>1, <2>2, Zenon DEF Makes, New, Alive
<1>5. Embryos'
  <2>1. ASSUME NEW q \in Slots, q # p, Makes(q)' PROVE Embryo(q)'
    <3>1. Makes(q) /\ loc'[q] = loc[q] /\ Embryo(q)
      BY <1>4, <2>1, Zenon DEF SInv, Embryos
    <3> DEFINE x == New(q)
    <3>2. x \in Slots /\ state[x] = "EMBRYO" /\ x = New(q)
      BY <3>1, Zenon DEF Embryo
    <3> HIDE DEF x
    <3>3. x # n
      BY <1>2, <2>1, <3>1, <3>2, Zenon DEF SInv, Embryos
    <3>4. parent'[x] = parent[x]
      BY <3>2, <3>3, Zenon
    <3> QED
      BY <1>1, <3>1, <3>2, <3>4, KeepEmbryo, Zenon
  <2>2. Embryo(p)'
    <3>1. "go" \notin {"alloc", "allocuvm", "copyuvm"}
      OBVIOUS
    <3> QED
      BY <1>1, <1>3, <1>4, <3>1, Zenon DEF Embryo
  <2>3. ASSUME NEW q \in Slots, NEW r \in Slots, Makes(q)', Makes(r)', New(q)' = New(r)' PROVE q = r
    <3>1. Makes(q) /\ Makes(r) /\ New(q) = New(r)
      BY <1>2, <1>4, <2>3, Zenon
    <3> QED
      BY <3>1, Zenon DEF SInv, Embryos
  <2> QED
    BY <2>1, <2>2, <2>3, Zenon DEF Embryos
<1>6. StackCount'
  BY <1>1, ZenonT(30) DEF SInv, StackCount, Alive
<1>7. initproc \in Slots /\ Alive(initproc) /\ initproc # n
  BY <1>4, ProcAssumption DEF initproc, Slots, SInv, InitLives
<1>8. InitLives'
  <2>1. parent'[initproc] = 0
    BY <1>7, Zenon DEF SInv, InitLives
  <2>2. CASE p = initproc
    <3>1. "go" \notin {"exit", "thread_exit", "allocuvm", "join"}
      OBVIOUS
    <3> QED
      BY <1>1, <1>3, <1>4, <2>1, <2>2, <3>1, Zenon DEF SInv, InitLives
  <2>3. CASE p # initproc
    BY <1>1, <1>4, <1>7, <2>1, <2>3, Zenon DEF SInv, InitLives
  <2> QED
    BY <2>2, <2>3, Zenon
<1>9. Sleepers' /\ Waiters'
  <2>1. \A q \in Slots : state'[q] = "SLEEPING" => q # p /\ loc'[q] = loc[q]
    BY <1>1, Zenon
  <2>2. \A q \in Slots : state'[q] = "SLEEPING" /\ loc[q].op = "join" =>
          \E k \in Slots : main_thread'[k] = q /\ tid'[k] = loc[q].arg
    BY <1>1, Zenon DEF SInv, Waiters, JoinOk, Lwps
  <2>3. \A q \in Slots : q # 0
    BY DEF Slots
  <2>4. \A q, k \in Slots : q # p => (parent'[k] = q <=> parent[k] = q)
    BY <1>3, <2>3, Zenon
  <2> QED
    BY <1>1, <2>1, <2>2, <2>4, KeepWaiters, ZenonT(30) DEF SInv
<1>10. Parents' /\ Apart(calls)'
  <2>1. ASSUME NEW q \in Slots, Parented(q) PROVE Parented(q)'
    <3>1. CASE q = n
      <4>1. state[n] # "UNUSED" /\ p \in Slots \cup {0}
        BY <1>3
      <4> QED
        BY <1>1, <1>3, <1>4, <3>1, <4>1, Zenon DEF Parented
    <3>2. CASE q # n
      BY <1>1, <2>1, <3>2, Zenon DEF Parented
    <3> QED
      BY <3>1, <3>2, Zenon
  <2> QED
    BY <1>1, <2>1, Zenon DEF SInv, Parents, Apart
<1>11. NoOrphans'
  <2>1. \A q \in Slots : Alive(q)' \/ state'[q] = "ZOMBIE" => q # n
    BY <1>1, <1>3, <1>4
  <2>2. \A q \in Slots : Alive(q)' \/ state'[q] = "ZOMBIE" =>
          (Alive(q) \/ state[q] = "ZOMBIE") /\ (t_flag'[q] <=> t_flag[q]) /\ parent'[q] = parent[q]
    BY <1>1, <1>4, <2>1, Zenon
  <2> QED
    BY <1>4, <2>2, KeepFamilies, Zenon DEF SInv
<1>12. NoLwps'
  <2>1. SUFFICES ASSUME "thread_create" \notin calls PROVE PidsKnown' /\ \A q \in Slots : Plain(q)'
    BY <1>1, Zenon DEF NoLwps
  <2>2. PidsKnown /\ \A q \in Slots : Plain(q)
    BY <2>1, Zenon DEF SInv, NoLwps
  <2>3. PidsKnown'
    BY <1>1, <2>2, KeepPids, Zenon
  <2>4. ASSUME NEW q \in Slots PROVE Plain(q)'
    <3>0. Plain(q) /\ "go" \notin {"join", "thread_exit", "allocuvm"}
      BY <2>2
    <3> QED
      BY <1>1, <3>0, Zenon DEF Plain
  <2> QED
    BY <2>3, <2>4, Zenon
<1>13. ASSUME "thread_create" \in calls PROVE OnlyLwps'
  <2>2. \A q \in Slots : Lwp(q)
    BY <1>13, Zenon DEF SInv, OnlyLwps
  <2>3. \A q, r \in Slots : \A u : Created(q, u, r)' <=> Created(q, u, r)
    BY <1>1, Zenon DEF Created
  <2>4. \A q, r \in Slots : \A u : Backed(q, u, r) => Backed(q, u, r)'
    <3>1. \A q \in Slots : loc[q].op = "go" => q # p
      OBVIOUS
    <3> QED
      BY <1>1, <1>4, <2>3, <3>1, Zenon DEF Backed
  <2>5. ASSUME NEW q \in Slots PROVE Lwp(q)'
    <3>0. Lwp(q)
      BY <2>2, Zenon
    <3>1. CASE q = p
      <4>1. "go" \notin {"exit", "thread_exit", "join"}
        OBVIOUS
      <4>2. parent'[p] = parent[p]
        BY <1>4, Zenon
      <4> QED
        BY <1>1, <1>2, <1>4, <3>0, <3>1, <4>1, <4>2, Zenon DEF Lwp
    <3>2. CASE q = n
      BY <1>1, <1>4, <3>0, <3>2, Zenon DEF Lwp
    <3>3. CASE q # p /\ q # n
      BY <1>1, <1>4, <3>0, <3>3, Zenon DEF Lwp
    <3> QED
      BY <3>1, <3>2, <3>3, Zenon
  <2>6. \A q \in Slots : state'[q] = "SLEEPING" => state[q] = "SLEEPING" /\ loc'[q] = loc[q]
    BY <1>1, Zenon
  <2>7. \A q, r \in Slots : Created(q, loc[q].arg, r) => main_thread'[r] = q /\ tid'[r] = loc[q].arg /\ t_flag'[r]
    BY <1>1, Zenon DEF Created
  <2>8. \A q \in Slots : Alive(q)' => Alive(q) /\ owned'[q] \subseteq owned[q]
    BY <1>1, <1>4, Zenon
  <2>9. \A q, r \in Slots : \A u \in owned'[q] : Alive(q)' /\ Backed(q, u, r) => Backed(q, u, r)'
    BY <2>4, Zenon
  <2>10. \A q, r \in Slots : Alive(r) => Alive(r)'
    BY <1>4, Zenon
  <2>11. OnlyLwps /\ calls' = calls
    BY <1>1, Zenon DEF SInv
  <2> QED
    BY <1>13, <2>5, <2>6, <2>7, <2>8, <2>9, <2>10, <2>11, KeepLwps, ZenonT(30)
<1>14. OnlyLwps'
  BY <1>1, <1>13, Zenon DEF OnlyLwps
<1> QED
  BY <1>5, <1>6, <1>8, <1>9, <1>10, <1>11, <1>12, <1>14, Zenon DEF SInv

-----------------------------------------------------------------------------
\* thread_create makes slot n an LWP of p, under a thread id t.
LEMMA SetupStep ==
  ASSUME SInv, NEW p \in Slots, NEW n, n = New(p), NEW t, state[p] = "RUNNING", loc[p].op = "allocuvm",
         loc'[p].op = "go", loc'[p].arg = loc[p].arg, loc'[p].thread = loc[p].thread,
         \A q \in Slots : q # p => loc'[q] = loc[q] /\ owned'[q] = owned[q],
         owned'[p] = owned[p] \cup {t},
         n \in Slots => t_flag'[n] /\ main_thread'[n] = p /\ tid'[n] = t,
         \A q \in Slots : q # n =>
           t_flag'[q] = t_flag[q] /\ main_thread'[q] = main_thread[q] /\ tid'[q] = tid[q],
         UNCHANGED <<state, pid, parent, killed, chan, kstack, nextpid, kpages, calls>>
  PROVE  SInv'
<1>1. /\ state' = state /\ pid' = pid /\ parent' = parent /\ killed' = killed /\ chan' = chan
      /\ nextpid' = nextpid /\ calls' = calls /\ kstack' = kstack /\ kpages' = kpages
  BY Zenon
<1>2. Makes(p) /\ Alive(p)
  BY DEF Makes, Making, Alive
<1>3. /\ n \in Slots /\ state[n] = "EMBRYO" /\ kstack[n] /\ parent[n] = 0 /\ ~t_flag[n]
      /\ owned[n] = {} /\ loc[p].thread /\ t_flag'[n] /\ main_thread'[n] = p /\ tid'[n] = t
  <2>1. Embryo(p)
    BY <1>2, Zenon DEF SInv, Embryos
  <2>2. "allocuvm" # "go" /\ "allocuvm" # "alloc"
    OBVIOUS
  <2> QED
    BY <2>1, <2>2, Zenon DEF Embryo
<1>4. /\ Makes(p)' /\ New(p)' = n
      /\ \A q \in Slots : q # p => (Makes(q)' <=> Makes(q)) /\ New(q)' = New(q)
      /\ \A q \in Slots : Alive(q)' <=> Alive(q)
      /\ ~Alive(n) /\ p # n
      /\ \A q \in Slots : Alive(q) \/ state[q] = "ZOMBIE" => q # n
  <2>1. loc'[p].op \in Making
    BY DEF Making
  <2>2. ~Alive(n)
    BY <1>3 DEF Alive
  <2>3. \A q \in Slots : state[q] = "ZOMBIE" => q # n
    BY <1>3
  <2> QED
    BY <1>1, <1>2, <2>1, <2>2, <2>3, Zenon DEF Makes, New, Alive
<1>5. "thread_create" \in calls /\ p # initproc
  BY Zenon DEF SInv, NoLwps, Plain, InitLives
<1>6. Embryos'
  <2>1. ASSUME NEW q \in Slots, q # p, Makes(q)' PROVE Embryo(q)'
    <3>1. Makes(q) /\ loc'[q] = loc[q] /\ Embryo(q)
      BY <1>4, <2>1, Zenon DEF SInv, Embryos
    <3> DEFINE x == New(q)
    <3>2. x \in Slots /\ state[x] = "EMBRYO" /\ x = New(q)
      BY <3>1, Zenon DEF Embryo
    <3> HIDE DEF x
    <3>3. x # n /\ x # p
      BY <1>2, <2>1, <3>1, <3>2, Zenon DEF SInv, Embryos
    <3>4. t_flag'[x] = t_flag[x] /\ main_thread'[x] = main_thread[x] /\ owned'[x] = owned[x]
      BY <3>2, <3>3, Zenon
    <3>5. state'[x] = "EMBRYO" /\ kstack'[x] = kstack[x] /\ parent'[x] = parent[x]
      BY <1>1, <3>2, Zenon
    <3> QED
      BY <3>1, <3>2, <3>4, <3>5, KeepEmbryo
  <2>2. Embryo(p)'
    <3>1. "go" \notin {"alloc", "allocuvm", "copyuvm"}
      OBVIOUS
    <3>2. owned'[n] = {}
      BY <1>3, <1>4, Zenon
    <3> QED
      BY <1>1, <1>3, <1>4, <3>1, <3>2, ZenonT(30) DEF Embryo
  <2>3. ASSUME NEW q \in Slots, NEW r \in Slots, Makes(q)', Makes(r)', New(q)' = New(r)' PROVE q = r
    <3>0. \A x \in Slots : Makes(x)' => Makes(x) /\ New(x)' = New(x)
      BY <1>2, <1>4, ZenonT(30)
    <3>1. Makes(q) /\ Makes(r) /\ New(q) = New(r)
      BY <2>3, <3>0
    <3> QED
      BY <3>1, Zenon DEF SInv, Embryos
  <2> QED
    BY <2>1, <2>2, <2>3, ZenonT(30) DEF Embryos
<1>7. StackCount'
  <2>1. \A q \in Slots : Alive(q)' \/ state'[q] = "ZOMBIE" => kstack[q]
    BY <1>1, <1>4, Zenon DEF SInv, StackCount
  <2>2. \A q \in Slots : state'[q] = "UNUSED" => ~kstack[q]
    BY <1>1, ZenonT(30) DEF SInv, StackCount
  <2> QED
    BY <1>1, <2>1, <2>2, KeepStacks, Zenon DEF SInv
<1>8. InitLives'
  <2>1. initproc \in Slots /\ Alive(initproc) /\ initproc # n
    BY <1>4, ProcAssumption DEF initproc, Slots, SInv, InitLives
  <2>2. ~t_flag'[initproc]
    BY <2>1, Zenon DEF SInv, InitLives
  <2> QED
    BY <1>1, <1>4, <1>5, <2>1, <2>2, Zenon DEF SInv, InitLives
<1>9. Sleepers' /\ Waiters'
  <2>1. \A q \in Slots : state'[q] = "SLEEPING" => q # p /\ loc'[q] = loc[q]
    BY <1>1, Zenon
  <2>2. ASSUME NEW q \in Slots, state'[q] = "SLEEPING", loc[q].op = "join"
        PROVE  \E k \in Slots : main_thread'[k] = q /\ tid'[k] = loc[q].arg
    <3>1. PICK k \in Slots : Created(q, loc[q].arg, k) /\ Alive(k)
      BY <1>1, <1>5, <2>2, ZenonT(30) DEF SInv, OnlyLwps, JoinReal
    <3>2. k # n
      BY <1>4, <3>1, Zenon
    <3> QED
      BY <3>1, <3>2, ZenonT(30) DEF Created
  <2>3. \A k \in Slots : state'[k] = "ZOMBIE" => main_thread'[k] = main_thread[k] /\ tid'[k] = tid[k]
    BY <1>1, <1>4, Zenon
  <2> QED
    BY <1>1, <2>1, <2>2, <2>3, KeepWaiters, ZenonT(30) DEF SInv
<1>10. Parents' /\ Apart(calls)'
  <2>1. ASSUME NEW q \in Slots, Parented(q) PROVE Parented(q)'
    <3>1. CASE q = n
      BY <1>1, <1>3, <2>1, <3>1, Zenon DEF Parented
    <3>2. CASE q # n
      BY <1>1, <2>1, <3>2, Zenon DEF Parented
    <3> QED
      BY <3>1, <3>2, Zenon
  <2> QED
    BY <1>1, <2>1, Zenon DEF SInv, Parents, Apart
<1>11. NoOrphans'
  <2>1. \A q \in Slots : Alive(q)' \/ state'[q] = "ZOMBIE" =>
          (Alive(q) \/ state[q] = "ZOMBIE") /\ (t_flag'[q] <=> t_flag[q]) /\ parent'[q] = parent[q]
    BY <1>1, <1>4, Zenon
  <2> QED
    BY <1>4, <2>1, KeepFamilies, Zenon DEF SInv
<1>12. NoLwps'
  BY <1>1, <1>5, Zenon DEF NoLwps
<1>13. OnlyLwps'
  <2>2. \A q \in Slots : Lwp(q) /\ OwnedReal(q) /\ JoinReal(q)
    BY <1>5, Zenon DEF SInv, OnlyLwps
  <2>3. \A q, r \in Slots : \A u : r # n => (Created(q, u, r)' <=> Created(q, u, r))
    BY <1>1, Zenon DEF Created
  <2>4. ASSUME NEW q \in Slots, NEW r \in Slots, NEW u, Backed(q, u, r), Alive(q) PROVE Backed(q, u, r)'
    <3>1. loc[q].op = "go" => q # p /\ Makes(q) /\ New(q) # n
      <4>1. "go" \in Making /\ "go" # "allocuvm"
        BY DEF Making
      <4> QED
        BY <1>2, <2>4, <4>1, ZenonT(30) DEF SInv, Embryos, Makes
    <3>2. r # n
      BY <2>4, <1>4, <3>1, Zenon DEF Backed
    <3> QED
      BY <1>1, <1>4, <2>3, <2>4, <3>1, <3>2, Zenon DEF Backed
  <2>5. ASSUME NEW q \in Slots PROVE Lwp(q)'
    <3>0. Lwp(q)
      BY <2>2, Zenon
    <3>1. CASE q = p
      <4>1. "go" \notin {"exit", "thread_exit", "join"}
        OBVIOUS
      <4>2. t_flag'[p] = t_flag[p]
        BY <1>4, Zenon
      <4> QED
        BY <1>1, <1>2, <1>3, <1>4, <3>0, <3>1, <4>1, <4>2, Zenon DEF Lwp
    <3>2. CASE q = n
      BY <1>1, <1>3, <1>4, <3>0, <3>2, Zenon DEF Lwp
    <3>3. CASE q # p /\ q # n
      BY <1>1, <1>4, <3>0, <3>3, Zenon DEF Lwp
    <3> QED
      BY <3>1, <3>2, <3>3, Zenon
  <2>6. ASSUME NEW q \in Slots PROVE OwnedReal(q)'
    <3>1. SUFFICES ASSUME Alive(q)', NEW u \in owned'[q] PROVE \E r \in Slots : Backed(q, u, r)'
      BY Zenon DEF OwnedReal
    <3>2. CASE u \in owned[q]
      <4>1. PICK r \in Slots : Backed(q, u, r)
        BY <1>4, <2>2, <3>1, <3>2, Zenon DEF OwnedReal
      <4> QED
        BY <1>4, <2>4, <3>1, <4>1, Zenon
    <3>3. CASE u \notin owned[q]
      <4>1. q = p /\ u = t
        BY <3>1, <3>3, ZenonT(30)
      <4>2. Backed(q, u, n)'
        BY <1>3, <1>4, <4>1, Zenon DEF Backed, Created
      <4> QED
        BY <1>3, <4>2, Zenon
    <3> QED
      BY <3>2, <3>3, Zenon
  <2>7. ASSUME NEW q \in Slots PROVE JoinReal(q)'
    <3>1. SUFFICES ASSUME state[q] = "SLEEPING", loc[q].op = "join", loc'[q] = loc[q]
                   PROVE  \E r \in Slots : Created(q, loc[q].arg, r)' /\ Alive(r)'
      BY <1>1, Zenon DEF JoinReal
    <3>2. PICK r \in Slots : Created(q, loc[q].arg, r) /\ Alive(r)
      BY <2>2, <3>1, Zenon DEF JoinReal
    <3>3. r # n
      BY <1>4, <3>2, Zenon
    <3>4. Created(q, loc[q].arg, r)'
      BY <1>1, <3>1, <3>2, <3>3, Zenon DEF Created
    <3> QED
      BY <1>4, <3>2, <3>4, Zenon
  <2> QED
    BY <2>5, <2>6, <2>7, Zenon DEF OnlyLwps
<1> QED
  BY <1>6, <1>7, <1>8, <1>9, <1>10, <1>11, <1>12, <1>13, Zenon DEF SInv

-----------------------------------------------------------------------------
\* The slot n that p filled becomes RUNNABLE.
LEMMA GoStep ==
  ASSUME SInv, NEW p \in Slots, NEW n, n = New(p), state[p] = "RUNNING", loc[p].op = "go",
         loc'[p] = User, n \in Slots => loc'[n] = User /\ state'[n] = "RUNNABLE",
         \A q \in Slots : q # p /\ q # n => loc'[q] = loc[q],
         \A q \in Slots : q # n => state'[q] = state[q],
         UNCHANGED <<pid, parent, killed, chan, kstack, threadVars, nextpid, kpages, owned, calls>>
  PROVE  SInv'
<1>1. /\ pid' = pid /\ ptid' = ptid /\ parent' = parent /\ killed' = killed
      /\ kstack' = kstack /\ t_flag' = t_flag /\ main_thread' = main_thread /\ owned' = owned
      /\ tid' = tid /\ nextpid' = nextpid /\ kpages' = kpages /\ calls' = calls /\ chan' = chan
  BY Zenon DEF threadVars
<1>2. Makes(p) /\ Alive(p)
  BY DEF Makes, Making, Alive
<1>3. /\ n \in Slots /\ state[n] = "EMBRYO" /\ kstack[n] /\ owned[n] = {}
      /\ loc[p].thread => t_flag[n] /\ parent[n] = 0 /\ main_thread[n] = p
      /\ ~loc[p].thread => ~t_flag[n] /\ parent[n] = p
      /\ state'[n] = "RUNNABLE" /\ loc'[n] = User
  <2>1. Embryo(p)
    BY <1>2, Zenon DEF SInv, Embryos
  <2>2. "go" # "alloc"
    OBVIOUS
  <2> QED
    BY <2>1, <2>2, Zenon DEF Embryo
<1>4. /\ \A q \in Slots : Alive(q)' <=> Alive(q) \/ q = n
      /\ \A q \in Slots : state'[q] = "UNUSED" <=> state[q] = "UNUSED"
      /\ \A q \in Slots : state'[q] = "ZOMBIE" <=> state[q] = "ZOMBIE"
      /\ \A q \in Slots : state'[q] = "SLEEPING" <=> state[q] = "SLEEPING"
      /\ \A q \in Slots : state[q] = "SLEEPING" => q # n /\ q # p
      /\ ~Alive(n) /\ n # p
  BY <1>3 DEF Alive
<1>5. User.op = "user" /\ User.thread = FALSE /\ "user" \notin Making
  BY DEF User, Loc, Making
<1>6. /\ ~Makes(p)' /\ ~Makes(n)'
      /\ \A q \in Slots : q # p /\ q # n => (Makes(q)' <=> Makes(q)) /\ New(q)' = New(q)
  <2>1. ~Makes(p)' /\ ~Makes(n)'
    BY <1>3, <1>5, Zenon DEF Makes
  <2>2. \A q \in Slots : q # p /\ q # n => (Alive(q)' <=> Alive(q))
    BY <1>4, Zenon
  <2> QED
    BY <2>1, <2>2, Zenon DEF Makes, New
<1>7. Embryos'
  <2>1. ASSUME NEW q \in Slots, Makes(q)' PROVE Embryo(q)'
    <3>1. Makes(q) /\ loc'[q] = loc[q] /\ Embryo(q) /\ q # p
      BY <1>6, <2>1, Zenon DEF SInv, Embryos
    <3> DEFINE x == New(q)
    <3>2. x \in Slots /\ state[x] = "EMBRYO" /\ x = New(q)
      BY <3>1, Zenon DEF Embryo
    <3> HIDE DEF x
    <3>3. x # n
      BY <1>2, <3>1, <3>2, Zenon DEF SInv, Embryos
    <3>4. state'[x] = state[x]
      BY <3>2, <3>3, Zenon
    <3> QED
      BY <1>1, <3>1, <3>2, <3>4, KeepEmbryo, Zenon
  <2>2. ASSUME NEW q \in Slots, NEW r \in Slots, Makes(q)', Makes(r)', New(q)' = New(r)' PROVE q = r
    BY <1>6, <2>2, Zenon DEF SInv, Embryos
  <2> QED
    BY <2>1, <2>2, Zenon DEF Embryos
<1>8. StackCount'
  <2>1. \A q \in Slots : Alive(q)' \/ state'[q] = "ZOMBIE" => kstack[q]
    BY <1>3, <1>4, Zenon DEF SInv, StackCount
  <2>2. \A q \in Slots : state'[q] = "UNUSED" => ~kstack[q]
    BY <1>4, Zenon DEF SInv, StackCount
  <2> QED
    BY <1>1, <2>1, <2>2, KeepStacks, Zenon DEF SInv
<1>9. InitLives'
  <2>1. initproc \in Slots /\ Alive(initproc) /\ initproc # n
    BY <1>4, ProcAssumption DEF initproc, Slots, SInv, InitLives
  <2>2. "user" \notin {"exit", "thread_exit", "allocuvm", "join"}
    OBVIOUS
  <2>3. CASE p = initproc
    BY <1>1, <1>4, <1>5, <1>6, <2>1, <2>2, <2>3, Zenon DEF SInv, InitLives
  <2>4. CASE p # initproc
    BY <1>1, <1>4, <1>6, <2>1, <2>4, Zenon DEF SInv, InitLives
  <2> QED
    BY <2>3, <2>4, Zenon
<1>10. Sleepers' /\ Waiters'
  <2>1. \A q \in Slots : state'[q] = "SLEEPING" => state[q] = "SLEEPING" /\ loc'[q] = loc[q]
    BY <1>4, Zenon
  <2>2. \A q \in Slots : state'[q] = "SLEEPING" /\ loc[q].op = "join" =>
          \E k \in Slots : main_thread'[k] = q /\ tid'[k] = loc[q].arg
    BY <1>1, <2>1, Zenon DEF SInv, Waiters, JoinOk, Lwps
  <2> QED
    BY <1>1, <1>4, <2>1, <2>2, KeepWaiters, ZenonT(30) DEF SInv
<1>11. Parents' /\ Apart(calls)'
  <2>1. \A q \in Slots : Parented(q) => Parented(q)'
    BY <1>1, <1>4, Zenon DEF Parented
  <2> QED
    BY <1>1, <2>1, Zenon DEF SInv, Parents, Apart
<1>12. NoOrphans'
  <2>1. ASSUME NEW q \in Slots \ {initproc}, Alive(q)' \/ state'[q] = "ZOMBIE", ~t_flag'[q]
        PROVE  parent'[q] # 0 /\ Alive(parent[q])'
    <3>1. \A r \in Slots : Alive(r) => state'[r] \in {"SLEEPING", "RUNNABLE", "RUNNING"}
      BY <1>4, Zenon DEF Alive
    <3>2. CASE q = n
      <4>1. parent'[q] = p /\ p # 0
        BY <1>1, <1>3, <2>1, <3>2 DEF Slots
      <4> QED
        BY <1>2, <3>1, <4>1, Zenon DEF Alive
    <3>3. CASE q # n
      <4>1. (Alive(q) \/ state[q] = "ZOMBIE") /\ ~t_flag[q] /\ parent'[q] = parent[q]
        BY <1>1, <1>4, <2>1, <3>3, Zenon
      <4>2. parent[q] # 0 /\ Alive(parent[q])
        BY <4>1, Zenon DEF SInv, NoOrphans
      <4>3. parent[q] \in Slots
        BY <4>2, Zenon DEF SInv, Parents, Parented
      <4>4. state'[parent[q]] \in {"SLEEPING", "RUNNABLE", "RUNNING"}
        BY <3>1, <4>2, <4>3, Zenon
      <4> QED
        BY <4>1, <4>2, <4>4, Zenon DEF Alive
    <3> QED
      BY <3>2, <3>3, Zenon
  <2> QED
    BY <2>1, Zenon DEF NoOrphans
<1>13. NoLwps'
  <2>1. SUFFICES ASSUME "thread_create" \notin calls PROVE PidsKnown' /\ \A q \in Slots : Plain(q)'
    BY <1>1, Zenon DEF NoLwps
  <2>2. PidsKnown /\ \A q \in Slots : Plain(q)
    BY <2>1, Zenon DEF SInv, NoLwps
  <2>3. PidsKnown'
    BY <1>1, <1>4, <2>2, KeepPids, Zenon
  <2>4. ASSUME NEW q \in Slots PROVE Plain(q)'
    <3>0. Plain(q) /\ "user" \notin {"join", "thread_exit", "allocuvm"}
      BY <2>2
    <3>1. CASE q = p \/ q = n
      BY <1>1, <1>3, <1>5, <3>0, <3>1, ZenonT(30) DEF Plain
    <3>2. CASE q # p /\ q # n
      BY <1>1, <3>0, <3>2, Zenon DEF Plain
    <3> QED
      BY <3>1, <3>2, Zenon
  <2> QED
    BY <2>3, <2>4, Zenon
<1>14. OnlyLwps'
  <2>1. SUFFICES ASSUME "thread_create" \in calls PROVE OnlyLwps'
    BY <1>1, Zenon DEF OnlyLwps
  <2>2. \A q \in Slots : Lwp(q) /\ OwnedReal(q) /\ JoinReal(q)
    BY <2>1, Zenon DEF SInv, OnlyLwps
  <2>3. \A q, r \in Slots : \A u : Created(q, u, r)' <=> Created(q, u, r)
    BY <1>1, Zenon DEF Created
  <2>4. ASSUME NEW q \in Slots, NEW r \in Slots, NEW u, Backed(q, u, r), Alive(q) PROVE Backed(q, u, r)'
    <3>1. q # n
      BY <1>4, <2>4, Zenon
    <3>2. CASE r = n
      BY <1>3, <1>4, <2>3, <2>4, <3>2, Zenon DEF Backed
    <3>3. CASE r # n
      <4>1. Created(q, u, r)' /\ (Alive(r)' <=> Alive(r))
        BY <1>4, <2>3, <2>4, <3>3, Zenon DEF Backed
      <4>2. q = p => New(q) # r
        BY <3>3, Zenon
      <4>3. q # p => loc'[q] = loc[q] /\ New(q)' = New(q)
        BY <1>6, <3>1, Zenon
      <4> QED
        BY <1>4, <2>4, <4>1, <4>2, <4>3, Zenon DEF Backed
    <3> QED
      BY <3>2, <3>3, Zenon
  <2>5. ASSUME NEW q \in Slots PROVE Lwp(q)'
    <3>0. Lwp(q) /\ "user" \notin {"exit", "thread_exit", "join"}
      BY <2>2
    <3>1. CASE q = p
      BY <1>1, <1>4, <1>5, <1>6, <3>0, <3>1, Zenon DEF Lwp
    <3>2. CASE q = n
      <4>1. ~t_flag[n] => parent[n] = initproc
        <5>1. Lwp(p)
          BY <2>2, Zenon
        <5> QED
          BY <1>2, <1>3, <5>1, Zenon DEF Lwp
      <4> QED
        BY <1>1, <1>3, <1>4, <1>5, <1>6, <3>0, <3>2, <4>1, Zenon DEF Lwp
    <3>3. CASE q # p /\ q # n
      BY <1>1, <1>4, <1>6, <3>0, <3>3, Zenon DEF Lwp
    <3> QED
      BY <3>1, <3>2, <3>3, Zenon
  <2>6. ASSUME NEW q \in Slots PROVE OwnedReal(q)'
    <3>1. SUFFICES ASSUME Alive(q)', NEW u \in owned'[q] PROVE \E r \in Slots : Backed(q, u, r)'
      BY Zenon DEF OwnedReal
    <3>2. q # n /\ u \in owned[q]
      BY <1>1, <1>3, <3>1, Zenon
    <3>3. Alive(q)
      BY <1>4, <3>1, <3>2, Zenon
    <3>4. PICK r \in Slots : Backed(q, u, r)
      BY <2>2, <3>2, <3>3, Zenon DEF OwnedReal
    <3> QED
      BY <2>4, <3>3, <3>4, Zenon
  <2>7. ASSUME NEW q \in Slots PROVE JoinReal(q)'
    <3>1. SUFFICES ASSUME state[q] = "SLEEPING", loc[q].op = "join", loc'[q] = loc[q]
                   PROVE  \E r \in Slots : Created(q, loc[q].arg, r)' /\ Alive(r)'
      BY <1>4, Zenon DEF JoinReal
    <3>2. PICK r \in Slots : Created(q, loc[q].arg, r) /\ Alive(r)
      BY <2>2, <3>1, Zenon DEF JoinReal
    <3>4. Created(q, loc[q].arg, r)'
      BY <1>1, <3>1, <3>2, Zenon DEF Created
    <3> QED
      BY <1>4, <3>2, <3>4, Zenon
  <2> QED
    BY <2>5, <2>6, <2>7, Zenon DEF OnlyLwps
<1> QED
  BY <1>7, <1>8, <1>9, <1>10, <1>11, <1>12, <1>13, <1>14, Zenon DEF SInv

-----------------------------------------------------------------------------
\* p exits: its children go to init, and it wakes its parent, and init when
\* init inherits a zombie.
LEMMA ExitStep ==
  ASSUME SInv, NEW p \in Slots, state[p] = "RUNNING", loc[p].op = "exit", loc'[p] = None,
         \A q \in Slots : q # p => loc'[q] = loc[q],
         state' = [q \in Slots |->
                     IF q = p \/ (ptid[q] = pid[p] /\ state[q] # "UNUSED")
                       THEN "ZOMBIE" ELSE Woken(state, ExitWakes(p))[q]],
         Reparent(p),
         killed' = [q \in Slots |->
                      killed[q] \/ (t_flag[p] /\ (ptid[q] = ptid[p] \/ main_thread[p] = q))],
         UNCHANGED <<pid, chan, kstack, threadVars, nextpid, kpages, owned, calls>>
  PROVE  SInv'
<1>1. /\ pid' = pid /\ ptid' = ptid
      /\ kstack' = kstack /\ t_flag' = t_flag /\ main_thread' = main_thread /\ owned' = owned
      /\ tid' = tid /\ nextpid' = nextpid /\ kpages' = kpages /\ calls' = calls /\ chan' = chan
  BY Zenon DEF threadVars
<1>2. "thread_create" \notin calls
  BY Zenon DEF SInv, OnlyLwps, Lwp
<1>3. PidsKnown /\ \A q \in Slots : Plain(q)
  BY <1>2, Zenon DEF SInv, NoLwps
<1>4. \A q \in Slots : killed'[q] <=> killed[q]
  <2>1. ~t_flag[p]
    BY <1>3, Zenon DEF Plain
  <2> QED
    BY <2>1, Zenon
<1>5. \A q \in Slots : ptid[q] = pid[p] /\ state[q] # "UNUSED" => q = p
  <2>1. pid[p] # 0
    BY <1>3 DEF PidsKnown
  <2> QED
    BY <1>3, <2>1, Zenon DEF PidsKnown
<1>6. /\ state'[p] = "ZOMBIE"
      /\ \A q \in Slots : q # p =>
           state'[q] = IF state[q] = "SLEEPING" /\ chan[q] \in ExitWakes(p) THEN "RUNNABLE" ELSE state[q]
  BY <1>5, Zenon DEF Woken
<1>7. \A q \in Slots : parent'[q] = IF parent[q] = p THEN initproc ELSE parent[q]
  BY Zenon DEF Reparent
<1>8. /\ \A q \in Slots : Alive(q)' <=> Alive(q) /\ q # p
      /\ \A q \in Slots : state'[q] = "UNUSED" <=> state[q] = "UNUSED"
      /\ \A q \in Slots : state'[q] = "EMBRYO" <=> state[q] = "EMBRYO"
      /\ \A q \in Slots : state'[q] = "ZOMBIE" <=> state[q] = "ZOMBIE" \/ q = p
      /\ Alive(p)
  BY <1>6 DEF Alive
<1>9. \A q \in Slots : state'[q] = "SLEEPING" => state[q] = "SLEEPING" /\ q # p /\ q \notin ExitWakes(p)
  <2>1. \A q \in Slots : state'[q] = "SLEEPING" => state[q] = "SLEEPING" /\ q # p /\ chan[q] \notin ExitWakes(p)
    BY <1>6, ZenonT(30)
  <2> QED
    BY <2>1, Zenon DEF SInv, Sleepers
<1>10. initproc \in Slots /\ p # initproc /\ initproc # 0 /\ p # 0
  BY ProcAssumption DEF initproc, Slots, SInv, InitLives
<1>11. \A q \in Slots : Makes(q)' <=> Makes(q) /\ q # p
  BY <1>8, Zenon DEF Makes
<1>12. Embryos'
  <2>1. \A q \in Slots : Makes(q)' => Makes(q) /\ loc'[q] = loc[q]
    BY <1>11, Zenon
  <2>2. \A q, x \in Slots : Makes(q)' /\ parent[x] \in {0, q} => parent'[x] = parent[x]
    BY <1>7, <1>10, <1>11, Zenon
  <2> QED
    BY <1>1, <1>8, <2>1, <2>2, KeepEmbryos, ZenonT(30) DEF SInv
<1>13. StackCount'
  <2>1. \A q \in Slots : Alive(q)' \/ state'[q] = "ZOMBIE" => kstack[q]
    BY <1>8, Zenon DEF SInv, StackCount
  <2>2. \A q \in Slots : state'[q] = "UNUSED" => ~kstack[q]
    BY <1>8, Zenon DEF SInv, StackCount
  <2> QED
    BY <1>1, <2>1, <2>2, KeepStacks, Zenon DEF SInv
<1>14. InitLives'
  <2>1. parent'[initproc] = 0
    BY <1>7, <1>10, Zenon DEF SInv, InitLives
  <2> QED
    BY <1>1, <1>8, <1>10, <1>11, <2>1, Zenon DEF SInv, InitLives
<1>15. Sleepers' /\ Waiters'
  <2>1. ASSUME NEW q \in Slots, NEW k \in Slots, state'[q] = "SLEEPING"
        PROVE  /\ parent[k] = q => parent'[k] = q
               /\ parent'[k] = q /\ state'[k] = "ZOMBIE" => parent[k] = q /\ state[k] = "ZOMBIE"
    <3>1. q # p /\ q \notin ExitWakes(p)
      BY <1>9, <2>1, Zenon
    <3>2. parent[k] = q => parent'[k] = q
      BY <1>7, <3>1, Zenon
    <3>3. ASSUME parent'[k] = q, state'[k] = "ZOMBIE" PROVE parent[k] = q /\ state[k] = "ZOMBIE"
      <4>1. CASE k = p
        <5>1. parent[p] # p
          BY Zenon DEF SInv, Parents, Parented
        <5>2. parent[p] = q
          BY <1>7, <3>3, <4>1, <5>1, Zenon
        <5> QED
          BY <3>1, <5>2, Zenon DEF ExitWakes
      <4>2. CASE k # p
        <5>1. state[k] = "ZOMBIE"
          BY <1>8, <3>3, <4>2, Zenon
        <5>2. parent[k] # p
          <6>1. SUFFICES ASSUME parent[k] = p PROVE FALSE
            OBVIOUS
          <6>2. q = initproc
            BY <1>7, <3>3, <6>1, Zenon
          <6> QED
            BY <3>1, <5>1, <6>1, <6>2, ZenonT(30) DEF ExitWakes
        <5> QED
          BY <1>7, <3>3, <5>1, <5>2, Zenon
      <4> QED
        BY <4>1, <4>2, Zenon
    <3> QED
      BY <3>2, <3>3, Zenon
  <2>2. \A q \in Slots : loc[q].op # "join"
    BY <1>3, Zenon DEF Plain
  <2> QED
    BY <1>1, <1>4, <1>9, <2>1, <2>2, KeepWaiters, Zenon DEF SInv
<1>16. Parents' /\ Apart(calls)'
  <2>1. ASSUME NEW q \in Slots, Parented(q) PROVE Parented(q)'
    <3>1. CASE parent[q] = p
      <4>1. parent'[q] = initproc /\ q # initproc /\ initproc \in Slots \cup {0}
        BY <1>7, <1>10, <3>1 DEF SInv, InitLives
      <4>2. state[q] # "UNUSED" /\ ~t_flag[q]
        BY <1>10, <2>1, <3>1, Zenon DEF Parented
      <4> QED
        BY <1>1, <1>8, <4>1, <4>2, ZenonT(30) DEF Parented
    <3>2. CASE parent[q] # p
      BY <1>1, <1>7, <1>8, <2>1, <3>2, Zenon DEF Parented
    <3> QED
      BY <3>1, <3>2, Zenon
  <2> QED
    BY <1>1, <2>1, Zenon DEF SInv, Parents, Apart
<1>17. NoOrphans'
  <2>1. ASSUME NEW q \in Slots \ {initproc}, Alive(q)' \/ state'[q] = "ZOMBIE", ~t_flag'[q]
        PROVE  parent'[q] # 0 /\ Alive(parent[q])'
    <3>1. \A r \in Slots : Alive(r) /\ r # p => state'[r] \in {"SLEEPING", "RUNNABLE", "RUNNING"}
      BY <1>8, Zenon DEF Alive
    <3>2. CASE parent[q] = p
      <4>1. parent'[q] = initproc
        BY <1>7, <3>2, Zenon
      <4>2. Alive(initproc)
        BY Zenon DEF SInv, InitLives
      <4>3. state'[initproc] \in {"SLEEPING", "RUNNABLE", "RUNNING"}
        BY <1>10, <3>1, <4>2, Zenon
      <4> QED
        BY <1>10, <4>1, <4>3, Zenon DEF Alive
    <3>3. CASE parent[q] # p
      <4>1. (Alive(q) \/ state[q] = "ZOMBIE") /\ ~t_flag[q] /\ parent'[q] = parent[q]
        BY <1>1, <1>7, <1>8, <2>1, <3>3, Zenon
      <4>2. parent[q] # 0 /\ Alive(parent[q])
        BY <4>1, Zenon DEF SInv, NoOrphans
      <4>3. parent[q] \in Slots
        BY <4>2, Zenon DEF SInv, Parents, Parented
      <4>4. state'[parent[q]] \in {"SLEEPING", "RUNNABLE", "RUNNING"}
        BY <3>1, <3>3, <4>2, <4>3, Zenon
      <4> QED
        BY <4>1, <4>2, <4>4, Zenon DEF Alive
    <3> QED
      BY <3>2, <3>3, Zenon
  <2> QED
    BY <2>1, Zenon DEF NoOrphans
<1>18. NoLwps'
  <2>1. PidsKnown'
    BY <1>1, <1>3, <1>8, KeepPids, ZenonT(30)
  <2>2. None.op = "none" /\ None.thread = FALSE
    BY DEF None, Loc
  <2>3. ASSUME NEW q \in Slots PROVE Plain(q)'
    <3>0. Plain(q) /\ "none" \notin {"join", "thread_exit", "allocuvm"}
      BY <1>3, Zenon
    <3> QED
      BY <1>1, <2>2, <3>0, Zenon DEF Plain
  <2> QED
    BY <2>1, <2>3, Zenon DEF NoLwps
<1>19. OnlyLwps'
  BY <1>1, <1>2, Zenon DEF OnlyLwps
<1> QED
  BY <1>12, <1>13, <1>14, <1>15, <1>16, <1>17, <1>18, <1>19, Zenon DEF SInv

-----------------------------------------------------------------------------
\* The LWP p exits: it wakes its main_thread and leaves its own LWPs to init.
\* thread_exit makes the LWP a zombie and wakes its main thread.
LEMMA ThreadExitStep ==
  ASSUME SInv, NEW p \in Slots, state[p] = "RUNNING", loc[p].op = "thread_exit", loc'[p] = None,
         NEW Q, main_thread[p] \in Q,
         \A q \in Slots : q # p => loc'[q] = loc[q],
         state'[p] = "ZOMBIE",
         \A q \in Slots : q # p =>
           state'[q] = IF state[q] = "SLEEPING" /\ chan[q] \in Q THEN "RUNNABLE" ELSE state[q],
         \A q \in Slots : main_thread'[q] = IF main_thread[q] = p THEN initproc ELSE main_thread[q],
         UNCHANGED <<pid, parent, killed, chan, kstack, t_flag, ptid, tid, nextpid, kpages, owned, calls>>
  PROVE  SInv'
<1>1. /\ pid' = pid /\ ptid' = ptid /\ parent' = parent /\ killed' = killed
      /\ kstack' = kstack /\ t_flag' = t_flag /\ owned' = owned
      /\ tid' = tid /\ nextpid' = nextpid /\ kpages' = kpages /\ calls' = calls /\ chan' = chan
  BY Zenon
<1>2. "thread_create" \in calls /\ p # initproc
  BY Zenon DEF SInv, NoLwps, Plain, InitLives
<1>3. \A q \in Slots : Lwp(q) /\ OwnedReal(q) /\ JoinReal(q)
  BY <1>2, Zenon DEF SInv, OnlyLwps
<1>4. /\ \A q \in Slots : Alive(q)' <=> Alive(q) /\ q # p
      /\ \A q \in Slots : state'[q] = "UNUSED" <=> state[q] = "UNUSED"
      /\ \A q \in Slots : state'[q] = "EMBRYO" <=> state[q] = "EMBRYO"
      /\ \A q \in Slots : state'[q] = "ZOMBIE" <=> state[q] = "ZOMBIE" \/ q = p
      /\ Alive(p)
  BY Zenon DEF Alive
<1>5. \A q \in Slots : state'[q] = "SLEEPING" => state[q] = "SLEEPING" /\ q # p /\ main_thread[p] # q
  <2>1. \A q \in Slots : state'[q] = "SLEEPING" => state[q] = "SLEEPING" /\ q # p /\ chan[q] \notin Q
    OBVIOUS
  <2> QED
    BY <2>1, Zenon DEF SInv, Sleepers
<1>6. t_flag[p] /\ parent[p] = 0
  <2>1. Lwp(p)
    BY <1>3, Zenon
  <2>2. t_flag[p]
    BY <1>4, <2>1, Zenon DEF Lwp
  <2> QED
    BY <2>2, Zenon DEF SInv, Parents, Parented
<1>7. initproc \in Slots /\ initproc # 0 /\ p # 0 /\ \A q \in Slots : q # 0
  BY ProcAssumption DEF initproc, Slots
<1>8. \A q \in Slots : Makes(q)' <=> Makes(q) /\ q # p
  BY <1>4, Zenon DEF Makes
<1>9. \A q, r \in Slots : q # p /\ main_thread[r] = q => main_thread'[r] = q
  BY Zenon
<1>10. Embryos'
  <2>1. \A q \in Slots : Makes(q)' => Makes(q) /\ loc'[q] = loc[q]
    BY <1>8, Zenon
  <2> QED
    BY <1>1, <1>4, <1>8, <1>9, <2>1, KeepEmbryos, ZenonT(30) DEF SInv
<1>11. StackCount'
  <2>1. \A q \in Slots : Alive(q)' \/ state'[q] = "ZOMBIE" => kstack[q]
    BY <1>4, Zenon DEF SInv, StackCount
  <2>2. \A q \in Slots : state'[q] = "UNUSED" => ~kstack[q]
    BY <1>4, Zenon DEF SInv, StackCount
  <2> QED
    BY <1>1, <2>1, <2>2, KeepStacks, Zenon DEF SInv
<1>12. InitLives'
  BY <1>1, <1>2, <1>4, <1>7, <1>8, Zenon DEF SInv, InitLives
<1>13. Sleepers' /\ Waiters'
  <2>1. ASSUME NEW q \in Slots, state'[q] = "SLEEPING", loc[q].op = "join"
        PROVE  \E k \in Slots : main_thread'[k] = q /\ tid'[k] = loc[q].arg
    <3>1. PICK k \in Slots : Created(q, loc[q].arg, k) /\ Alive(k)
      BY <1>3, <1>5, <2>1, Zenon DEF JoinReal
    <3> QED
      BY <1>1, <1>5, <1>9, <2>1, <3>1 DEF Created
  <2>2. ASSUME NEW q \in Slots, NEW k \in Slots, state'[q] = "SLEEPING", loc[q].op = "join",
               main_thread'[k] = q, tid'[k] = loc[q].arg, state'[k] = "ZOMBIE"
        PROVE  main_thread[k] = q /\ tid[k] = loc[q].arg /\ state[k] = "ZOMBIE"
    <3>1. q # initproc
      BY <2>2, Zenon DEF SInv, InitLives
    <3>2. main_thread[k] = q
      BY <2>2, <3>1, Zenon
    <3> QED
      BY <1>1, <1>4, <1>5, <2>2, <3>2, ZenonT(30)
  <2>3. \A k \in Slots : parent'[k] = parent[k] /\ (state'[k] = "ZOMBIE" => state[k] = "ZOMBIE" \/ parent[k] = 0)
    BY <1>1, <1>4, <1>6, Zenon
  <2>4. \A q, k \in Slots : state'[q] = "SLEEPING" =>
          /\ parent[k] = q => parent'[k] = q
          /\ parent'[k] = q /\ state'[k] = "ZOMBIE" => parent[k] = q /\ state[k] = "ZOMBIE"
    BY <1>7, <2>3, Zenon
  <2>5. \A q \in Slots : state'[q] = "SLEEPING" =>
          state[q] = "SLEEPING" /\ chan'[q] = chan[q] /\ loc'[q] = loc[q] /\ (killed'[q] <=> killed[q])
    BY <1>1, <1>5, Zenon
  <2>6. Sleepers /\ Waiters
    BY Zenon DEF SInv
  <2> QED
    BY <2>1, <2>2, <2>4, <2>5, <2>6, KeepWaiters, ZenonT(30)
<1>14. Parents' /\ Apart(calls)'
  <2>1. \A q \in Slots : Parented(q) => Parented(q)'
    BY <1>1, <1>4, Zenon DEF Parented
  <2> QED
    BY <1>1, <2>1, Zenon DEF SInv, Parents, Apart
<1>15. NoOrphans'
  <2>1. ASSUME NEW q \in Slots \ {initproc}, Alive(q)' \/ state'[q] = "ZOMBIE", ~t_flag'[q]
        PROVE  parent'[q] # 0 /\ Alive(parent[q])'
    <3>1. Lwp(q) /\ ~t_flag[q] /\ q # p
      BY <1>1, <1>3, <1>6, <2>1, Zenon
    <3>2. Alive(q)
      BY <1>4, <2>1, <3>1, Zenon DEF Lwp
    <3>3. parent[q] = initproc
      BY <3>1, <3>2, Zenon DEF Lwp
    <3>4. Alive(initproc)'
      BY <1>2, <1>4, <1>7, Zenon DEF SInv, InitLives
    <3> QED
      BY <1>1, <1>7, <3>3, <3>4, Zenon DEF Alive
  <2> QED
    BY <2>1, Zenon DEF NoOrphans
<1>16. NoLwps'
  BY <1>1, <1>2, Zenon DEF NoLwps
<1>17. OnlyLwps'
  <2>1. ASSUME NEW q \in Slots, NEW r \in Slots, NEW u \in owned'[q], Alive(q)', Backed(q, u, r)
        PROVE  Backed(q, u, r)'
    <3>1. q # p /\ loc'[q] = loc[q] /\ New(q)' = New(q)
      BY <1>4, <2>1, Zenon DEF New
    <3>2. Created(q, u, r)'
      BY <1>1, <1>9, <2>1, <3>1, Zenon DEF Backed, Created
    <3> QED
      BY <1>4, <2>1, <3>1, <3>2, Zenon DEF Backed
  <2>2. ASSUME NEW q \in Slots PROVE Lwp(q)'
    <3>0. Lwp(q)
      BY <1>3, Zenon
    <3>1. CASE q = p
      <4>1. None.op = "none"
        BY DEF None, Loc
      <4> QED
        BY <1>1, <1>4, <1>6, <1>8, <3>0, <3>1, <4>1, ZenonT(30) DEF Lwp
    <3>2. CASE q # p
      BY <1>1, <1>4, <1>8, <3>0, <3>2, Zenon DEF Lwp
    <3> QED
      BY <3>1, <3>2, Zenon
  <2>3. ASSUME NEW q \in Slots, NEW r \in Slots, state'[q] = "SLEEPING", loc[q].op = "join",
               Created(q, loc[q].arg, r), Alive(r)
        PROVE  main_thread'[r] = q /\ tid'[r] = loc[q].arg /\ t_flag'[r] /\ Alive(r)'
    <3>1. q # p /\ r # p
      BY <1>5, <2>3, Zenon DEF Created
    <3> QED
      BY <1>1, <1>4, <1>9, <2>3, <3>1, Zenon DEF Created
  <2> QED
    BY <1>1, <1>2, <1>4, <1>5, <2>1, <2>2, <2>3, KeepLwps, ZenonT(30) DEF SInv
<1> QED
  BY <1>10, <1>11, <1>12, <1>13, <1>14, <1>15, <1>16, <1>17, Zenon DEF SInv

-----------------------------------------------------------------------------
\* p kills the process of slot k, and wakes it.
LEMMA KillStep ==
  ASSUME SInv, NEW p \in Slots, NEW k \in Slots, state[p] = "RUNNING", loc[p].op = "user",
         loc'[p] = User, \A q \in Slots : q # p => loc'[q] = loc[q],
         "thread_create" \notin calls,
         state'[k] = IF state[k] = "SLEEPING" THEN "RUNNABLE" ELSE state[k],
         \A q \in Slots : q # k => state'[q] = state[q] /\ killed'[q] = killed[q],
         UNCHANGED <<pid, parent, chan, kstack, threadVars, nextpid, kpages, owned, calls>>
  PROVE  SInv'
<1>1. /\ pid' = pid /\ ptid' = ptid /\ parent' = parent /\ chan' = chan
      /\ kstack' = kstack /\ t_flag' = t_flag /\ main_thread' = main_thread /\ owned' = owned
      /\ tid' = tid /\ nextpid' = nextpid /\ kpages' = kpages /\ calls' = calls
  BY Zenon DEF threadVars
<1>2. /\ \A q \in Slots : Alive(q)' <=> Alive(q)
      /\ \A q \in Slots : state'[q] = "UNUSED" <=> state[q] = "UNUSED"
      /\ \A q \in Slots : state'[q] = "EMBRYO" <=> state[q] = "EMBRYO"
      /\ \A q \in Slots : state'[q] = "ZOMBIE" <=> state[q] = "ZOMBIE"
      /\ \A q \in Slots : state'[q] = "SLEEPING" => state[q] = "SLEEPING" /\ q # k /\ q # p
  BY DEF Alive
<1>3. User.op = "user" /\ User.thread = FALSE /\ "user" \notin Making
  BY DEF User, Loc, Making
<1>4. \A q \in Slots : Makes(q)' <=> Makes(q) /\ q # p
  BY <1>2, <1>3, Zenon DEF Makes
<1>5. PidsKnown /\ \A q \in Slots : Plain(q)
  BY Zenon DEF SInv, NoLwps
<1>6. Embryos'
  <2>1. \A q \in Slots : Makes(q)' => Makes(q) /\ loc'[q] = loc[q]
    BY <1>4, Zenon
  <2> QED
    BY <1>1, <1>2, <2>1, KeepEmbryos, Zenon DEF SInv
<1>7. StackCount'
  BY <1>1, <1>2, KeepStacks, Zenon DEF SInv, StackCount
<1>8. InitLives'
  <2>1. initproc \in Slots /\ "user" \notin {"exit", "thread_exit", "allocuvm", "join"}
    BY ProcAssumption DEF initproc, Slots
  <2>2. CASE p = initproc
    BY <1>1, <1>2, <1>3, <1>4, <2>1, <2>2, Zenon DEF SInv, InitLives
  <2>3. CASE p # initproc
    BY <1>1, <1>2, <1>4, <2>1, <2>3, Zenon DEF SInv, InitLives
  <2> QED
    BY <2>2, <2>3, Zenon
<1>9. Sleepers' /\ Waiters'
  <2>1. \A q \in Slots : state'[q] = "SLEEPING" =>
          state[q] = "SLEEPING" /\ chan'[q] = chan[q] /\ loc'[q] = loc[q] /\ (killed'[q] <=> killed[q])
    BY <1>1, <1>2, Zenon
  <2>2. \A q \in Slots : loc[q].op # "join"
    BY <1>5, Zenon DEF Plain
  <2> QED
    BY <1>1, <1>2, <2>1, <2>2, KeepWaiters, Zenon DEF SInv
<1>10. Parents' /\ Apart(calls)'
  <2>1. \A q \in Slots : Parented(q) => Parented(q)'
    BY <1>1, <1>2, Zenon DEF Parented
  <2> QED
    BY <1>1, <2>1, Zenon DEF SInv, Parents, Apart
<1>11. NoOrphans'
  BY <1>1, <1>2, KeepFamilies, Zenon DEF SInv
<1>12. NoLwps'
  <2>1. PidsKnown'
    BY <1>1, <1>2, <1>5, KeepPids, Zenon
  <2>2. ASSUME NEW q \in Slots PROVE Plain(q)'
    <3>0. Plain(q) /\ "user" \notin {"join", "thread_exit", "allocuvm"}
      BY <1>5
    <3> QED
      BY <1>1, <1>3, <3>0, Zenon DEF Plain
  <2> QED
    BY <2>1, <2>2, Zenon DEF NoLwps
<1>13. OnlyLwps'
  BY <1>1, Zenon DEF OnlyLwps
<1> QED
  BY <1>6, <1>7, <1>8, <1>9, <1>10, <1>11, <1>12, <1>13, Zenon DEF SInv

-----------------------------------------------------------------------------
\* wait frees the slot k of a zombie child of p.
LEMMA ReapStep ==
  ASSUME SlotSets, SInv, NEW p \in Slots, NEW k \in Slots, state[p] = "RUNNING", loc[p].op \in {"user", "wait"},
         loc'[p] = User, \A q \in Slots : q # p => loc'[q] = loc[q],
         state[k] = "ZOMBIE", parent[k] = p, "thread_create" \notin calls,
         state'[k] = "UNUSED", pid'[k] = 0, parent'[k] = 0, ~kstack'[k],
         \A q \in Slots : q # k =>
           /\ state'[q] = state[q] /\ pid'[q] = pid[q] /\ parent'[q] = parent[q]
           /\ (killed'[q] <=> killed[q]) /\ (kstack'[q] <=> kstack[q]),
         \A q \in Slots : t_flag'[q] <=> t_flag[q],
         tid' = tid, kpages' = kpages - 1,
         UNCHANGED <<chan, main_thread, ptid, nextpid, owned, calls>>
  PROVE  SInv'
<1>1. /\ ptid' = ptid /\ chan' = chan /\ main_thread' = main_thread /\ owned' = owned
      /\ tid' = tid /\ nextpid' = nextpid /\ calls' = calls
  BY Zenon
<1>2. /\ \A q \in Slots : Alive(q)' <=> Alive(q)
      /\ \A q \in Slots : state'[q] = "UNUSED" <=> state[q] = "UNUSED" \/ q = k
      /\ \A q \in Slots : state'[q] = "EMBRYO" <=> state[q] = "EMBRYO"
      /\ \A q \in Slots : state'[q] = "ZOMBIE" <=> state[q] = "ZOMBIE" /\ q # k
      /\ \A q \in Slots : state'[q] = "SLEEPING" => state[q] = "SLEEPING" /\ q # k /\ q # p
      /\ k # p /\ ~Alive(k) /\ state[k] # "EMBRYO"
  BY DEF Alive
<1>3. User.op = "user" /\ User.thread = FALSE /\ "user" \notin Making
  BY DEF User, Loc, Making
<1>4. \A q \in Slots : Makes(q)' <=> Makes(q) /\ q # p
  <2>1. ~Makes(p)'
    BY <1>3, Zenon DEF Makes
  <2>2. \A q \in Slots : Alive(q)' <=> Alive(q)
    BY <1>2, Zenon
  <2> QED
    BY <2>1, <2>2, Zenon DEF Makes
<1>5. PidsKnown /\ \A q \in Slots : Plain(q)
  BY Zenon DEF SInv, NoLwps
<1>6. Embryos'
  <2>1. \A q \in Slots : Makes(q)' => Makes(q) /\ loc'[q] = loc[q]
    BY <1>4, Zenon
  <2>2. \A x \in Slots : state[x] = "EMBRYO" =>
          /\ state'[x] = "EMBRYO" /\ (kstack'[x] <=> kstack[x]) /\ (t_flag'[x] <=> t_flag[x])
          /\ owned'[x] = owned[x] /\ parent'[x] = parent[x]
    BY <1>1, <1>2, ZenonT(30)
  <2> QED
    BY <1>1, <2>1, <2>2, KeepEmbryos, Zenon DEF SInv
<1>7. StackCount'
  <2>1. kstack[k]
    BY Zenon DEF SInv, StackCount
  <2>2. kpages' = Cardinality({q \in Slots : kstack'[q]})
    BY <2>1, CountStacks DEF SInv
  <2>3. \A q \in Slots : Alive(q)' \/ state'[q] = "ZOMBIE" => kstack'[q]
    BY <1>2, ZenonT(30) DEF SInv, StackCount
  <2>4. \A q \in Slots : state'[q] = "UNUSED" => ~kstack'[q]
    BY <1>2, ZenonT(30) DEF SInv, StackCount
  <2> QED
    BY <2>2, <2>3, <2>4, Zenon DEF StackCount
<1>8. InitLives'
  <2>1. initproc \in Slots /\ "user" \notin {"exit", "thread_exit", "allocuvm", "join"}
    BY ProcAssumption DEF initproc, Slots
  <2>2. initproc # k
    BY <1>2, Zenon DEF SInv, InitLives
  <2>3. CASE p = initproc
    BY <1>1, <1>2, <1>3, <1>4, <2>1, <2>2, <2>3, Zenon DEF SInv, InitLives
  <2>4. CASE p # initproc
    BY <1>1, <1>2, <1>4, <2>1, <2>2, <2>4, ZenonT(30) DEF SInv, InitLives
  <2> QED
    BY <2>3, <2>4, Zenon
<1>9. Sleepers' /\ Waiters'
  <2>1. \A q \in Slots : state'[q] = "SLEEPING" =>
          state[q] = "SLEEPING" /\ chan'[q] = chan[q] /\ loc'[q] = loc[q] /\ (killed'[q] <=> killed[q])
    BY <1>1, <1>2, ZenonT(30)
  <2>2. \A q \in Slots : loc[q].op # "join"
    BY <1>5, Zenon DEF Plain
  <2>3. \A q, x \in Slots : state'[q] = "SLEEPING" =>
          /\ parent[x] = q => parent'[x] = q
          /\ parent'[x] = q /\ state'[x] = "ZOMBIE" => parent[x] = q /\ state[x] = "ZOMBIE"
    <3>1. \A q \in Slots : q # 0 /\ (state'[q] = "SLEEPING" => q # p)
      BY <1>2 DEF Slots
    <3> QED
      BY <3>1, Zenon
  <2> QED
    BY <2>1, <2>2, <2>3, KeepWaiters, Zenon DEF SInv
<1>10. Parents' /\ Apart(calls)'
  <2>1. ASSUME NEW q \in Slots, Parented(q) PROVE Parented(q)'
    <3>1. CASE q = k
      <4>1. 0 \in Slots \cup {0} /\ k # 0
        BY DEF Slots
      <4> QED
        BY <3>1, <4>1, Zenon DEF Parented
    <3>2. CASE q # k
      BY <1>2, <2>1, <3>2, Zenon DEF Parented
    <3> QED
      BY <3>1, <3>2, Zenon
  <2> QED
    BY <1>1, <2>1, Zenon DEF SInv, Parents, Apart
<1>11. NoOrphans'
  <2>1. \A q \in Slots : Alive(q)' \/ state'[q] = "ZOMBIE" =>
          (Alive(q) \/ state[q] = "ZOMBIE") /\ (t_flag'[q] <=> t_flag[q]) /\ parent'[q] = parent[q]
    BY <1>2, Zenon
  <2> QED
    BY <1>2, <2>1, KeepFamilies, Zenon DEF SInv
<1>12. NoLwps'
  <2>1. PidsKnown'
    <3>1. \A q \in Slots : (state'[q] # "UNUSED" => ptid'[q] = pid'[q] /\ pid'[q] # 0)
      <4>1. \A q \in Slots : state[q] # "UNUSED" => ptid[q] = pid[q] /\ pid[q] # 0
        BY <1>5, Zenon DEF PidsKnown
      <4> QED
        BY <1>1, <4>1
    <3>2. \A q \in Slots : pid'[q] < nextpid'
      <4>1. \A q \in Slots : pid[q] < nextpid
        BY <1>5, Zenon DEF PidsKnown
      <4>2. 0 < nextpid
        BY <1>5 DEF PidsKnown
      <4> QED
        BY <1>1, <4>1, <4>2, ZenonT(30)
    <3>3. ASSUME NEW q \in Slots, NEW r \in Slots, pid'[q] = pid'[r], pid'[q] # 0 PROVE q = r
      <4>1. \A x, y \in Slots : pid[x] = pid[y] /\ pid[x] # 0 => x = y
        BY <1>5, Zenon DEF PidsKnown
      <4>2. q # k /\ r # k
        BY <3>3, Zenon
      <4>3. pid'[q] = pid[q] /\ pid'[r] = pid[r]
        BY <4>2, Zenon
      <4>4. pid[q] = pid[r] /\ pid[q] # 0
        BY <3>3, <4>3, Zenon
      <4> QED
        BY <4>1, <4>4, Zenon
    <3> QED
      BY <1>1, <1>5, <3>1, <3>2, <3>3, ZenonT(30) DEF PidsKnown
  <2>2. ASSUME NEW q \in Slots PROVE Plain(q)'
    <3>0. Plain(q) /\ "user" \notin {"join", "thread_exit", "allocuvm"}
      BY <1>5
    <3> QED
      BY <1>1, <1>3, <3>0, Zenon DEF Plain
  <2> QED
    BY <2>1, <2>2, Zenon DEF NoLwps
<1>13. OnlyLwps'
  BY <1>1, Zenon DEF OnlyLwps
<1> QED
  BY <1>6, <1>7, <1>8, <1>9, <1>10, <1>11, <1>12, <1>13, Zenon DEF SInv

-----------------------------------------------------------------------------
\* thread_join frees the slot k of the LWP t of p.
LEMMA JoinReapStep ==
  ASSUME SlotSets, SInv, NEW p \in Slots, NEW k \in Slots, NEW t, state[p] = "RUNNING",
         loc[p].op \in {"user", "join"},
         loc'[p] = User, \A q \in Slots : q # p => loc'[q] = loc[q] /\ owned'[q] = owned[q],
         state[k] = "ZOMBIE", main_thread[k] = p, tid[k] = t, "thread_create" \in calls,
         owned'[p] = owned[p] \ {t},
         state'[k] = "UNUSED", parent'[k] = 0, ~killed'[k], ~kstack'[k], ~t_flag'[k],
         \A q \in Slots : q # k =>
           /\ state'[q] = state[q] /\ parent'[q] = parent[q] /\ killed'[q] = killed[q]
           /\ kstack'[q] = kstack[q] /\ t_flag'[q] = t_flag[q] /\ tid'[q] = tid[q],
         kpages' = kpages - 1,
         UNCHANGED <<chan, main_thread, calls>>
  PROVE  SInv'
<1>1. chan' = chan /\ main_thread' = main_thread /\ calls' = calls
  BY Zenon
<1>2. /\ \A q \in Slots : Alive(q)' <=> Alive(q)
      /\ \A q \in Slots : state'[q] = "UNUSED" <=> state[q] = "UNUSED" \/ q = k
      /\ \A q \in Slots : state'[q] = "EMBRYO" <=> state[q] = "EMBRYO"
      /\ \A q \in Slots : state'[q] = "ZOMBIE" <=> state[q] = "ZOMBIE" /\ q # k
      /\ \A q \in Slots : state'[q] = "SLEEPING" => state[q] = "SLEEPING" /\ q # k /\ q # p
      /\ k # p /\ ~Alive(k) /\ state[k] # "EMBRYO"
      /\ Alive(p)
  BY DEF Alive
<1>3. User.op = "user" /\ User.thread = FALSE /\ "user" \notin Making
  BY DEF User, Loc, Making
<1>4. \A q \in Slots : Makes(q)' <=> Makes(q) /\ q # p
  <2>1. ~Makes(p)'
    BY <1>3, Zenon DEF Makes
  <2>2. \A q \in Slots : Alive(q)' <=> Alive(q)
    BY <1>2, Zenon
  <2> QED
    BY <2>1, <2>2, Zenon DEF Makes
<1>5. \A q \in Slots : Lwp(q) /\ OwnedReal(q) /\ JoinReal(q)
  BY Zenon DEF SInv, OnlyLwps
<1>6. Embryos'
  <2>1. \A q \in Slots : Makes(q)' => Makes(q) /\ loc'[q] = loc[q]
    BY <1>4, Zenon
  <2>2. \A x \in Slots : state[x] = "EMBRYO" =>
          /\ state'[x] = "EMBRYO" /\ (kstack'[x] <=> kstack[x]) /\ (t_flag'[x] <=> t_flag[x])
          /\ parent'[x] = parent[x]
    BY <1>2, SMTT(60)
  <2>3. \A x \in Slots : state[x] = "EMBRYO" => owned'[x] = owned[x]
    OBVIOUS
  <2> QED
    BY <1>1, <2>1, <2>2, <2>3, KeepEmbryos, Zenon DEF SInv
<1>7. StackCount'
  <2>1. kstack[k]
    BY Zenon DEF SInv, StackCount
  <2>2. kpages' = Cardinality({q \in Slots : kstack'[q]})
    BY <2>1, CountStacks DEF SInv
  <2>3. \A q \in Slots : Alive(q)' \/ state'[q] = "ZOMBIE" => kstack'[q]
    <3>1. \A q \in Slots : Alive(q)' \/ state'[q] = "ZOMBIE" => q # k /\ (Alive(q) \/ state[q] = "ZOMBIE")
      BY <1>2, Zenon
    <3>2. \A q \in Slots : Alive(q) \/ state[q] = "ZOMBIE" => kstack[q]
      BY Zenon DEF SInv, StackCount
    <3> QED
      BY <3>1, <3>2, Zenon
  <2>4. \A q \in Slots : state'[q] = "UNUSED" => ~kstack'[q]
    BY <1>2, ZenonT(30) DEF SInv, StackCount
  <2> QED
    BY <2>2, <2>3, <2>4, Zenon DEF StackCount
<1>8. InitLives'
  <2>1. initproc \in Slots /\ "user" \notin {"exit", "thread_exit", "allocuvm", "join"}
    BY ProcAssumption DEF initproc, Slots
  <2>2. initproc # k
    BY <1>2, Zenon DEF SInv, InitLives
  <2>3. CASE p = initproc
    BY <1>1, <1>2, <1>3, <1>4, <2>1, <2>2, <2>3, Zenon DEF SInv, InitLives
  <2>4. CASE p # initproc
    BY <1>1, <1>2, <1>4, <2>1, <2>2, <2>4, ZenonT(30) DEF SInv, InitLives
  <2> QED
    BY <2>3, <2>4, Zenon
<1>9. Parents' /\ Apart(calls)'
  <2>1. ASSUME NEW q \in Slots, Parented(q) PROVE Parented(q)'
    <3>1. CASE q = k
      <4>1. 0 \in Slots \cup {0} /\ k # 0
        BY DEF Slots
      <4> QED
        BY <3>1, <4>1, Zenon DEF Parented
    <3>2. CASE q # k
      BY <1>2, <2>1, <3>2, Zenon DEF Parented
    <3> QED
      BY <3>1, <3>2, Zenon
  <2> QED
    BY <1>1, <2>1, Zenon DEF SInv, Parents, Apart
<1>10. Sleepers' /\ Waiters'
  <2>1. \A q \in Slots : state'[q] = "SLEEPING" =>
          state[q] = "SLEEPING" /\ chan'[q] = chan[q] /\ loc'[q] = loc[q] /\ (killed'[q] <=> killed[q])
    BY <1>1, <1>2
  <2>2. ASSUME NEW q \in Slots, state'[q] = "SLEEPING", loc[q].op = "join"
        PROVE  \E x \in Slots : main_thread'[x] = q /\ tid'[x] = loc[q].arg
    <3>1. PICK x \in Slots : Created(q, loc[q].arg, x) /\ Alive(x)
      BY <1>5, <2>1, <2>2, Zenon DEF JoinReal
    <3>2. x # k
      BY <1>2, <3>1, Zenon
    <3> QED
      BY <1>1, <3>1, <3>2, Zenon DEF Created
  <2>3. parent[k] = 0
    <3>1. Lwp(k)
      BY <1>5, Zenon
    <3>2. t_flag[k]
      BY <3>1, ZenonT(30) DEF Lwp
    <3> QED
      BY <3>2, Zenon DEF SInv, Parents, Parented
  <2>4. \A q \in Slots : q # 0
    BY DEF Slots
  <2>5. \A q, x \in Slots :
          /\ parent[x] = q => parent'[x] = q
          /\ parent'[x] = q /\ state'[x] = "ZOMBIE" => parent[x] = q /\ state[x] = "ZOMBIE"
    <3>1. \A x \in Slots : parent'[x] = parent[x]
      BY <2>3, Zenon
    <3>2. \A x \in Slots : state'[x] = "ZOMBIE" => state[x] = "ZOMBIE"
      BY <1>2, Zenon
    <3> QED
      BY <3>1, <3>2, Zenon
  <2>6. \A q, x \in Slots : main_thread'[x] = q /\ tid'[x] = loc[q].arg /\ state'[x] = "ZOMBIE" =>
          main_thread[x] = q /\ tid[x] = loc[q].arg /\ state[x] = "ZOMBIE"
    BY <1>1, <1>2, ZenonT(30)
  <2> QED
    BY <2>1, <2>2, <2>5, <2>6, KeepWaiters, ZenonT(30) DEF SInv
<1>11. NoOrphans'
  <2>1. \A q \in Slots : Alive(q)' \/ state'[q] = "ZOMBIE" =>
          (Alive(q) \/ state[q] = "ZOMBIE") /\ (t_flag'[q] <=> t_flag[q]) /\ parent'[q] = parent[q]
    BY <1>2
  <2> QED
    BY <1>2, <2>1, KeepFamilies, Zenon DEF SInv
<1>12. NoLwps'
  BY <1>1, Zenon DEF NoLwps
<1>13. OnlyLwps'
  <2>1. ASSUME NEW q \in Slots, NEW r \in Slots, NEW u \in owned'[q], Alive(q)', Backed(q, u, r)
        PROVE  Backed(q, u, r)'
    <3>1. r # k
      <4>1. SUFFICES ASSUME r = k PROVE FALSE
        OBVIOUS
      <4>2. q = p /\ u = t
        BY <2>1, <4>1, Zenon DEF Backed, Created
      <4> QED
        BY <2>1, <4>2, ZenonT(30)
    <3>2. Created(q, u, r)' /\ state'[r] = state[r]
      BY <1>1, <2>1, <3>1, Zenon DEF Backed, Created
    <3>3. loc[q].op = "go" => loc'[q] = loc[q] /\ New(q)' = New(q)
      BY Zenon DEF New
    <3> QED
      BY <1>2, <2>1, <3>1, <3>2, <3>3, Zenon DEF Backed
  <2>2. ASSUME NEW q \in Slots PROVE Lwp(q)'
    <3>0. Lwp(q) /\ "user" \notin {"exit", "thread_exit", "join"}
      BY <1>5
    <3>1. CASE q = p
      BY <1>1, <1>2, <1>3, <1>4, <3>0, <3>1, ZenonT(30) DEF Lwp
    <3>2. CASE q = k
      BY <1>1, <1>2, <1>4, <3>0, <3>2, Zenon DEF Lwp
    <3>3. CASE q # p /\ q # k
      BY <1>1, <1>2, <1>4, <3>0, <3>3, Zenon DEF Lwp
    <3> QED
      BY <3>1, <3>2, <3>3, Zenon
  <2>3. ASSUME NEW q \in Slots, NEW r \in Slots, state'[q] = "SLEEPING", loc[q].op = "join",
               Created(q, loc[q].arg, r), Alive(r)
        PROVE  main_thread'[r] = q /\ tid'[r] = loc[q].arg /\ t_flag'[r] /\ Alive(r)'
    <3>1. r # k
      BY <1>2, <2>3, Zenon
    <3> QED
      BY <1>1, <1>2, <2>3, <3>1, Zenon DEF Created
  <2>4. \A q \in Slots : owned'[q] \subseteq owned[q]
    BY Zenon
  <2>5. \A q \in Slots : state'[q] = "SLEEPING" => state[q] = "SLEEPING" /\ loc'[q] = loc[q]
    BY <1>2, ZenonT(30)
  <2> QED
    BY <1>1, <1>2, <2>1, <2>2, <2>3, <2>4, <2>5, KeepLwps, Zenon DEF SInv
<1> QED
  BY <1>6, <1>7, <1>8, <1>9, <1>10, <1>11, <1>12, <1>13, Zenon DEF SInv

\* The first slot of a nonempty set of slots is one of them.
LEMMA LeastIn ==
  ASSUME SlotSets, NEW S, S \subseteq Slots, S # {}
  PROVE  Least(S) \in S
<1>1. S \in SUBSET Slots
  OBVIOUS
<1> QED
  BY <1>1, Zenon DEF SlotSets

\* The slot that a CPU executes, and where it is.
LEMMA OnCode ==
  ASSUME PInv, NEW c \in CPUs, cur[c] # 0
  PROVE  /\ cur[c] \in Slots /\ state[cur[c]] = "RUNNING" /\ loc[cur[c]] = at[c]
         /\ at[c] \in Locs /\ Types /\ OnCpu /\ SInv
<1>1. Types /\ OnCpu /\ SInv
  BY Zenon DEF PInv
<1>2. at[c] \in Locs
  BY <1>1, Zenon DEF Types
<1> QED
  BY <1>1, <1>2, LocRunning, Zenon

\* Places in the code.
LEMMA LocType ==
  /\ \A o \in Ops, a \in Nat, th \in BOOLEAN : Loc(o, a, th) \in Locs
  /\ \A l \in Locs, o \in Ops : [l EXCEPT !.op = o] \in Locs
  /\ User \in Locs /\ None \in Locs
<1>1. \A o \in Ops, a \in Nat, th \in BOOLEAN : Loc(o, a, th) \in Locs
  BY Zenon DEF Loc, Locs
<1>2. "user" \in Ops /\ "none" \in Ops /\ 0 \in Nat /\ FALSE \in BOOLEAN
  BY DEF Ops
<1>3. User \in Locs /\ None \in Locs
  BY <1>1, <1>2, Zenon DEF User, None
<1>4. \A l \in Locs, o \in Ops : [l EXCEPT !.op = o] \in Locs
  BY DEF Locs
<1> QED
  BY <1>1, <1>3, <1>4, Zenon

\* A step of the running code keeps the types of the CPU state.
LEMMA GotoTypes ==
  ASSUME Types, NEW c \in CPUs, NEW l \in Locs, Goto(c, l)
  PROVE  cur' = cur /\ at' \in [CPUs -> Locs] /\ ctx' = ctx
BY Zenon DEF Types, Goto

\* sched() keeps the types of the CPU state.
LEMMA SchedTypes ==
  ASSUME Types, NEW c \in CPUs, NEW l \in Locs, Sched(c, l)
  PROVE  cur' \in [CPUs -> Slots \cup {0}] /\ at' \in [CPUs -> Locs] /\ ctx' \in [Slots -> Locs]
<1>1. cur' \in [CPUs -> Slots \cup {0}]
  BY Zenon DEF Types, Sched
<1>2. at' \in [CPUs -> Locs]
  BY LocType, Zenon DEF Types, Sched
<1>3. ctx' \in [Slots -> Locs]
  BY Zenon DEF Types, Sched
<1> QED
  BY <1>1, <1>2, <1>3, Zenon

\* Types, one variable at a time.
LEMMA NextTypes ==
  ASSUME Types,
         state' = state \/ state' \in [Slots -> States],
         pid' = pid \/ pid' \in [Slots -> Nat], ptid' = ptid \/ ptid' \in [Slots -> Nat],
         tid' = tid \/ tid' \in [Slots -> Nat],
         parent' = parent \/ parent' \in [Slots -> Slots \cup {0}],
         main_thread' = main_thread \/ main_thread' \in [Slots -> Slots \cup {0}],
         chan' = chan \/ chan' \in [Slots -> Slots \cup {0}],
         killed' = killed \/ DOMAIN killed' = Slots, kstack' = kstack \/ DOMAIN kstack' = Slots,
         t_flag' = t_flag \/ DOMAIN t_flag' = Slots,
         nextpid' = nextpid \/ nextpid' \in Nat, nexttid' = nexttid \/ nexttid' \in Nat,
         kpages' = kpages \/ kpages' \in Int,
         cur' = cur \/ cur' \in [CPUs -> Slots \cup {0}], at' \in [CPUs -> Locs],
         ctx' = ctx \/ ctx' \in [Slots -> Locs],
         owned' = owned \/ owned' \in [Slots -> SUBSET Nat]
  PROVE  Types'
<1>1. state' \in [Slots -> States] /\ pid' \in [Slots -> Nat] /\ ptid' \in [Slots -> Nat]
  BY Zenon DEF Types
<1>2. tid' \in [Slots -> Nat] /\ parent' \in [Slots -> Slots \cup {0}]
  BY Zenon DEF Types
<1>3. main_thread' \in [Slots -> Slots \cup {0}] /\ chan' \in [Slots -> Slots \cup {0}]
  BY Zenon DEF Types
<1>4. DOMAIN killed' = Slots /\ DOMAIN kstack' = Slots /\ DOMAIN t_flag' = Slots
  BY Zenon DEF Types
<1>5. nextpid' \in Nat /\ nexttid' \in Nat /\ kpages' \in Int
  BY Zenon DEF Types
<1>6. cur' \in [CPUs -> Slots \cup {0}] /\ ctx' \in [Slots -> Locs] /\ owned' \in [Slots -> SUBSET Nat]
  BY Zenon DEF Types
<1> QED
  BY <1>1, <1>2, <1>3, <1>4, <1>5, <1>6, Zenon DEF Types

\* A step that frees no slot whose process or LWP has not exited.
Spared == \A p \in Slots : Alive(p) => state'[p] # "UNUSED"

\* The steps that only move the code of a slot: back to the user from a call
\* that failed, or into exit and thread_exit.
LEMMA LocalAct ==
  ASSUME PInv, NEW c \in CPUs, cur[c] # 0, NEW o \in {"user", "exit", "thread_exit"},
         Goto(c, Loc(o, 0, FALSE)), at[c].op # "go",
         cur[c] = initproc => o = "user", o = "thread_exit" => t_flag[cur[c]],
         o = "exit" => "thread_create" \notin calls,
         UNCHANGED <<slotVars, nextpid, nexttid, kpages, calls>>,
         owned' = owned \/ \E t : owned' = [owned EXCEPT ![cur[c]] = @ \ {t}]
  PROVE  PInv' /\ Spared
<1> DEFINE p == cur[c]
<1>1. p \in Slots /\ state[p] = "RUNNING" /\ loc[p] = at[c] /\ Types /\ OnCpu /\ SInv
  BY OnCode, Zenon
<1>2. /\ state' = state /\ pid' = pid /\ parent' = parent /\ killed' = killed /\ chan' = chan
      /\ kstack' = kstack /\ t_flag' = t_flag /\ main_thread' = main_thread /\ ptid' = ptid
      /\ tid' = tid /\ nextpid' = nextpid /\ nexttid' = nexttid /\ kpages' = kpages /\ calls' = calls
  BY Zenon DEF slotVars, threadVars
<1>3. OnCpu' /\ loc'[p] = Loc(o, 0, FALSE) /\ \A q \in Slots : q # p => loc'[q] = loc[q]
  BY <1>1, <1>2, LocGoto, Zenon
<1>4. /\ owned'[p] \subseteq owned[p] /\ \A q \in Slots : q # p => owned'[q] = owned[q]
      /\ owned' \in [Slots -> SUBSET Nat]
  <2>1. owned \in [Slots -> SUBSET Nat]
    BY <1>1, Zenon DEF Types
  <2>2. CASE owned' = owned
    BY <2>1, <2>2, Zenon
  <2>3. CASE \E t : owned' = [owned EXCEPT ![cur[c]] = @ \ {t}]
    <3>1. PICK t : owned' = [owned EXCEPT ![cur[c]] = @ \ {t}]
      BY <2>3, Zenon
    <3> QED
      BY <1>1, <2>1, <3>1, Zenon
  <2> QED
    BY <2>2, <2>3, Zenon
<1>5. SInv'
  <2>1. loc[p].op # "go" /\ (p = initproc => o = "user") /\ (o = "thread_exit" => t_flag[p])
    BY <1>1, Zenon
  <2> HIDE DEF p
  <2> QED
    BY <1>1, <1>3, <1>4, <2>1, LocalStep, Zenon
<1>6. Types'
  <2>1. Loc(o, 0, FALSE) \in Locs
    <3>1. o \in Ops /\ 0 \in Nat /\ FALSE \in BOOLEAN
      BY DEF Ops
    <3> QED
      BY <3>1, LocType, Zenon
  <2>2. cur' = cur /\ at' \in [CPUs -> Locs] /\ ctx' = ctx
    BY <1>1, <2>1, GotoTypes, ZenonT(30)
  <2> QED
    BY <1>1, <1>2, <1>4, <2>2, NextTypes, Zenon
<1>7. Spared
  BY <1>2, Zenon DEF Spared, Alive
<1> QED
  BY <1>3, <1>5, <1>6, <1>7, Zenon DEF PInv

\* exit() up to the lock: closing the files changes no slot.
LEMMA CallExitAct == ASSUME PInv, NEW c \in CPUs, CallExit(c) PROVE PInv' /\ Spared
<1>1. /\ cur[c] # 0 /\ at[c].op = "user" /\ cur[c] # initproc /\ Goto(c, Loc("exit", 0, FALSE))
      /\ UNCHANGED <<slotVars, nextpid, nexttid, kpages, calls>> /\ owned' = owned
  BY Zenon DEF CallExit, Running
<1>2. "thread_create" \notin calls
  <2>1. SUFFICES ASSUME "thread_create" \in calls PROVE FALSE
    OBVIOUS
  <2>2. cur[c] \in Slots /\ SInv
    BY <1>1, OnCode, Zenon
  <2>3. ~killed[cur[c]]
    BY <2>1, <2>2, Zenon DEF SInv, OnlyLwps, Lwp
  <2>4. "exit" \in calls \/ "thread exit()" \in calls
    BY <1>1, <2>3, Zenon DEF CallExit, MayCall
  <2> QED
    BY <2>1, <2>2, <2>4, Zenon DEF SInv, Apart
<1>3. "exit" \in {"user", "exit", "thread_exit"} /\ "exit" # "thread_exit" /\ "user" # "go"
  OBVIOUS
<1> QED
  BY <1>1, <1>2, <1>3, LocalAct, Zenon

\* thread_exit() up to the lock.
LEMMA CallThreadExitAct == ASSUME PInv, NEW c \in CPUs, CallThreadExit(c) PROVE PInv' /\ Spared
<1>1. /\ cur[c] # 0 /\ at[c].op = "user" /\ t_flag[cur[c]] /\ Goto(c, Loc("thread_exit", 0, FALSE))
      /\ UNCHANGED <<slotVars, nextpid, nexttid, kpages, calls>> /\ owned' = owned
  BY Zenon DEF CallThreadExit, Running
<1>2. cur[c] # initproc
  <2>1. SInv
    BY <1>1, OnCode, Zenon
  <2> QED
    BY <1>1, <2>1, Zenon DEF SInv, InitLives
<1>3. "thread_exit" \in {"user", "exit", "thread_exit"} /\ "exit" # "thread_exit" /\ "user" # "go"
  OBVIOUS
<1> QED
  BY <1>1, <1>2, <1>3, LocalAct, Zenon

\* wait, thread_join and thread_create return -1.
LEMMA FailActs ==
  ASSUME PInv, NEW c \in CPUs,
         WaitFails(c) \/ ThreadSetupFails(c) \/ \E t \in 0 .. MaxPid : JoinFails(c, t)
  PROVE  PInv' /\ Spared
<1>1. /\ cur[c] # 0 /\ at[c].op \in {"user", "wait", "allocuvm", "join"} /\ Goto(c, User)
      /\ UNCHANGED <<slotVars, nextpid, nexttid, kpages, calls>>
      /\ owned' = owned \/ \E t : owned' = [owned EXCEPT ![cur[c]] = @ \ {t}]
  <2>1. CASE WaitFails(c)
    BY <2>1, Zenon DEF WaitFails, InWait, Running
  <2>2. CASE ThreadSetupFails(c)
    BY <2>2, Zenon DEF ThreadSetupFails, Running
  <2>3. CASE \E t \in 0 .. MaxPid : JoinFails(c, t)
    BY <2>3, Zenon DEF JoinFails, InJoin, Running
  <2> QED
    BY <2>1, <2>2, <2>3, Zenon
<1>2. Goto(c, Loc("user", 0, FALSE))
  BY <1>1, Zenon DEF User
<1>3. at[c].op # "go" /\ "user" \in {"user", "exit", "thread_exit"} /\ "user" # "exit" /\ "user" # "thread_exit"
  BY <1>1
<1> QED
  BY <1>1, <1>2, <1>3, LocalAct, Zenon

\* The scheduler, the timer and sys_yield.
LEMMA DispatchAct == ASSUME PInv, NEW c \in CPUs, NEW p \in Slots, Dispatch(c, p) PROVE PInv' /\ Spared
<1>1. Types /\ OnCpu /\ SInv
  BY Zenon DEF PInv
<1>2. OnCpu' /\ \A q \in Slots : loc'[q] = loc[q]
  BY <1>1, LocDispatch, Zenon
<1>3. /\ state[p] = "RUNNABLE" /\ state' = [state EXCEPT ![p] = "RUNNING"]
      /\ chan' = [chan EXCEPT ![p] = IF ctx[p].op \in {"wait", "join"} THEN 0 ELSE @]
      /\ cur' = [cur EXCEPT ![c] = p] /\ at' = [at EXCEPT ![c] = ctx[p]]
      /\ UNCHANGED <<pid, parent, killed, kstack, threadVars, ctx, nextpid, nexttid, kpages, owned, calls>>
  BY Zenon DEF Dispatch
<1>4. /\ pid' = pid /\ parent' = parent /\ killed' = killed
      /\ kstack' = kstack /\ t_flag' = t_flag /\ main_thread' = main_thread /\ ptid' = ptid
      /\ tid' = tid /\ nextpid' = nextpid /\ nexttid' = nexttid /\ kpages' = kpages
      /\ ctx' = ctx /\ owned' = owned
  BY <1>3, Zenon DEF threadVars
<1>5. /\ state' \in [Slots -> States] /\ state'[p] = "RUNNING"
      /\ \A q \in Slots : q # p => state'[q] = state[q]
  <2>1. "RUNNING" \in States
    BY DEF States
  <2> QED
    BY <1>1, <1>3, <2>1, Zenon DEF Types
<1>6. chan' \in [Slots -> Slots \cup {0}] /\ \A q \in Slots : q # p => chan'[q] = chan[q]
  BY <1>1, <1>3, Zenon DEF Types
<1>7. cur' \in [CPUs -> Slots \cup {0}] /\ at' \in [CPUs -> Locs]
  BY <1>1, <1>3, Zenon DEF Types
<1>8. Types'
  BY <1>1, <1>4, <1>5, <1>6, <1>7, NextTypes, Zenon
<1>9. SInv'
  <2>1. state[p] \in {"RUNNABLE", "RUNNING"} /\ state'[p] \in {"RUNNABLE", "RUNNING"}
    BY <1>3, <1>5, Zenon
  <2> QED
    BY <1>1, <1>2, <1>3, <1>5, <1>6, <2>1, SwitchStep, Zenon
<1>10. Spared
  BY <1>5 DEF Spared, Alive
<1> QED
  BY <1>2, <1>8, <1>9, <1>10, Zenon DEF PInv

\* The timer and sys_yield make the running slot RUNNABLE.
LEMMA YieldActs == ASSUME PInv, NEW c \in CPUs, Preempt(c) \/ SysYield(c) PROVE PInv' /\ Spared
<1> DEFINE p == cur[c]
<1>1. /\ p # 0 /\ state' = [state EXCEPT ![p] = "RUNNABLE"] /\ Sched(c, at[c])
      /\ UNCHANGED <<pid, parent, killed, chan, kstack, threadVars, nextpid, nexttid, kpages, owned, calls>>
  BY Zenon DEF Preempt, SysYield, Running
<1>2. p \in Slots /\ state[p] = "RUNNING" /\ loc[p] = at[c] /\ at[c] \in Locs /\ Types /\ OnCpu /\ SInv
  BY <1>1, OnCode, Zenon
<1>3. /\ pid' = pid /\ parent' = parent /\ killed' = killed /\ chan' = chan
      /\ kstack' = kstack /\ t_flag' = t_flag /\ main_thread' = main_thread /\ ptid' = ptid
      /\ tid' = tid /\ nextpid' = nextpid /\ nexttid' = nexttid /\ kpages' = kpages /\ owned' = owned
  BY <1>1, Zenon DEF threadVars
<1>4. /\ state' \in [Slots -> States] /\ state'[p] = "RUNNABLE"
      /\ \A q \in Slots : q # p => state'[q] = state[q]
  <2>1. "RUNNABLE" \in States
    BY DEF States
  <2> QED
    BY <1>1, <1>2, <2>1, Zenon DEF Types
<1>5. \A q \in Slots : state'[q] = "RUNNING" <=> state[q] = "RUNNING" /\ q # p
  BY <1>2, <1>4
<1>6. OnCpu' /\ loc'[p] = at[c] /\ \A q \in Slots : q # p => loc'[q] = loc[q]
  BY <1>1, <1>2, <1>5, LocSched, Zenon
<1>7. Types'
  <2>1. cur' \in [CPUs -> Slots \cup {0}] /\ at' \in [CPUs -> Locs] /\ ctx' \in [Slots -> Locs]
    BY <1>1, <1>2, SchedTypes, Zenon
  <2> QED
    BY <1>2, <1>3, <1>4, <2>1, NextTypes, Zenon
<1>8. SInv'
  <2>1. /\ state[p] \in {"RUNNABLE", "RUNNING"} /\ state'[p] \in {"RUNNABLE", "RUNNING"}
        /\ \A q \in Slots : loc'[q] = loc[q]
        /\ \A q \in Slots : q # p => state'[q] = state[q] /\ chan'[q] = chan[q]
    BY <1>2, <1>3, <1>4, <1>6, Zenon
  <2> HIDE DEF p
  <2> QED
    BY <1>1, <1>2, <2>1, SwitchStep, Zenon
<1>9. Spared
  BY <1>4 DEF Spared, Alive
<1> QED
  BY <1>6, <1>7, <1>8, <1>9, Zenon DEF PInv

\* The slot that a CPU in fork or thread_create fills.
LEMMA NewSlot ==
  ASSUME PInv, NEW c \in CPUs, cur[c] # 0, at[c].op \in Making
  PROVE  at[c].arg = New(cur[c]) /\ at[c].arg \in Slots /\ state[at[c].arg] = "EMBRYO"
<1>1. cur[c] \in Slots /\ state[cur[c]] = "RUNNING" /\ loc[cur[c]] = at[c] /\ SInv
  BY OnCode, Zenon
<1>2. Makes(cur[c]) /\ New(cur[c]) = at[c].arg
  BY <1>1, Zenon DEF Makes, New, Alive
<1>3. Embryo(cur[c])
  BY <1>1, <1>2, Zenon DEF SInv, Embryos
<1> QED
  BY <1>2, <1>3, Zenon DEF Embryo

\* Fields of a place in the code when op changes.
LEMMA LocOp ==
  ASSUME NEW l \in Locs, NEW o
  PROVE  /\ [l EXCEPT !.op = o].op = o /\ [l EXCEPT !.op = o].arg = l.arg
         /\ [l EXCEPT !.op = o].thread = l.thread
BY DEF Locs

\* allocproc, called by fork and thread_create, takes an UNUSED slot.
LEMMA AllocActs ==
  ASSUME SlotSets, PInv, NEW c \in CPUs, Fork(c) \/ ThreadCreate(c)
  PROVE  PInv' /\ Spared
<1> DEFINE p == cur[c]
           unused == {q \in Slots : state[q] = "UNUSED"}
           n == Least(unused)
<1>1. PICK th \in BOOLEAN :
        /\ p # 0 /\ at[c].op = "user" /\ allocproc(c, th)
        /\ (th /\ MayCall(p, "thread_create")) \/ (~th /\ MayCall(p, "fork"))
  <2>1. TRUE \in BOOLEAN /\ FALSE \in BOOLEAN
    OBVIOUS
  <2> QED
    BY <2>1, Zenon DEF Fork, ThreadCreate, Running
<1>2. /\ unused # {} /\ state' = [state EXCEPT ![n] = "EMBRYO"]
      /\ pid' = [pid EXCEPT ![n] = nextpid] /\ ptid' = [ptid EXCEPT ![n] = nextpid]
      /\ t_flag' = [t_flag EXCEPT ![n] = FALSE] /\ nextpid' = nextpid + 1
      /\ owned' = [owned EXCEPT ![n] = {}] /\ Goto(c, Loc("alloc", n, th))
      /\ UNCHANGED <<parent, killed, chan, kstack, main_thread, tid, nexttid, kpages, calls>>
  BY <1>1, Zenon DEF allocproc
<1>3. n \in unused
  BY <1>2, LeastIn, Zenon
<1>4. n \in Slots /\ state[n] = "UNUSED"
  BY <1>3, Zenon
<1> HIDE DEF unused, n
<1>5. p \in Slots /\ state[p] = "RUNNING" /\ loc[p] = at[c] /\ Types /\ OnCpu /\ SInv
  BY <1>1, OnCode, Zenon
<1> HIDE DEF p
<1>6. /\ parent' = parent /\ killed' = killed /\ chan' = chan /\ kstack' = kstack
      /\ main_thread' = main_thread /\ tid' = tid /\ nexttid' = nexttid /\ kpages' = kpages
  BY <1>2, Zenon
<1>7. /\ state' \in [Slots -> States] /\ state'[n] = "EMBRYO"
      /\ \A q \in Slots : q # n => state'[q] = state[q]
  <2>1. "EMBRYO" \in States
    BY DEF States
  <2> QED
    BY <1>2, <1>4, <1>5, <2>1, Zenon DEF Types
<1>8. nextpid \in Nat /\ nextpid' \in Nat /\ \A q \in Slots : pid[q] \in Nat
  <2>1. nextpid \in Nat /\ \A q \in Slots : pid[q] \in Nat
    BY <1>5, Zenon DEF Types
  <2> QED
    BY <1>2, <2>1
<1>9. /\ pid' \in [Slots -> Nat] /\ pid'[n] = nextpid /\ \A q \in Slots : q # n => pid'[q] = pid[q]
      /\ ptid' \in [Slots -> Nat] /\ ptid'[n] = nextpid /\ \A q \in Slots : q # n => ptid'[q] = ptid[q]
  BY <1>2, <1>4, <1>5, <1>8, Zenon DEF Types
<1>10. DOMAIN t_flag' = Slots /\ ~t_flag'[n] /\ \A q \in Slots : q # n => t_flag'[q] = t_flag[q]
  <2>1. DOMAIN t_flag = Slots
    BY <1>5, Zenon DEF Types
  <2> QED
    BY <1>2, <1>4, <2>1, Zenon
<1>11. owned' \in [Slots -> SUBSET Nat] /\ owned'[n] = {} /\ \A q \in Slots : q # n => owned'[q] = owned[q]
  BY <1>2, <1>4, <1>5, Zenon DEF Types
<1>12. \A q \in Slots : state'[q] = "RUNNING" <=> state[q] = "RUNNING"
  BY <1>4, <1>7
<1>13. OnCpu' /\ loc'[p] = Loc("alloc", n, th) /\ \A q \in Slots : q # p => loc'[q] = loc[q]
  BY <1>1, <1>2, <1>5, <1>12, LocGoto, Zenon DEF p
<1>14. Types'
  <2>1. Loc("alloc", n, th) \in Locs
    <3>1. "alloc" \in Ops /\ n \in Nat
      BY <1>4 DEF Ops, Slots
    <3> QED
      BY <3>1, LocType, Zenon
  <2>2. cur' = cur /\ at' \in [CPUs -> Locs] /\ ctx' = ctx
    BY <1>2, <1>5, <2>1, GotoTypes, Zenon
  <2> QED
    BY <1>5, <1>6, <1>7, <1>8, <1>9, <1>10, <1>11, <2>2, NextTypes, ZenonT(30)
<1>15. /\ th => p # initproc /\ "thread_create" \in calls
       /\ ~th => p = initproc \/ "thread_create" \notin calls
  <2>1. "thread_create" \notin {"fork", "wait"} /\ "thread_create" # "wait" /\ "fork" # "wait"
    OBVIOUS
  <2>2. Apart(calls)
    BY <1>5, Zenon DEF SInv
  <2> QED
    BY <1>1, <2>1, <2>2, Zenon DEF MayCall, Apart
<1>16. SInv'
  <2>1. loc[p].op = "user"
    BY <1>1, <1>5, Zenon
  <2>2. \A q \in Slots : q # n =>
           /\ state'[q] = state[q] /\ pid'[q] = pid[q] /\ ptid'[q] = ptid[q]
           /\ t_flag'[q] = t_flag[q] /\ owned'[q] = owned[q]
    BY <1>7, <1>9, <1>10, <1>11, Zenon
  <2>3. UNCHANGED <<parent, killed, chan, kstack, main_thread, tid, kpages, calls>>
    BY <1>2, Zenon
  <2>4. /\ state'[n] = "EMBRYO" /\ pid'[n] = nextpid /\ ptid'[n] = nextpid /\ ~t_flag'[n]
        /\ owned'[n] = {} /\ nextpid' = nextpid + 1
    BY <1>2, <1>7, <1>9, <1>10, <1>11, Zenon
  <2> QED
    BY <1>4, <1>5, <1>8, <1>13, <1>15, <2>1, <2>2, <2>3, <2>4, AllocStep, ZenonT(30)
<1>17. Spared
  BY <1>7 DEF Spared, Alive
<1> QED
  BY <1>13, <1>14, <1>16, <1>17, Zenon DEF PInv

\* allocproc gets the kernel stack, or gives the slot back.
LEMMA AllocStackAct == ASSUME SlotSets, PInv, NEW c \in CPUs, AllocStack(c) PROVE PInv' /\ Spared
<1> DEFINE p == cur[c]
           n == at[c].arg
<1>1. p # 0 /\ at[c].op = "alloc" /\ "alloc" \in Making
  BY DEF AllocStack, Running, Making
<1>2. p \in Slots /\ state[p] = "RUNNING" /\ loc[p] = at[c] /\ at[c] \in Locs /\ Types /\ OnCpu /\ SInv
  BY <1>1, OnCode, Zenon
<1>3. n = New(p) /\ n \in Slots /\ state[n] = "EMBRYO"
  BY <1>1, NewSlot, Zenon
<1>4. /\ pid' = pid /\ parent' = parent /\ killed' = killed /\ chan' = chan
      /\ t_flag' = t_flag /\ main_thread' = main_thread /\ ptid' = ptid
      /\ tid' = tid /\ nextpid' = nextpid /\ nexttid' = nexttid /\ owned' = owned /\ calls' = calls
  BY Zenon DEF AllocStack, threadVars
<1>5. CASE /\ kstack' = [kstack EXCEPT ![n] = TRUE] /\ kpages' = kpages + 1 /\ state' = state
           /\ Goto(c, [at[c] EXCEPT !.op = IF at[c].thread THEN "allocuvm" ELSE "copyuvm"])
  <2> DEFINE o == IF at[c].thread THEN "allocuvm" ELSE "copyuvm"
             l == [at[c] EXCEPT !.op = o]
  <2>1. o \in Ops
    BY DEF Ops
  <2>2. l.op = o /\ l.arg = at[c].arg /\ l.thread = at[c].thread /\ l \in Locs
    BY <1>2, <2>1, LocOp, LocType
  <2>3. Goto(c, l)
    BY <1>5, Zenon
  <2>4. o = IF loc[p].thread THEN "allocuvm" ELSE "copyuvm"
    BY <1>2, Zenon
  <2> HIDE DEF l, o
  <2>5. OnCpu' /\ loc'[p] = l /\ \A q \in Slots : q # p => loc'[q] = loc[q]
    BY <1>1, <1>2, <1>5, <2>3, LocGoto, Zenon
  <2>6. DOMAIN kstack' = Slots /\ kstack'[n] /\ \A q \in Slots : q # n => kstack'[q] = kstack[q]
    <3>1. DOMAIN kstack = Slots
      BY <1>2, Zenon DEF Types
    <3> QED
      BY <1>3, <1>5, <3>1, Zenon
  <2>7. kpages' \in Int
    BY <1>2, <1>5 DEF Types
  <2>8. Types'
    <3>1. cur' = cur /\ at' \in [CPUs -> Locs] /\ ctx' = ctx
      BY <1>2, <2>2, <2>3, GotoTypes, Zenon
    <3> QED
      BY <1>2, <1>4, <1>5, <2>6, <2>7, <3>1, NextTypes, ZenonT(30)
  <2>9. SInv'
    <3>1. loc'[p].op = (IF loc[p].thread THEN "allocuvm" ELSE "copyuvm")
      BY <2>2, <2>4, <2>5, Zenon
    <3>2. loc[p].op = "alloc" /\ loc'[p].arg = loc[p].arg /\ loc'[p].thread = loc[p].thread
      BY <1>1, <1>2, <2>2, <2>5, Zenon
    <3>3. UNCHANGED <<state, pid, parent, killed, chan, threadVars, nextpid, owned, calls>>
      BY <1>4, <1>5, Zenon DEF threadVars
    <3>4. kpages' = kpages + 1
      BY <1>5, Zenon
    <3> HIDE DEF p, n
    <3> QED
      BY <1>2, <1>3, <2>5, <2>6, <3>1, <3>2, <3>3, <3>4, StackStep, ZenonT(30)
  <2>10. Spared
    BY <1>5 DEF Spared, Alive
  <2> QED
    BY <2>5, <2>8, <2>9, <2>10, Zenon DEF PInv
<1>6. CASE state' = [state EXCEPT ![n] = "UNUSED"] /\ Goto(c, User) /\ kstack' = kstack /\ kpages' = kpages
  <2>1. /\ state' \in [Slots -> States] /\ state'[n] = "UNUSED"
        /\ \A q \in Slots : q # n => state'[q] = state[q]
    <3>1. "UNUSED" \in States
      BY DEF States
    <3> QED
      BY <1>2, <1>3, <1>6, <3>1, Zenon DEF Types
  <2>2. \A q \in Slots : state'[q] = "RUNNING" <=> state[q] = "RUNNING"
    BY <1>3, <2>1
  <2>3. OnCpu' /\ loc'[p] = User /\ \A q \in Slots : q # p => loc'[q] = loc[q]
    BY <1>1, <1>2, <1>6, <2>2, LocGoto, Zenon
  <2>4. Types'
    <3>1. cur' = cur /\ at' \in [CPUs -> Locs] /\ ctx' = ctx
      BY <1>2, <1>6, GotoTypes, LocType, ZenonT(30)
    <3> QED
      BY <1>2, <1>4, <1>6, <2>1, <3>1, NextTypes, Zenon
  <2>5. SInv'
    <3>1. loc[p].op \in {"alloc", "copyuvm"} /\ loc[p].op # "copyuvm"
      BY <1>1, <1>2
    <3>2. UNCHANGED <<pid, parent, killed, chan, threadVars, nextpid, owned, calls>>
      BY <1>4, Zenon DEF threadVars
    <3>3. ~kstack'[n]
      <4>1. Embryo(p)
        <5>1. Makes(p)
          BY <1>1, <1>2, Zenon DEF Makes, Alive
        <5> QED
          BY <1>2, <5>1, Zenon DEF SInv, Embryos
      <4> QED
        BY <1>1, <1>2, <1>3, <1>6, <4>1, Zenon DEF Embryo
    <3>4. \A q \in Slots : q # n => state'[q] = state[q] /\ kstack'[q] = kstack[q]
      BY <1>6, <2>1, Zenon
    <3>5. kstack' = kstack /\ kpages' = kpages
      BY <1>6, Zenon
    <3> HIDE DEF p, n
    <3> QED
      BY <1>2, <1>3, <2>1, <2>3, <3>1, <3>2, <3>3, <3>4, <3>5, DropStep, ZenonT(60)
  <2>6. Spared
    BY <1>3, <2>1 DEF Spared, Alive
  <2> QED
    BY <2>3, <2>4, <2>5, <2>6, Zenon DEF PInv
<1> QED
  BY <1>5, <1>6, Zenon DEF AllocStack

\* fork: copyuvm works, and the child gets its parent.
LEMMA ForkCopyAct == ASSUME PInv, NEW c \in CPUs, ForkCopy(c) PROVE PInv' /\ Spared
<1> DEFINE p == cur[c]
           n == at[c].arg
           l == [at[c] EXCEPT !.op = "go"]
<1>1. p # 0 /\ at[c].op = "copyuvm" /\ "copyuvm" \in Making
  BY DEF ForkCopy, Running, Making
<1>2. p \in Slots /\ state[p] = "RUNNING" /\ loc[p] = at[c] /\ at[c] \in Locs /\ Types /\ OnCpu /\ SInv
  BY <1>1, OnCode, Zenon
<1>3. n = New(p) /\ n \in Slots /\ state[n] = "EMBRYO"
  BY <1>1, NewSlot, Zenon
<1>4. /\ parent' = [parent EXCEPT ![n] = p] /\ Goto(c, l)
      /\ UNCHANGED <<state, pid, killed, chan, kstack, threadVars, nextpid, nexttid, kpages, owned, calls>>
  BY Zenon DEF ForkCopy
<1>5. /\ state' = state /\ pid' = pid /\ killed' = killed /\ chan' = chan /\ kstack' = kstack
      /\ t_flag' = t_flag /\ main_thread' = main_thread /\ ptid' = ptid /\ kpages' = kpages
      /\ tid' = tid /\ nextpid' = nextpid /\ nexttid' = nexttid /\ owned' = owned /\ calls' = calls
  BY <1>4, Zenon DEF threadVars
<1>6. l.op = "go" /\ l.arg = at[c].arg /\ l.thread = at[c].thread /\ l \in Locs
  <2>1. "go" \in Ops
    BY DEF Ops
  <2> QED
    BY <1>2, <2>1, LocOp, LocType, Zenon
<1> HIDE DEF l
<1>7. OnCpu' /\ loc'[p] = l /\ \A q \in Slots : q # p => loc'[q] = loc[q]
  BY <1>1, <1>2, <1>4, <1>5, LocGoto, Zenon
<1>8. /\ parent' \in [Slots -> Slots \cup {0}] /\ parent'[n] = p
      /\ \A q \in Slots : q # n => parent'[q] = parent[q]
  BY <1>2, <1>3, <1>4, Zenon DEF Types
<1>9. Types'
  <2>1. cur' = cur /\ at' \in [CPUs -> Locs] /\ ctx' = ctx
    BY <1>2, <1>4, <1>6, GotoTypes, Zenon
  <2> QED
    BY <1>2, <1>5, <1>8, <2>1, NextTypes, Zenon
<1>10. SInv'
  <2>1. /\ loc[p].op = "copyuvm" /\ loc'[p].op = "go" /\ loc'[p].arg = loc[p].arg
        /\ loc'[p].thread = loc[p].thread
    BY <1>1, <1>2, <1>6, <1>7, Zenon
  <2> HIDE DEF p, n
  <2>2. UNCHANGED <<state, pid, killed, chan, kstack, threadVars, nextpid, kpages, owned, calls>>
    BY <1>4, Zenon
  <2> QED
    BY <1>2, <1>3, <1>7, <1>8, <2>1, <2>2, CopyStep, Zenon
<1>11. Spared
  BY <1>5 DEF Spared, Alive
<1> QED
  BY <1>7, <1>9, <1>10, <1>11, Zenon DEF PInv

\* fork: copyuvm fails, and the slot and its kernel stack are given back.
LEMMA ForkCopyFailsAct == ASSUME SlotSets, PInv, NEW c \in CPUs, ForkCopyFails(c) PROVE PInv' /\ Spared
<1> DEFINE p == cur[c]
           n == at[c].arg
<1>1. p # 0 /\ at[c].op = "copyuvm" /\ "copyuvm" \in Making
  BY DEF ForkCopyFails, Running, Making
<1>2. p \in Slots /\ state[p] = "RUNNING" /\ loc[p] = at[c] /\ at[c] \in Locs /\ Types /\ OnCpu /\ SInv
  BY <1>1, OnCode, Zenon
<1>3. n = New(p) /\ n \in Slots /\ state[n] = "EMBRYO"
  BY <1>1, NewSlot, Zenon
<1>4. /\ state' = [state EXCEPT ![n] = "UNUSED"] /\ kstack' = [kstack EXCEPT ![n] = FALSE]
      /\ kpages' = kpages - 1 /\ Goto(c, User)
      /\ UNCHANGED <<pid, parent, killed, chan, threadVars, nextpid, nexttid, owned, calls>>
  BY Zenon DEF ForkCopyFails
<1>5. /\ pid' = pid /\ parent' = parent /\ killed' = killed /\ chan' = chan
      /\ t_flag' = t_flag /\ main_thread' = main_thread /\ ptid' = ptid
      /\ tid' = tid /\ nextpid' = nextpid /\ nexttid' = nexttid /\ owned' = owned /\ calls' = calls
  BY <1>4, Zenon DEF threadVars
<1>6. /\ state' \in [Slots -> States] /\ state'[n] = "UNUSED"
      /\ \A q \in Slots : q # n => state'[q] = state[q]
  <2>1. "UNUSED" \in States
    BY DEF States
  <2> QED
    BY <1>2, <1>3, <1>4, <2>1, Zenon DEF Types
<1>7. DOMAIN kstack' = Slots /\ ~kstack'[n] /\ \A q \in Slots : q # n => kstack'[q] = kstack[q]
  <2>1. DOMAIN kstack = Slots
    BY <1>2, Zenon DEF Types
  <2> QED
    BY <1>3, <1>4, <2>1, Zenon
<1>8. \A q \in Slots : state'[q] = "RUNNING" <=> state[q] = "RUNNING"
  BY <1>3, <1>6
<1>9. OnCpu' /\ loc'[p] = User /\ \A q \in Slots : q # p => loc'[q] = loc[q]
  BY <1>1, <1>2, <1>4, <1>8, LocGoto, Zenon
<1>10. Types'
  <2>1. cur' = cur /\ at' \in [CPUs -> Locs] /\ ctx' = ctx
    BY <1>2, <1>4, GotoTypes, LocType, ZenonT(30)
  <2>2. kpages' \in Int
    BY <1>2, <1>4, SMTT(60) DEF Types
  <2> QED
    BY <1>2, <1>5, <1>6, <1>7, <2>1, <2>2, NextTypes, Zenon
<1>11. SInv'
  <2>1. loc[p].op \in {"alloc", "copyuvm"} /\ loc[p].op # "alloc"
    BY <1>1, <1>2
  <2>2. UNCHANGED <<pid, parent, killed, chan, threadVars, nextpid, owned, calls>>
    BY <1>4, Zenon
  <2>3. \A q \in Slots : q # n => state'[q] = state[q] /\ kstack'[q] = kstack[q]
    BY <1>6, <1>7, Zenon
  <2>4. kpages' = kpages - 1 /\ state'[n] = "UNUSED" /\ ~kstack'[n]
    BY <1>4, <1>6, <1>7, Zenon
  <2> HIDE DEF p, n
  <2> QED
    BY <1>2, <1>3, <1>9, <2>1, <2>2, <2>3, <2>4, DropStep, ZenonT(60)
<1>12. Spared
  BY <1>3, <1>6 DEF Spared, Alive
<1> QED
  BY <1>9, <1>10, <1>11, <1>12, ZenonT(30) DEF PInv

\* thread_create: the LWP joins its group.
LEMMA ThreadSetupAct == ASSUME PInv, NEW c \in CPUs, ThreadSetup(c) PROVE PInv' /\ Spared
<1> DEFINE p == cur[c]
           n == at[c].arg
           l == [at[c] EXCEPT !.op = "go"]
<1>1. p # 0 /\ at[c].op = "allocuvm" /\ "allocuvm" \in Making
  BY DEF ThreadSetup, Running, Making
<1>2. p \in Slots /\ state[p] = "RUNNING" /\ loc[p] = at[c] /\ at[c] \in Locs /\ Types /\ OnCpu /\ SInv
  BY <1>1, OnCode, Zenon
<1>3. n = New(p) /\ n \in Slots /\ state[n] = "EMBRYO"
  BY <1>1, NewSlot, Zenon
<1>4. /\ ptid' = [ptid EXCEPT ![n] = IF t_flag[p] THEN ptid[p] ELSE pid[p]]
      /\ t_flag' = [t_flag EXCEPT ![n] = TRUE] /\ main_thread' = [main_thread EXCEPT ![n] = p]
      /\ tid' = [tid EXCEPT ![n] = nexttid] /\ owned' = [owned EXCEPT ![p] = @ \cup {nexttid}]
      /\ nexttid' = nexttid + 1 /\ Goto(c, l)
      /\ UNCHANGED <<state, pid, parent, killed, chan, kstack, nextpid, kpages, calls>>
  BY Zenon DEF ThreadSetup
<1>5. /\ state' = state /\ pid' = pid /\ parent' = parent /\ killed' = killed /\ chan' = chan
      /\ kstack' = kstack /\ kpages' = kpages /\ nextpid' = nextpid
  BY <1>4, Zenon
<1>6. l.op = "go" /\ l.arg = at[c].arg /\ l.thread = at[c].thread /\ l \in Locs
  <2>1. "go" \in Ops
    BY DEF Ops
  <2> QED
    BY <1>2, <2>1, LocOp, LocType, Zenon
<1> HIDE DEF l
<1>7. OnCpu' /\ loc'[p] = l /\ \A q \in Slots : q # p => loc'[q] = loc[q]
  BY <1>1, <1>2, <1>4, <1>5, LocGoto, ZenonT(30)
<1>8. nexttid \in Nat /\ nexttid' \in Nat
  BY <1>2, <1>4 DEF Types
<1>9. ptid' \in [Slots -> Nat]
  BY <1>2, <1>4, Zenon DEF Types
<1>10. DOMAIN t_flag' = Slots /\ t_flag'[n] /\ \A q \in Slots : q # n => t_flag'[q] = t_flag[q]
  <2>1. DOMAIN t_flag = Slots
    BY <1>2, Zenon DEF Types
  <2> QED
    BY <1>3, <1>4, <2>1, Zenon
<1>11. /\ main_thread' \in [Slots -> Slots \cup {0}] /\ main_thread'[n] = p
       /\ \A q \in Slots : q # n => main_thread'[q] = main_thread[q]
  BY <1>2, <1>3, <1>4, Zenon DEF Types
<1>12. tid' \in [Slots -> Nat] /\ tid'[n] = nexttid /\ \A q \in Slots : q # n => tid'[q] = tid[q]
  BY <1>2, <1>3, <1>4, <1>8, Zenon DEF Types
<1>13. /\ owned' \in [Slots -> SUBSET Nat] /\ owned'[p] = owned[p] \cup {nexttid}
       /\ \A q \in Slots : q # p => owned'[q] = owned[q]
  <2>1. owned \in [Slots -> SUBSET Nat]
    BY <1>2, Zenon DEF Types
  <2> QED
    BY <1>2, <1>4, <1>8, <2>1, Zenon
<1>14. Types'
  <2>1. cur' = cur /\ at' \in [CPUs -> Locs] /\ ctx' = ctx
    BY <1>2, <1>4, <1>6, GotoTypes, ZenonT(30)
  <2> QED
    BY <1>2, <1>5, <1>8, <1>9, <1>10, <1>11, <1>12, <1>13, <2>1, NextTypes, ZenonT(30)
<1>15. SInv'
  <2>1. /\ loc[p].op = "allocuvm" /\ loc'[p].op = "go" /\ loc'[p].arg = loc[p].arg
        /\ loc'[p].thread = loc[p].thread
    BY <1>1, <1>2, <1>6, <1>7, Zenon
  <2>2. UNCHANGED <<state, pid, parent, killed, chan, kstack, nextpid, kpages, calls>>
    BY <1>4, Zenon
  <2>3. \A q \in Slots : q # p => loc'[q] = loc[q] /\ owned'[q] = owned[q]
    BY <1>7, <1>13, Zenon
  <2>4. \A q \in Slots : q # n =>
           t_flag'[q] = t_flag[q] /\ main_thread'[q] = main_thread[q] /\ tid'[q] = tid[q]
    BY <1>10, <1>11, <1>12, Zenon
  <2>5. t_flag'[n] /\ main_thread'[n] = p /\ tid'[n] = nexttid /\ owned'[p] = owned[p] \cup {nexttid}
    BY <1>10, <1>11, <1>12, <1>13, ZenonT(30)
  <2> HIDE DEF p, n
  <2> QED
    BY <1>2, <1>3, <2>1, <2>2, <2>3, <2>4, <2>5, SetupStep, SMTT(60)
<1>16. Spared
  BY <1>5 DEF Spared, Alive
<1> QED
  BY <1>7, <1>14, <1>15, <1>16, Zenon DEF PInv

\* The end of fork and thread_create.
LEMMA MakeRunnableAct == ASSUME PInv, NEW c \in CPUs, MakeRunnable(c) PROVE PInv' /\ Spared
<1> DEFINE p == cur[c]
           n == at[c].arg
<1>1. p # 0 /\ at[c].op = "go" /\ "go" \in Making
  BY DEF MakeRunnable, Running, Making
<1>2. p \in Slots /\ state[p] = "RUNNING" /\ loc[p] = at[c] /\ at[c] \in Locs /\ Types /\ OnCpu /\ SInv
  BY <1>1, OnCode, Zenon
<1>3. n = New(p) /\ n \in Slots /\ state[n] = "EMBRYO"
  BY <1>1, NewSlot, Zenon
<1>4. /\ state' = [state EXCEPT ![n] = "RUNNABLE"] /\ at' = [at EXCEPT ![c] = User]
      /\ ctx' = [ctx EXCEPT ![n] = User] /\ cur' = cur
      /\ UNCHANGED <<pid, parent, killed, chan, kstack, threadVars, nextpid, nexttid, kpages, owned, calls>>
  BY Zenon DEF MakeRunnable
<1>5. /\ pid' = pid /\ parent' = parent /\ killed' = killed /\ chan' = chan /\ kstack' = kstack
      /\ t_flag' = t_flag /\ main_thread' = main_thread /\ ptid' = ptid /\ kpages' = kpages
      /\ tid' = tid /\ nextpid' = nextpid /\ nexttid' = nexttid /\ owned' = owned
  BY <1>4, Zenon DEF threadVars
<1>6. /\ state' \in [Slots -> States] /\ state'[n] = "RUNNABLE"
      /\ \A q \in Slots : q # n => state'[q] = state[q]
  <2>1. "RUNNABLE" \in States
    BY DEF States
  <2> QED
    BY <1>2, <1>3, <1>4, <2>1, Zenon DEF Types
<1>7. /\ OnCpu' /\ loc'[p] = User /\ loc'[n] = User
      /\ \A q \in Slots : q # p /\ q # n => loc'[q] = loc[q]
  <2> HIDE DEF n
  <2> QED
    BY <1>1, <1>2, <1>3, <1>4, LocMake, Zenon
<1>8. Types'
  <2>1. at' \in [CPUs -> Locs] /\ ctx' \in [Slots -> Locs]
    BY <1>2, <1>4, LocType, ZenonT(30) DEF Types
  <2> QED
    BY <1>2, <1>4, <1>5, <1>6, <2>1, NextTypes, Zenon
<1>9. SInv'
  <2>1. loc[p].op = "go" /\ loc'[n] = User /\ state'[n] = "RUNNABLE"
    BY <1>1, <1>2, <1>6, <1>7, Zenon
  <2>2. UNCHANGED <<pid, parent, killed, chan, kstack, threadVars, nextpid, kpages, owned, calls>>
    BY <1>4, Zenon
  <2> HIDE DEF p, n
  <2> QED
    BY <1>2, <1>3, <1>6, <1>7, <2>1, <2>2, GoStep, ZenonT(60)
<1>10. Spared
  BY <1>6 DEF Spared, Alive
<1> QED
  BY <1>7, <1>8, <1>9, <1>10, Zenon DEF PInv

\* exit: without LWPs the group of a process is the process.
LEMMA ExitAct == ASSUME PInv, NEW c \in CPUs, Exit(c) PROVE PInv' /\ Spared
<1> DEFINE p == cur[c]
<1>1. p # 0 /\ at[c].op = "exit"
  BY Zenon DEF Exit, Running
<1>2. p \in Slots /\ state[p] = "RUNNING" /\ loc[p] = at[c] /\ Types /\ OnCpu /\ SInv
  BY <1>1, OnCode, Zenon
<1>3. /\ state' = [q \in Slots |->
                     IF q = p \/ (ptid[q] = pid[p] /\ state[q] # "UNUSED")
                       THEN "ZOMBIE" ELSE Woken(state, ExitWakes(p))[q]]
      /\ Reparent(p)
      /\ killed' = [q \in Slots |->
                      killed[q] \/ (t_flag[p] /\ (ptid[q] = ptid[p] \/ main_thread[p] = q))]
      /\ Sched(c, None)
      /\ UNCHANGED <<pid, chan, kstack, threadVars, nextpid, nexttid, kpages, owned, calls>>
  BY Zenon DEF Exit
<1>4. /\ pid' = pid /\ chan' = chan /\ kstack' = kstack
      /\ t_flag' = t_flag /\ main_thread' = main_thread /\ ptid' = ptid /\ kpages' = kpages
      /\ tid' = tid /\ nextpid' = nextpid /\ nexttid' = nexttid /\ owned' = owned
  BY <1>3, Zenon DEF threadVars
<1>5. PidsKnown
  <2>1. "thread_create" \notin calls
    BY <1>1, <1>2, Zenon DEF SInv, OnlyLwps, Lwp
  <2> QED
    BY <1>2, <2>1, Zenon DEF SInv, NoLwps
<1>6. \A q \in Slots : ptid[q] = pid[p] /\ state[q] # "UNUSED" => q = p
  <2>1. pid[p] # 0
    BY <1>2, <1>5 DEF PidsKnown
  <2>2. \A q \in Slots : state[q] # "UNUSED" => ptid[q] = pid[q]
    BY <1>5, Zenon DEF PidsKnown
  <2>3. \A q \in Slots : pid[q] = pid[p] => q = p
    BY <1>2, <1>5, <2>1, Zenon DEF PidsKnown
  <2> QED
    BY <2>2, <2>3, Zenon
<1>7. /\ state'[p] = "ZOMBIE"
      /\ \A q \in Slots : q # p => state'[q] \in {state[q], "RUNNABLE"} /\ (state[q] # "SLEEPING" => state'[q] = state[q])
  <2>1. state'[p] = "ZOMBIE"
    BY <1>2, <1>3, Zenon
  <2>2. ASSUME NEW q \in Slots, q # p PROVE state'[q] = Woken(state, ExitWakes(p))[q]
    BY <1>3, <1>6, <2>2, Zenon
  <2>3. ASSUME NEW q \in Slots
        PROVE  Woken(state, ExitWakes(p))[q] = IF state[q] = "SLEEPING" /\ chan[q] \in ExitWakes(p) THEN "RUNNABLE" ELSE state[q]
    BY ZenonT(30) DEF Woken
  <2> QED
    BY <2>1, <2>2, <2>3, Zenon
<1>8. state' \in [Slots -> States]
  <2>1. \A q \in Slots : state'[q] \in States
    <3>1. \A q \in Slots : state[q] \in States
      BY <1>2, Zenon DEF Types
    <3>2. "ZOMBIE" \in States /\ "RUNNABLE" \in States
      BY Zenon DEF States
    <3> QED
      BY <1>7, <3>1, <3>2, Zenon
  <2> QED
    BY <1>3, <2>1, Zenon
<1>9. \A q \in Slots : state'[q] = "RUNNING" <=> state[q] = "RUNNING" /\ q # p
  BY <1>2, <1>7
<1>10. OnCpu' /\ loc'[p] = None /\ \A q \in Slots : q # p => loc'[q] = loc[q]
  BY <1>1, <1>2, <1>3, <1>9, LocSched, ZenonT(30)
<1>11. Types'
  <2>1. cur' \in [CPUs -> Slots \cup {0}] /\ at' \in [CPUs -> Locs] /\ ctx' \in [Slots -> Locs]
    BY <1>2, <1>3, SchedTypes, LocType, Zenon
  <2>2. parent' \in [Slots -> Slots \cup {0}]
    <3>1. initproc \in Slots
      BY ProcAssumption DEF initproc, Slots
    <3>2. \A q \in Slots : parent[q] \in Slots \cup {0}
      BY <1>2, Zenon DEF Types
    <3> QED
      BY <1>3, <3>1, <3>2, Zenon DEF Reparent
  <2>3. DOMAIN killed' = Slots
    BY <1>3, Zenon
  <2> QED
    BY <1>2, <1>4, <1>8, <2>1, <2>2, <2>3, NextTypes, Zenon
<1>12. SInv'
  <2>1. loc[p].op = "exit"
    BY <1>1, <1>2, Zenon
  <2>2. UNCHANGED <<pid, chan, kstack, threadVars, nextpid, kpages, owned, calls>>
    BY <1>3, Zenon
  <2> HIDE DEF p
  <2> QED
    BY <1>2, <1>3, <1>10, <2>1, <2>2, ExitStep, Zenon
<1>13. Spared
  BY <1>7 DEF Spared, Alive
<1> QED
  BY <1>10, <1>11, <1>12, <1>13, Zenon DEF PInv

\* thread_exit under the lock.
LEMMA ThreadExitAct == ASSUME PInv, NEW c \in CPUs, ThreadExit(c) PROVE PInv' /\ Spared
<1> DEFINE p == cur[c]
           Q == {main_thread[p]} \cup
                  {q \in {initproc} : \E k \in {j \in Slots : main_thread[j] = p} : state[k] = "ZOMBIE"}
<1>1. p # 0 /\ at[c].op = "thread_exit"
  BY Zenon DEF ThreadExit, Running
<1>2. p \in Slots /\ state[p] = "RUNNING" /\ loc[p] = at[c] /\ Types /\ OnCpu /\ SInv
  BY <1>1, OnCode, Zenon
<1>3. /\ state' = [Woken(state, Q) EXCEPT ![p] = "ZOMBIE"]
      /\ main_thread' = [q \in Slots |->
           IF q \in {j \in Slots : main_thread[j] = p} THEN initproc ELSE main_thread[q]]
      /\ Sched(c, None)
      /\ UNCHANGED <<pid, parent, killed, chan, kstack, t_flag, ptid, tid, nextpid, nexttid, kpages, owned, calls>>
  BY Zenon DEF ThreadExit
<1>4. /\ pid' = pid /\ chan' = chan /\ kstack' = kstack /\ parent' = parent /\ killed' = killed
      /\ t_flag' = t_flag /\ ptid' = ptid /\ kpages' = kpages
      /\ tid' = tid /\ nextpid' = nextpid /\ nexttid' = nexttid /\ owned' = owned
  BY <1>3, Zenon
<1>5. main_thread[p] \in Q
  BY Zenon
<1> HIDE DEF Q
<1>6. /\ state'[p] = "ZOMBIE"
      /\ \A q \in Slots : q # p =>
           state'[q] = IF state[q] = "SLEEPING" /\ chan[q] \in Q THEN "RUNNABLE" ELSE state[q]
  <2>1. DOMAIN Woken(state, Q) = Slots
    BY Zenon DEF Woken
  <2>2. \A q \in Slots : Woken(state, Q)[q] = IF state[q] = "SLEEPING" /\ chan[q] \in Q THEN "RUNNABLE" ELSE state[q]
    BY Zenon DEF Woken
  <2> QED
    BY <1>2, <1>3, <2>1, <2>2, Zenon
<1>7. state' \in [Slots -> States]
  <2>1. "ZOMBIE" \in States /\ "RUNNABLE" \in States /\ state \in [Slots -> States]
    BY <1>2 DEF States, Types
  <2>2. Woken(state, Q) \in [Slots -> States]
    BY <2>1, Zenon DEF Woken
  <2> QED
    BY <1>2, <1>3, <2>1, <2>2, Zenon
<1>8. \A q \in Slots : state'[q] = "RUNNING" <=> state[q] = "RUNNING" /\ q # p
  BY <1>2, <1>6
<1>9. OnCpu' /\ loc'[p] = None /\ \A q \in Slots : q # p => loc'[q] = loc[q]
  BY <1>1, <1>2, <1>3, <1>8, LocSched, Zenon
<1>10. \A q \in Slots : main_thread'[q] = IF main_thread[q] = p THEN initproc ELSE main_thread[q]
  BY <1>3, Zenon
<1>11. Types'
  <2>1. cur' \in [CPUs -> Slots \cup {0}] /\ at' \in [CPUs -> Locs] /\ ctx' \in [Slots -> Locs]
    BY <1>2, <1>3, SchedTypes, LocType, Zenon
  <2>2. main_thread' \in [Slots -> Slots \cup {0}]
    <3>1. initproc \in Slots
      BY ProcAssumption DEF initproc, Slots
    <3>2. \A q \in Slots : main_thread[q] \in Slots \cup {0}
      BY <1>2, Zenon DEF Types
    <3> QED
      BY <1>3, <3>1, <3>2, Zenon
  <2> QED
    BY <1>2, <1>4, <1>7, <2>1, <2>2, NextTypes, Zenon
<1>12. SInv'
  <2>1. loc[p].op = "thread_exit"
    BY <1>1, <1>2, Zenon
  <2>2. UNCHANGED <<pid, parent, killed, chan, kstack, t_flag, ptid, tid, nextpid, kpages, owned, calls>>
    BY <1>3, Zenon
  <2> HIDE DEF p
  <2> QED
    BY <1>2, <1>5, <1>6, <1>9, <1>10, <2>1, <2>2, ThreadExitStep, ZenonT(30)
<1>13. Spared
  BY <1>6 DEF Spared, Alive
<1> QED
  BY <1>9, <1>11, <1>12, <1>13, Zenon DEF PInv

\* kill marks every slot of the pid, and wakes those that sleep.
LEMMA KillAct == ASSUME SlotSets, PInv, NEW c \in CPUs, Kill(c) PROVE PInv' /\ Spared
<1> DEFINE p == cur[c]
<1>1. p # 0 /\ at[c].op = "user" /\ MayCall(p, "kill")
  BY Zenon DEF Kill, Running
<1>2. p \in Slots /\ state[p] = "RUNNING" /\ loc[p] = at[c] /\ Types /\ OnCpu /\ SInv
  BY <1>1, OnCode, Zenon
<1>3. /\ Goto(c, User)
      /\ UNCHANGED <<pid, parent, chan, kstack, threadVars, nextpid, nexttid, kpages, owned, calls>>
  BY Zenon DEF Kill
<1>4. PICK n \in Pids \ {1} : LET match == {q \in Slots : pid[q] = n} IN
        /\ match # {}
        /\ killed' = [killed EXCEPT ![Least(match)] = TRUE]
        /\ state' = [state EXCEPT ![Least(match)] = IF @ = "SLEEPING" THEN "RUNNABLE" ELSE @]
  BY Zenon DEF Kill
<1> DEFINE match == {q \in Slots : pid[q] = n}
           k == Least(match)
<1>5. k \in Slots
  BY <1>4, LeastIn, Zenon
<1>6. killed' = [killed EXCEPT ![k] = TRUE] /\ state' = [state EXCEPT ![k] = IF @ = "SLEEPING" THEN "RUNNABLE" ELSE @]
  BY <1>4, Zenon
<1> HIDE DEF match, k
<1>7. /\ pid' = pid /\ chan' = chan /\ kstack' = kstack /\ parent' = parent
      /\ t_flag' = t_flag /\ main_thread' = main_thread /\ ptid' = ptid /\ kpages' = kpages
      /\ tid' = tid /\ nextpid' = nextpid /\ nexttid' = nexttid /\ owned' = owned
  BY <1>3, Zenon DEF threadVars
<1>8. /\ state' \in [Slots -> States]
      /\ state'[k] = IF state[k] = "SLEEPING" THEN "RUNNABLE" ELSE state[k]
      /\ \A q \in Slots : q # k => state'[q] = state[q]
  <2>1. "RUNNABLE" \in States /\ state \in [Slots -> States]
    BY <1>2 DEF States, Types
  <2> QED
    BY <1>5, <1>6, <2>1, Zenon
<1>9. DOMAIN killed' = Slots /\ \A q \in Slots : q # k => killed'[q] = killed[q]
  <2>1. DOMAIN killed = Slots
    BY <1>2, Zenon DEF Types
  <2> QED
    BY <1>5, <1>6, <2>1, Zenon
<1>10. \A q \in Slots : state'[q] = "RUNNING" <=> state[q] = "RUNNING"
  BY <1>5, <1>8
<1>11. OnCpu' /\ loc'[p] = User /\ \A q \in Slots : q # p => loc'[q] = loc[q]
  BY <1>1, <1>2, <1>3, <1>10, LocGoto, Zenon
<1>12. Types'
  <2>1. cur' = cur /\ at' \in [CPUs -> Locs] /\ ctx' = ctx
    BY <1>2, <1>3, GotoTypes, LocType, Zenon
  <2> QED
    BY <1>2, <1>7, <1>8, <1>9, <2>1, NextTypes, Zenon
<1>13. SInv'
  <2>1. "thread_create" \notin calls
    <3>1. "kill" \notin {"fork", "wait"} /\ "kill" # "wait"
      OBVIOUS
    <3> QED
      BY <1>1, <1>2, <3>1, Zenon DEF MayCall, SInv, Apart
  <2>2. UNCHANGED <<pid, parent, chan, kstack, threadVars, nextpid, kpages, owned, calls>>
    BY <1>3, Zenon
  <2>3. loc[p].op = "user" /\ \A q \in Slots : q # k => state'[q] = state[q] /\ killed'[q] = killed[q]
    BY <1>1, <1>2, <1>8, <1>9, Zenon
  <2> HIDE DEF p
  <2> QED
    BY <1>2, <1>5, <1>8, <1>11, <2>1, <2>2, <2>3, KillStep, ZenonT(30)
<1>14. Spared
  <2>1. \A q \in Slots : Alive(q) => state'[q] \in {state[q], "RUNNABLE"}
    BY <1>5, <1>8, Zenon
  <2> QED
    BY <2>1 DEF Spared, Alive
<1> QED
  BY <1>11, <1>12, <1>13, <1>14, Zenon DEF PInv

\* wait frees the slot of a zombie child.
LEMMA WaitReapsAct == ASSUME SlotSets, PInv, NEW c \in CPUs, WaitReaps(c) PROVE PInv' /\ Spared
<1> DEFINE p == cur[c]
           k == Least(Zombies(Kids(p)))
           lwps == FreeGroup(k) \ {k}
<1>1. p # 0 /\ at[c].op \in {"user", "wait"}
  BY Zenon DEF WaitReaps, InWait, Running
<1>2. p \in Slots /\ state[p] = "RUNNING" /\ loc[p] = at[c] /\ Types /\ OnCpu /\ SInv
  BY <1>1, OnCode, Zenon
<1>3. /\ Zombies(Kids(p)) # {} /\ kpages' = kpages - 1 /\ Goto(c, User)
      /\ UNCHANGED <<chan, main_thread, ptid, nextpid, nexttid, owned, calls>>
  BY Zenon DEF WaitReaps
<1>4. /\ state' = [q \in Slots |-> IF q \in FreeGroup(k) THEN "UNUSED" ELSE state[q]]
      /\ pid' = [q \in Slots |-> IF q \in FreeGroup(k) THEN 0 ELSE pid[q]]
      /\ parent' = [q \in Slots |-> IF q \in FreeGroup(k) THEN 0 ELSE parent[q]]
      /\ killed' = [q \in Slots |-> q \notin FreeGroup(k) /\ killed[q]]
      /\ kstack' = [q \in Slots |-> q \notin FreeGroup(k) /\ kstack[q]]
      /\ t_flag' = [q \in Slots |-> q \notin lwps /\ t_flag[q]]
      /\ tid' = [q \in Slots |-> IF q \in lwps THEN 0 ELSE tid[q]]
  BY Zenon DEF WaitReaps
<1>5. k \in Slots /\ state[k] = "ZOMBIE" /\ parent[k] = p
  <2>1. Zombies(Kids(p)) \subseteq Slots
    BY Zenon DEF Zombies, Kids
  <2>2. k \in Zombies(Kids(p))
    BY <1>3, <2>1, LeastIn, Zenon
  <2> HIDE DEF k
  <2> QED
    BY <2>2, Zenon DEF Zombies, Kids
<1> HIDE DEF k
<1>6. p # 0 /\ k # 0
  BY <1>2, <1>5 DEF Slots
<1>7. "thread_create" \notin calls
  <2>1. SUFFICES ASSUME "thread_create" \in calls PROVE FALSE
    OBVIOUS
  <2>2. t_flag[k]
    BY <1>2, <1>5, <2>1, Zenon DEF SInv, OnlyLwps, Lwp
  <2>3. parent[k] = 0
    BY <1>2, <1>5, <2>2, Zenon DEF SInv, Parents, Parented
  <2> QED
    BY <1>5, <1>6, <2>3, Zenon
<1>8. FreeGroup(k) = {k} /\ lwps = {}
  <2>1. \A q \in Slots : main_thread[q] = 0
    BY <1>2, <1>7, Zenon DEF SInv, NoLwps, Plain
  <2> QED
    BY <1>6, <2>1, Zenon DEF FreeGroup
<1> HIDE DEF lwps
<1>9. /\ state'[k] = "UNUSED" /\ pid'[k] = 0 /\ parent'[k] = 0 /\ ~kstack'[k]
      /\ DOMAIN killed' = Slots /\ DOMAIN kstack' = Slots /\ DOMAIN t_flag' = Slots
  BY <1>4, <1>5, <1>8, Zenon
<1>10. ASSUME NEW q \in Slots, q # k
       PROVE  /\ state'[q] = state[q] /\ pid'[q] = pid[q] /\ parent'[q] = parent[q]
              /\ (killed'[q] <=> killed[q]) /\ (kstack'[q] <=> kstack[q])
  <2>1. q \notin FreeGroup(k)
    BY <1>8, <1>10, Zenon
  <2> QED
    BY <1>4, <2>1, Zenon
<1>11. (\A q \in Slots : t_flag'[q] <=> t_flag[q]) /\ tid' = tid
  <2>1. \A q : q \notin lwps
    BY <1>8, Zenon
  <2>2. tid = [q \in Slots |-> tid[q]]
    BY <1>2, Zenon DEF Types
  <2>3. tid' = [q \in Slots |-> tid[q]]
    BY <1>4, <2>1, Zenon
  <2> QED
    BY <1>4, <2>1, <2>2, <2>3, Zenon
<1>12. /\ state' \in [Slots -> States] /\ pid' \in [Slots -> Nat] /\ parent' \in [Slots -> Slots \cup {0}]
  <2>1. /\ \A q \in Slots : state[q] \in States /\ pid[q] \in Nat /\ parent[q] \in Slots \cup {0}
        /\ "UNUSED" \in States /\ 0 \in Nat
    BY <1>2, Zenon DEF Types, States
  <2> QED
    BY <1>4, <2>1, Zenon
<1>13. \A q \in Slots : state'[q] = "RUNNING" <=> state[q] = "RUNNING"
  BY <1>5, <1>9, <1>10, Zenon
<1>14. OnCpu' /\ loc'[p] = User /\ \A q \in Slots : q # p => loc'[q] = loc[q]
  BY <1>1, <1>2, <1>3, <1>13, LocGoto, Zenon
<1>15. Types'
  <2>1. cur' = cur /\ at' \in [CPUs -> Locs] /\ ctx' = ctx
    BY <1>2, <1>3, GotoTypes, LocType, ZenonT(30)
  <2>2. kpages' \in Int
    BY <1>2, <1>3 DEF Types
  <2>3. /\ chan' = chan /\ main_thread' = main_thread /\ ptid' = ptid /\ nextpid' = nextpid
        /\ nexttid' = nexttid /\ owned' = owned
    BY <1>3, ZenonT(30)
  <2> QED
    BY <1>2, <1>9, <1>11, <1>12, <2>1, <2>2, <2>3, NextTypes, ZenonT(30)
<1>16. SInv'
  <2>1. UNCHANGED <<chan, main_thread, ptid, nextpid, owned, calls>>
    BY <1>3, Zenon
  <2>2. loc[p].op \in {"user", "wait"} /\ kpages' = kpages - 1
    BY <1>1, <1>2, <1>3, ZenonT(30)
  <2> HIDE DEF p
  <2> QED
    BY <1>2, <1>5, <1>7, <1>9, <1>10, <1>11, <1>14, <2>1, <2>2, ReapStep, ZenonT(60)
<1>17. Spared
  BY <1>5, <1>10 DEF Spared, Alive
<1> QED
  BY <1>14, <1>15, <1>16, <1>17, Zenon DEF PInv

\* SleepStep for the sleep of wait.
LEMMA SleepWait ==
  ASSUME SInv, NEW p \in Slots,
         state[p] = "RUNNING", state'[p] = "SLEEPING", chan'[p] = p,
         \A q \in Slots : q # p => state'[q] = state[q] /\ chan'[q] = chan[q] /\ loc'[q] = loc[q],
         loc'[p] = Loc("wait", 0, FALSE), loc[p].op \in {"user", "wait"},
         Kids(p) # {} /\ Zombies(Kids(p)) = {} /\ ~killed[p],
         UNCHANGED <<pid, parent, killed, kstack, threadVars, nextpid, kpages, owned, calls>>
  PROVE  SInv'
<1>1. "wait" \in {"wait", "join"} /\ "wait" # "join" /\ loc[p].op # "join"
  OBVIOUS
<1> QED
  BY <1>1, SleepStep, Zenon

\* SleepStep for the sleep of thread_join.
LEMMA SleepJoin ==
  ASSUME SInv, NEW p \in Slots, NEW t,
         state[p] = "RUNNING", state'[p] = "SLEEPING", chan'[p] = p,
         \A q \in Slots : q # p => state'[q] = state[q] /\ chan'[q] = chan[q] /\ loc'[q] = loc[q],
         loc'[p] = Loc("join", t, FALSE), loc[p].op \in {"user", "join"},
         loc[p].op = "user" => p # initproc /\ t \in owned[p],
         loc[p].op = "join" => loc[p].arg = t,
         Lwps(p, t) # {} /\ Zombies(Lwps(p, t)) = {},
         UNCHANGED <<pid, parent, killed, kstack, threadVars, nextpid, kpages, owned, calls>>
  PROVE  SInv'
<1>1. "join" \in {"wait", "join"} /\ "wait" # "join" 
  OBVIOUS
<1> QED
  BY <1>1, SleepStep, ZenonT(30)

\* wait sleeps while it has children and none is a zombie.
LEMMA WaitSleepsAct == ASSUME PInv, NEW c \in CPUs, WaitSleeps(c) PROVE PInv' /\ Spared
<1> DEFINE p == cur[c]
           l == Loc("wait", 0, FALSE)
<1>1. p # 0 /\ at[c].op \in {"user", "wait"}
  BY Zenon DEF WaitSleeps, InWait, Running
<1>2. p \in Slots /\ state[p] = "RUNNING" /\ loc[p] = at[c] /\ Types /\ OnCpu /\ SInv
  BY <1>1, OnCode, Zenon
<1>3. /\ Zombies(Kids(p)) = {} /\ Kids(p) # {} /\ ~killed[p]
      /\ state' = [state EXCEPT ![p] = "SLEEPING"] /\ chan' = [chan EXCEPT ![p] = p] /\ Sched(c, l)
      /\ UNCHANGED <<pid, parent, killed, kstack, threadVars, nextpid, nexttid, kpages, owned, calls>>
  BY Zenon DEF WaitSleeps
<1>4. /\ pid' = pid /\ kstack' = kstack /\ parent' = parent /\ killed' = killed
      /\ t_flag' = t_flag /\ main_thread' = main_thread /\ ptid' = ptid /\ kpages' = kpages
      /\ tid' = tid /\ nextpid' = nextpid /\ nexttid' = nexttid /\ owned' = owned
  BY <1>3, Zenon DEF threadVars
<1>5. /\ state' \in [Slots -> States] /\ state'[p] = "SLEEPING"
      /\ \A q \in Slots : q # p => state'[q] = state[q]
  <2>1. "SLEEPING" \in States /\ state \in [Slots -> States]
    BY <1>2 DEF Types, States
  <2> QED
    BY <1>2, <1>3, <2>1, ZenonT(30)
<1>6. chan' \in [Slots -> Slots \cup {0}] /\ chan'[p] = p /\ \A q \in Slots : q # p => chan'[q] = chan[q]
  <2>1. chan \in [Slots -> Slots \cup {0}]
    BY <1>2, Zenon DEF Types
  <2> QED
    BY <1>2, <1>3, <2>1, Zenon
<1>7. \A q \in Slots : state'[q] = "RUNNING" <=> state[q] = "RUNNING" /\ q # p
  BY <1>2, <1>5
<1> HIDE DEF l
<1>8. OnCpu' /\ loc'[p] = l /\ \A q \in Slots : q # p => loc'[q] = loc[q]
  BY <1>1, <1>2, <1>3, <1>7, LocSched, Zenon
<1>9. Types'
  <2>1. l \in Locs
    <3>1. "wait" \in Ops /\ FALSE \in BOOLEAN /\ 0 \in Nat
      BY ProcAssumption DEF Ops
    <3> QED
      BY <3>1, LocType, Zenon DEF l
  <2>2. cur' \in [CPUs -> Slots \cup {0}] /\ at' \in [CPUs -> Locs] /\ ctx' \in [Slots -> Locs]
    BY <1>2, <1>3, <2>1, SchedTypes, Zenon
  <2> QED
    BY <1>2, <1>4, <1>5, <1>6, <2>2, NextTypes, ZenonT(30)
<1>10. SInv'
  <2>1. loc[p].op \in {"user", "wait"}
    BY <1>1, <1>2, Zenon
  <2>2. \A q \in Slots : q # p => state'[q] = state[q] /\ chan'[q] = chan[q] /\ loc'[q] = loc[q]
    BY <1>5, <1>6, <1>8, Zenon
  <2>3. UNCHANGED <<pid, parent, killed, kstack, threadVars, nextpid, kpages, owned, calls>>
    BY <1>3, Zenon
  <2>4. Kids(p) # {} /\ Zombies(Kids(p)) = {} /\ ~killed[p]
    BY <1>3, Zenon
  <2>5. loc'[p] = Loc("wait", 0, FALSE) /\ chan'[p] = p /\ state'[p] = "SLEEPING"
    BY <1>5, <1>6, <1>8, Zenon DEF l
  <2> HIDE DEF p
  <2> QED
    BY <1>2, <2>1, <2>2, <2>3, <2>4, <2>5, SleepWait, ZenonT(30)
<1>11. Spared
  BY <1>5 DEF Spared, Alive
<1> QED
  BY <1>8, <1>9, <1>10, <1>11, Zenon DEF PInv

\* thread_join sleeps while its LWP runs.
LEMMA JoinSleepsAct == ASSUME PInv, NEW c \in CPUs, NEW t \in 0 .. MaxPid, JoinSleeps(c, t) PROVE PInv' /\ Spared
<1> DEFINE p == cur[c]
           l == Loc("join", t, FALSE)
<1>1. /\ p # 0 /\ at[c].op \in {"user", "join"} /\ (at[c].op = "join" => at[c].arg = t)
      /\ (at[c].op = "user" => p # initproc /\ t \in owned[p])
  BY DEF JoinSleeps, InJoin, Running, MayCall
<1>2. p \in Slots /\ state[p] = "RUNNING" /\ loc[p] = at[c] /\ Types /\ OnCpu /\ SInv
  BY <1>1, OnCode, Zenon
<1>3. /\ Zombies(Lwps(p, t)) = {} /\ Lwps(p, t) # {}
      /\ state' = [state EXCEPT ![p] = "SLEEPING"] /\ chan' = [chan EXCEPT ![p] = p] /\ Sched(c, l)
      /\ UNCHANGED <<pid, parent, killed, kstack, threadVars, nextpid, nexttid, kpages, owned, calls>>
  BY Zenon DEF JoinSleeps
<1>4. /\ pid' = pid /\ kstack' = kstack /\ parent' = parent /\ killed' = killed
      /\ t_flag' = t_flag /\ main_thread' = main_thread /\ ptid' = ptid /\ kpages' = kpages
      /\ tid' = tid /\ nextpid' = nextpid /\ nexttid' = nexttid /\ owned' = owned
  BY <1>3, Zenon DEF threadVars
<1>5. /\ state' \in [Slots -> States] /\ state'[p] = "SLEEPING"
      /\ \A q \in Slots : q # p => state'[q] = state[q]
  <2>1. "SLEEPING" \in States /\ state \in [Slots -> States]
    BY <1>2 DEF Types, States
  <2> QED
    BY <1>2, <1>3, <2>1, Zenon
<1>6. chan' \in [Slots -> Slots \cup {0}] /\ chan'[p] = p /\ \A q \in Slots : q # p => chan'[q] = chan[q]
  <2>1. chan \in [Slots -> Slots \cup {0}]
    BY <1>2, Zenon DEF Types
  <2> QED
    BY <1>2, <1>3, <2>1, Zenon
<1>7. \A q \in Slots : state'[q] = "RUNNING" <=> state[q] = "RUNNING" /\ q # p
  BY <1>2, <1>5
<1> HIDE DEF l
<1>8. OnCpu' /\ loc'[p] = l /\ \A q \in Slots : q # p => loc'[q] = loc[q]
  BY <1>1, <1>2, <1>3, <1>7, LocSched, ZenonT(30)
<1>9. Types'
  <2>1. l \in Locs
    <3>1. "join" \in Ops /\ FALSE \in BOOLEAN /\ t \in Nat
      BY ProcAssumption DEF Ops
    <3> QED
      BY <3>1, LocType, Zenon DEF l
  <2>2. cur' \in [CPUs -> Slots \cup {0}] /\ at' \in [CPUs -> Locs] /\ ctx' \in [Slots -> Locs]
    BY <1>2, <1>3, <2>1, SchedTypes, Zenon
  <2> QED
    BY <1>2, <1>4, <1>5, <1>6, <2>2, NextTypes, Zenon
<1>10. SInv'
  <2>1. /\ loc[p].op \in {"user", "join"} /\ (loc[p].op = "join" => loc[p].arg = t)
        /\ (loc[p].op = "user" => p # initproc /\ t \in owned[p])
    BY <1>1, <1>2, Zenon
  <2>2. \A q \in Slots : q # p => state'[q] = state[q] /\ chan'[q] = chan[q] /\ loc'[q] = loc[q]
    BY <1>5, <1>6, <1>8, Zenon
  <2>3. UNCHANGED <<pid, parent, killed, kstack, threadVars, nextpid, kpages, owned, calls>>
    BY <1>3, Zenon
  <2>4. Lwps(p, t) # {} /\ Zombies(Lwps(p, t)) = {}
    BY <1>3, Zenon
  <2>5. loc'[p] = Loc("join", t, FALSE) /\ chan'[p] = p /\ state'[p] = "SLEEPING"
    BY <1>5, <1>6, <1>8, ZenonT(30) DEF l
  <2> HIDE DEF p
  <2> QED
    BY <1>2, <2>1, <2>2, <2>3, <2>4, <2>5, SleepJoin, ZenonT(30)
<1>11. Spared
  BY <1>5 DEF Spared, Alive
<1> QED
  BY <1>8, <1>9, <1>10, <1>11, ZenonT(30) DEF PInv

\* thread_join frees the slot of its LWP.
LEMMA JoinReapsAct == ASSUME SlotSets, PInv, NEW c \in CPUs, NEW t \in 0 .. MaxPid, JoinReaps(c, t) PROVE PInv' /\ Spared
<1> DEFINE p == cur[c]
           k == Least(Zombies(Lwps(p, t)))
<1>1. p # 0 /\ at[c].op \in {"user", "join"}
  BY Zenon DEF JoinReaps, InJoin, Running
<1>2. p \in Slots /\ state[p] = "RUNNING" /\ loc[p] = at[c] /\ Types /\ OnCpu /\ SInv
  BY <1>1, OnCode, Zenon
<1>3. /\ Zombies(Lwps(p, t)) # {} /\ kpages' = kpages - 1 /\ Goto(c, User)
      /\ owned' = [owned EXCEPT ![p] = @ \ {t}]
      /\ UNCHANGED <<chan, main_thread, ptid, nextpid, nexttid, calls>>
  BY Zenon DEF JoinReaps
<1>4. /\ state' = [state EXCEPT ![k] = "UNUSED"] /\ pid' = [pid EXCEPT ![k] = 0]
      /\ parent' = [parent EXCEPT ![k] = 0] /\ killed' = [killed EXCEPT ![k] = FALSE]
      /\ kstack' = [kstack EXCEPT ![k] = FALSE] /\ t_flag' = [t_flag EXCEPT ![k] = FALSE]
      /\ tid' = [tid EXCEPT ![k] = 0]
  BY Zenon DEF JoinReaps
<1>5. k \in Slots /\ state[k] = "ZOMBIE" /\ main_thread[k] = p /\ tid[k] = t
  <2>1. Zombies(Lwps(p, t)) \subseteq Slots
    BY Zenon DEF Zombies, Lwps
  <2>2. k \in Zombies(Lwps(p, t))
    BY <1>3, <2>1, LeastIn, Zenon
  <2> HIDE DEF k
  <2> QED
    BY <2>2, Zenon DEF Zombies, Lwps
<1> HIDE DEF k
<1>6. "thread_create" \in calls
  <2>1. p # 0
    BY <1>2 DEF Slots
  <2> QED
    BY <1>2, <1>5, <2>1, Zenon DEF SInv, NoLwps, Plain
<1>7. /\ state' \in [Slots -> States] /\ state'[k] = "UNUSED"
      /\ \A q \in Slots : q # k => state'[q] = state[q]
  <2>1. "UNUSED" \in States /\ state \in [Slots -> States]
    BY <1>2 DEF Types, States
  <2> QED
    BY <1>4, <1>5, <2>1, ZenonT(30)
<1>8. pid' \in [Slots -> Nat] /\ tid' \in [Slots -> Nat] /\ \A q \in Slots : q # k => tid'[q] = tid[q]
  <2>1. pid \in [Slots -> Nat] /\ tid \in [Slots -> Nat] /\ 0 \in Nat
    BY <1>2 DEF Types
  <2> QED
    BY <1>4, <1>5, <2>1, ZenonT(30)
<1>9. /\ parent' \in [Slots -> Slots \cup {0}] /\ parent'[k] = 0
      /\ \A q \in Slots : q # k => parent'[q] = parent[q]
  <2>1. parent \in [Slots -> Slots \cup {0}]
    BY <1>2, Zenon DEF Types
  <2> QED
    BY <1>4, <1>5, <2>1, Zenon
<1>10. /\ DOMAIN killed' = Slots /\ ~killed'[k] /\ \A q \in Slots : q # k => killed'[q] = killed[q]
       /\ DOMAIN kstack' = Slots /\ ~kstack'[k] /\ \A q \in Slots : q # k => kstack'[q] = kstack[q]
       /\ DOMAIN t_flag' = Slots /\ ~t_flag'[k] /\ \A q \in Slots : q # k => t_flag'[q] = t_flag[q]
  <2>1. DOMAIN killed = Slots /\ DOMAIN kstack = Slots /\ DOMAIN t_flag = Slots
    BY <1>2, ZenonT(30) DEF Types
  <2> QED
    BY <1>4, <1>5, <2>1, Zenon
<1>11. /\ owned' \in [Slots -> SUBSET Nat] /\ owned'[p] = owned[p] \ {t}
       /\ \A q \in Slots : q # p => owned'[q] = owned[q]
  <2>1. owned \in [Slots -> SUBSET Nat]
    BY <1>2, Zenon DEF Types
  <2> QED
    BY <1>2, <1>3, <2>1, Zenon
<1>12. \A q \in Slots : state'[q] = "RUNNING" <=> state[q] = "RUNNING"
  BY <1>5, <1>7, Zenon
<1>13. OnCpu' /\ loc'[p] = User /\ \A q \in Slots : q # p => loc'[q] = loc[q]
  BY <1>1, <1>2, <1>3, <1>12, LocGoto, Zenon
<1>14. Types'
  <2>1. cur' = cur /\ at' \in [CPUs -> Locs] /\ ctx' = ctx
    BY <1>2, <1>3, GotoTypes, LocType, ZenonT(30)
  <2>2. kpages' \in Int
    BY <1>2, <1>3 DEF Types
  <2>3. /\ chan' = chan /\ main_thread' = main_thread /\ ptid' = ptid /\ nextpid' = nextpid
        /\ nexttid' = nexttid
    BY <1>3, ZenonT(30)
  <2> QED
    BY <1>2, <1>7, <1>8, <1>9, <1>10, <1>11, <2>1, <2>2, <2>3, NextTypes, ZenonT(30)
<1>15. SInv'
  <2>1. UNCHANGED <<chan, main_thread, calls>>
    BY <1>3, Zenon
  <2>2. loc[p].op \in {"user", "join"} /\ kpages' = kpages - 1
    BY <1>1, <1>2, <1>3, Zenon
  <2>3. \A q \in Slots : q # p => loc'[q] = loc[q] /\ owned'[q] = owned[q]
    BY <1>11, <1>13, Zenon
  <2>4. \A q \in Slots : q # k =>
           /\ state'[q] = state[q] /\ parent'[q] = parent[q] /\ killed'[q] = killed[q]
           /\ kstack'[q] = kstack[q] /\ t_flag'[q] = t_flag[q] /\ tid'[q] = tid[q]
    BY <1>7, <1>8, <1>9, <1>10, Zenon
  <2>5. state'[k] = "UNUSED" /\ parent'[k] = 0 /\ ~killed'[k] /\ ~kstack'[k] /\ ~t_flag'[k]
    BY <1>7, <1>9, <1>10, Zenon
  <2> HIDE DEF p
  <2> QED
    BY <1>2, <1>5, <1>6, <1>11, <1>13, <2>1, <2>2, <2>3, <2>4, <2>5, JoinReapStep, SMTT(60)
<1>16. Spared
  BY <1>5, <1>7 DEF Spared, Alive
<1> QED
  BY <1>13, <1>14, <1>15, <1>16, Zenon DEF PInv

\* Every step of the process table.
LEMMA NextPInv == SlotSets /\ PInv /\ [Next]_vars => PInv' /\ (Spared \/ UNCHANGED vars)
<1>1. SUFFICES ASSUME SlotSets, PInv, [Next]_vars PROVE PInv' /\ (Spared \/ UNCHANGED vars)
  OBVIOUS
<1>2. CASE UNCHANGED vars
  <2>1. /\ state' = state /\ pid' = pid /\ parent' = parent /\ killed' = killed /\ chan' = chan
        /\ kstack' = kstack /\ t_flag' = t_flag /\ main_thread' = main_thread /\ ptid' = ptid
        /\ tid' = tid /\ nextpid' = nextpid /\ nexttid' = nexttid /\ kpages' = kpages /\ calls' = calls
        /\ cur' = cur /\ at' = at /\ ctx' = ctx /\ owned' = owned
    BY <1>2, ZenonT(30) DEF vars, slotVars, threadVars, cpuVars
  <2>2. loc' = loc
    BY <2>1 DEF loc
  <2>3. Types' /\ OnCpu'
    BY <1>1, <2>1, Zenon DEF PInv, Types, OnCpu
  <2>4. SInv
    BY <1>1, Zenon DEF PInv
  <2>5. Apart(calls)'
    <3>1. Apart(calls)
      BY <2>4, Zenon DEF SInv
    <3> QED
      BY <2>1, <2>2, <3>1, Zenon DEF Apart
  <2>6. Embryos'
    <3>1. Embryos
      BY <2>4, Zenon DEF SInv
    <3> QED
      BY <2>1, <2>2, <3>1, Zenon DEF Embryos, Embryo, Makes, New, Alive
  <2>7. InitLives'
    <3>1. InitLives
      BY <2>4, Zenon DEF SInv
    <3> QED
      BY <2>1, <2>2, <3>1, Zenon DEF InitLives, Makes, Alive
  <2>8. Sleepers'
    <3>1. Sleepers
      BY <2>4, Zenon DEF SInv
    <3> QED
      BY <2>1, <2>2, <3>1, Zenon DEF Sleepers
  <2>9. Parents'
    <3>1. Parents
      BY <2>4, Zenon DEF SInv
    <3> QED
      BY <2>1, <2>2, <3>1, Zenon DEF Parents, Parented
  <2>10. NoLwps'
    <3>1. NoLwps
      BY <2>4, ZenonT(30) DEF SInv
    <3> QED
      BY <2>1, <2>2, <3>1, Zenon DEF NoLwps, PidsKnown, Plain
  <2>11. OnlyLwps'
    <3>1. OnlyLwps
      BY <2>4, Zenon DEF SInv
    <3> QED
      BY <2>1, <2>2, <3>1, SMTT(60) DEF OnlyLwps, Lwp, OwnedReal, JoinReal, Backed, Created, Makes, New, Alive
  <2>12. NoOrphans'
    <3>1. NoOrphans
      BY <2>4, Zenon DEF SInv
    <3> QED
      BY <2>1, <2>2, <3>1, ZenonT(30) DEF NoOrphans, Alive
  <2>13. Waiters'
    <3>1. Waiters
      BY <2>4, Zenon DEF SInv
    <3> QED
      BY <2>1, <2>2, <3>1, Zenon DEF Waiters, WaitOk, JoinOk, Kids, Lwps, Zombies
  <2>14. StackCount'
    <3>1. StackCount
      BY <2>4, Zenon DEF SInv
    <3> QED
      BY <2>1, <2>2, <3>1, Zenon DEF StackCount, Alive
  <2>15. SInv'
    BY <2>5, <2>6, <2>7, <2>8, <2>9, <2>10, <2>11, <2>12, <2>13, <2>14, ZenonT(30) DEF SInv
  <2> QED
    BY <1>2, <2>3, <2>15, Zenon DEF PInv
<1>3. CASE Next
  <2>1. PICK c \in CPUs :
          \/ \E p \in Slots : Dispatch(c, p)
          \/ Preempt(c) \/ SysYield(c)
          \/ Fork(c) \/ ThreadCreate(c) \/ AllocStack(c)
          \/ ForkCopy(c) \/ ForkCopyFails(c) \/ ThreadSetup(c) \/ ThreadSetupFails(c)
          \/ MakeRunnable(c)
          \/ CallExit(c) \/ Exit(c) \/ CallThreadExit(c) \/ ThreadExit(c) \/ Kill(c)
          \/ WaitReaps(c) \/ WaitFails(c) \/ WaitSleeps(c)
          \/ \E t \in 0 .. MaxPid : JoinReaps(c, t) \/ JoinFails(c, t) \/ JoinSleeps(c, t)
    BY <1>3, Zenon DEF Next
  <2>2. CASE (\E p \in Slots : Dispatch(c, p)) \/ Preempt(c) \/ SysYield(c)
    BY <1>1, <2>2, DispatchAct, YieldActs, Zenon
  <2>3. CASE Fork(c) \/ ThreadCreate(c) \/ AllocStack(c)
    BY <1>1, <2>3, AllocActs, AllocStackAct, ZenonT(30)
  <2>4. CASE ForkCopy(c) \/ ForkCopyFails(c) \/ ThreadSetup(c) \/ MakeRunnable(c)
    BY <1>1, <2>4, ForkCopyAct, ForkCopyFailsAct, ThreadSetupAct, MakeRunnableAct, ZenonT(30)
  <2>5. CASE ThreadSetupFails(c) \/ WaitFails(c) \/ \E t \in 0 .. MaxPid : JoinFails(c, t)
    BY <1>1, <2>5, FailActs, Zenon
  <2>6. CASE CallExit(c) \/ Exit(c) \/ CallThreadExit(c) \/ ThreadExit(c) \/ Kill(c)
    BY <1>1, <2>6, CallExitAct, ExitAct, CallThreadExitAct, ThreadExitAct, KillAct, ZenonT(30)
  <2>7. CASE WaitReaps(c) \/ WaitSleeps(c)
    BY <1>1, <2>7, WaitReapsAct, WaitSleepsAct, Zenon
  <2>8. CASE \E t \in 0 .. MaxPid : JoinReaps(c, t) \/ JoinSleeps(c, t)
    BY <1>1, <2>8, JoinReapsAct, JoinSleepsAct, Zenon
  <2> QED
    BY <2>1, <2>2, <2>3, <2>4, <2>5, <2>6, <2>7, <2>8, ZenonT(30)
<1> QED
  BY <1>1, <1>2, <1>3, Zenon

\* userinit: only initproc is there, RUNNABLE.
LEMMA InitPInv == SlotSets /\ Separate /\ Init => PInv
<1>1. SUFFICES ASSUME SlotSets, Separate, Init PROVE PInv
  OBVIOUS
<1>2. initproc \in Slots /\ initproc # 0 /\ \A p \in Slots : p # 0 /\ p \in Nat
  BY ProcAssumption DEF initproc, Slots
<1>3. /\ state = [p \in Slots |-> IF p = initproc THEN "RUNNABLE" ELSE "UNUSED"]
      /\ pid = [p \in Slots |-> IF p = initproc THEN 1 ELSE 0]
      /\ ptid = [p \in Slots |-> IF p = initproc THEN 1 ELSE 0]
      /\ parent = [p \in Slots |-> 0] /\ killed = [p \in Slots |-> FALSE]
      /\ chan = [p \in Slots |-> 0] /\ kstack = [p \in Slots |-> p = initproc]
      /\ t_flag = [p \in Slots |-> FALSE] /\ main_thread = [p \in Slots |-> 0]
      /\ tid = [p \in Slots |-> 0] /\ nextpid = 2 /\ nexttid = 0 /\ kpages = 1
      /\ cur = [c \in CPUs |-> 0] /\ at = [c \in CPUs |-> None]
      /\ ctx = [p \in Slots |-> IF p = initproc THEN User ELSE None]
      /\ owned = [p \in Slots |-> {}] /\ calls \in Workloads
  BY <1>1, Zenon DEF Init
<1>4. Types
  <2>1. "RUNNABLE" \in States /\ "UNUSED" \in States /\ 0 \in Nat /\ 1 \in Nat /\ 2 \in Nat /\ 1 \in Int
    BY DEF States
  <2>2. state \in [Slots -> States] /\ pid \in [Slots -> Nat] /\ ptid \in [Slots -> Nat] /\ tid \in [Slots -> Nat]
    BY <1>3, <2>1, Zenon
  <2>3. /\ parent \in [Slots -> Slots \cup {0}] /\ main_thread \in [Slots -> Slots \cup {0}]
        /\ chan \in [Slots -> Slots \cup {0}] /\ cur \in [CPUs -> Slots \cup {0}]
    BY <1>3, Zenon
  <2>4. at \in [CPUs -> Locs] /\ ctx \in [Slots -> Locs] /\ owned \in [Slots -> SUBSET Nat]
    BY <1>3, LocType, Zenon
  <2>5. DOMAIN killed = Slots /\ DOMAIN kstack = Slots /\ DOMAIN t_flag = Slots
    BY <1>3, Zenon
  <2>6. nextpid \in Nat /\ nexttid \in Nat /\ kpages \in Int
    BY <1>3, <2>1, Zenon
  <2> QED
    BY <2>2, <2>3, <2>4, <2>5, <2>6, ZenonT(30) DEF Types
<1>5. OnCpu
  BY <1>3 DEF OnCpu
<1>6. \A p \in Slots : state[p] = IF p = initproc THEN "RUNNABLE" ELSE "UNUSED"
  BY <1>3, Zenon
<1>7. /\ \A p \in Slots : loc[p] = IF p = initproc THEN User ELSE None
      /\ \A p \in Slots : loc[p].op \in {"user", "none"} /\ loc[p].thread = FALSE
  <2>1. \A p \in Slots : loc[p] = ctx[p]
    BY <1>6, LocIdle
  <2>2. \A p \in Slots : loc[p] = IF p = initproc THEN User ELSE None
    BY <1>3, <2>1, Zenon
  <2>3. User.op = "user" /\ User.thread = FALSE /\ None.op = "none" /\ None.thread = FALSE
    BY DEF User, None, Loc
  <2> QED
    BY <2>2, <2>3, Zenon
<1>8. /\ \A p \in Slots : Alive(p) <=> p = initproc
      /\ \A p \in Slots : ~Makes(p)
  <2>1. \A p \in Slots : Alive(p) <=> p = initproc
    BY <1>6, Zenon DEF Alive
  <2>2. \A p \in Slots : loc[p].op \notin Making
    BY <1>7 DEF Making
  <2> QED
    BY <2>1, <2>2, Zenon DEF Makes
<1>9. Apart(calls) /\ Embryos
  BY <1>1, <1>3, <1>8, Zenon DEF Separate, Embryos
<1>10. InitLives
  <2>1. loc[initproc].op \notin {"exit", "thread_exit", "allocuvm", "join"}
    BY <1>2, <1>7, Zenon
  <2> QED
    BY <1>2, <1>3, <1>8, <2>1, Zenon DEF InitLives
<1>11. Sleepers /\ Waiters
  BY <1>6 DEF Sleepers, Waiters
<1>12. Parents
  <2>1. ASSUME NEW p \in Slots PROVE Parented(p)
    BY <1>2, <1>3, Zenon DEF Parented
  <2> QED
    BY <2>1, Zenon DEF Parents
<1>13. NoLwps
  <2>1. ASSUME NEW p \in Slots PROVE Plain(p)
    <3>1. loc[p].op \notin {"join", "thread_exit", "allocuvm"} /\ ~loc[p].thread
      BY <1>7, Zenon
    <3> QED
      BY <1>3, <3>1, Zenon DEF Plain
  <2>2. PidsKnown
    BY <1>3, <1>6 DEF PidsKnown
  <2> QED
    BY <2>1, <2>2, Zenon DEF NoLwps
<1>14. OnlyLwps
  <2>1. ASSUME NEW p \in Slots PROVE Lwp(p) /\ OwnedReal(p) /\ JoinReal(p)
    <3>1. loc[p].op \notin {"exit", "thread_exit", "join"} /\ state[p] \notin {"ZOMBIE", "SLEEPING"}
      BY <1>6, <1>7
    <3>2. Lwp(p)
      BY <1>3, <1>8, <3>1, Zenon DEF Lwp
    <3>3. OwnedReal(p)
      BY <1>3, Zenon DEF OwnedReal
    <3>4. JoinReal(p)
      BY <3>1, Zenon DEF JoinReal
    <3> QED
      BY <3>2, <3>3, <3>4, ZenonT(30)
  <2> QED
    BY <2>1, Zenon DEF OnlyLwps
<1>15. NoOrphans
  BY <1>6, <1>8, Zenon DEF NoOrphans
<1>16. StackCount
  <2>1. {p \in Slots : kstack[p]} = {initproc}
    BY <1>2, <1>3, Zenon
  <2>2. Cardinality({initproc}) = 1
    BY <1>1, <1>2, Zenon DEF SlotSets
  <2>3. \A p \in Slots : (Alive(p) \/ state[p] = "ZOMBIE" => kstack[p]) /\ (state[p] = "UNUSED" => ~kstack[p])
    BY <1>3, <1>6, <1>8, Zenon
  <2> QED
    BY <1>3, <2>1, <2>2, <2>3, Zenon DEF StackCount
<1> QED
  BY <1>4, <1>5, <1>9, <1>10, <1>11, <1>12, <1>13, <1>14, <1>15, <1>16, ZenonT(30) DEF PInv, SInv
=============================================================================
