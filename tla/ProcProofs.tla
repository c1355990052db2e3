----------------------------- MODULE ProcProofs ------------------------------
(***************************************************************************)
(* The process table of proc.c: nobody is orphaned, no exit is missed by   *)
(* who waits for it, every kernel stack is accounted for, and a slot runs  *)
(* on one CPU and is left alone by the others while it does.               *)
(*                                                                         *)
(* The invariants hold together or not at all.  exit() wakes the parent,   *)
(* so that a sleeping wait() is noticed only if the parent is alive and    *)
(* asleep on its own slot; the parent is alive because exit() hands its    *)
(* children to init, which never exits; and wait() frees only what has a   *)
(* stack.  PInv adds what the code between two lock sections relies on:    *)
(* the EMBRYO that fork or thread_create has allocated is its own          *)
(* (Embryos), whoever sleeps does so on its own slot (Sleepers), and which *)
(* slots are LWPs, of whom (NoLwps, OnlyLwps).  Held, on top of it, says   *)
(* that no slot stays EMBRYO once nobody fills it.                         *)
(*                                                                         *)
(* Separate is the assumption of every theorem: a workload either has no   *)
(* LWPs, or consists of LWPs and neither forks, exits nor kills, and       *)
(* nobody kills a pid made up.  Without it the invariants fail (README).   *)
(***************************************************************************)
EXTENDS ProcSteps, FiniteSetTheorems

\* Subsets of the table are finite; a set with one slot more or less has one
\* element more or less; and a scan of the table finds the first slot.
LEMMA SetsOfSlots == SlotSets
<1>1. ASSUME NEW S \in SUBSET Slots PROVE IsFiniteSet(S) /\ Cardinality(S) \in Nat
  <2>1. IsFiniteSet(Slots)
    BY FS_Interval, ProcAssumption DEF Slots
  <2>2. IsFiniteSet(S)
    BY <2>1, FS_Subset
  <2> QED
    BY <2>2, FS_CardinalityType, Zenon
<1>2. ASSUME NEW S \in SUBSET Slots, NEW n \in Slots \ S PROVE Cardinality(S \cup {n}) = Cardinality(S) + 1
  <2>1. Cardinality(S \cup {n}) = IF n \in S THEN Cardinality(S) ELSE Cardinality(S) + 1
    BY <1>1, FS_AddElement, Zenon
  <2> QED
    BY <2>1, Zenon
<1>3. ASSUME NEW S \in SUBSET Slots, NEW n \in S PROVE Cardinality(S \ {n}) = Cardinality(S) - 1
  <2>1. Cardinality(S \ {n}) = IF n \in S THEN Cardinality(S) - 1 ELSE Cardinality(S)
    BY <1>1, FS_RemoveElement, Zenon
  <2> QED
    BY <2>1, Zenon
<1>4. \A n \in Slots : Cardinality({n}) = 1
  BY FS_Singleton, Zenon
<1>5. ASSUME NEW S \in SUBSET Slots, S # {} PROVE Least(S) \in S
  <2>1. S \subseteq Nat
    BY <1>5, ProcAssumption DEF Slots
  <2>2. PICK x \in S : \A y \in S : ~(<<y, x>> \in OpToRel(<, Nat))
    BY <1>5, <2>1, NatLessThanWellFounded, WFMin, Zenon
  <2>3. \A y \in S : x <= y
    <3>1. SUFFICES ASSUME NEW y \in S, ~(x <= y) PROVE FALSE
      OBVIOUS
    <3>2. x \in Nat /\ y \in Nat /\ y < x
      BY <2>1, <3>1
    <3>3. <<y, x>> \in OpToRel(<, Nat)
      BY <3>2 DEF OpToRel
    <3> QED
      BY <2>2, <3>3, Zenon
  <2> QED
    BY <2>3, Zenon DEF Least
<1> QED
  BY <1>1, <1>2, <1>3, <1>4, <1>5, Zenon DEF SlotSets

-----------------------------------------------------------------------------
\* An EMBRYO slot is being filled, or was stranded with its stack.
Held(p) == state[p] = "EMBRYO" => Filled(p) \/ (Strands /\ kstack[p])

\* A step of CPU c keeps this when those that are filling a slot on another
\* CPU or preempted go on doing so, the new EMBRYO slots are being filled, and
\* the slot that c was filling is filled on, freed or stranded.
LEMMA KeepHeld ==
  ASSUME \A p \in Slots : Held(p), NEW c \in CPUs, calls' = calls,
         \A d \in CPUs : d # c => at'[d] = at[d] /\ cur'[d] = cur[d],
         \A p, q \in Slots : state[q] = "RUNNABLE" /\ ctx[q].op \in Making /\ ctx[q].arg = p =>
           (state'[q] = "RUNNABLE" /\ ctx'[q] = ctx[q]) \/ Filled(p)',
         \A p \in Slots : state'[p] = "EMBRYO" =>
           (state[p] = "EMBRYO" /\ (kstack[p] => kstack'[p])) \/ Filled(p)',
         \A p \in Slots : cur[c] # 0 /\ at[c].op \in Making /\ at[c].arg = p /\ state'[p] = "EMBRYO" =>
           Filled(p)' \/ (Strands /\ kstack'[p])
  PROVE  \A p \in Slots : Held(p)'
<1>1. Strands' <=> Strands
  BY Zenon DEF Strands
<1>2. SUFFICES ASSUME NEW p \in Slots, state'[p] = "EMBRYO", ~Filled(p)'
               PROVE  Strands /\ kstack'[p]
  BY <1>1, Zenon DEF Held
<1>3. state[p] = "EMBRYO" /\ (kstack[p] => kstack'[p])
  BY <1>2, Zenon
<1>4. CASE Strands /\ kstack[p]
  BY <1>3, <1>4, Zenon
<1>5. CASE \E d \in CPUs : cur[d] # 0 /\ at[d].op \in Making /\ at[d].arg = p
  <2>1. PICK d \in CPUs : cur[d] # 0 /\ at[d].op \in Making /\ at[d].arg = p
    BY <1>5, Zenon
  <2>2. CASE d = c
    BY <1>2, <2>1, <2>2, Zenon
  <2>3. CASE d # c
    <3>1. cur'[d] # 0 /\ at'[d].op \in Making /\ at'[d].arg = p
      BY <2>1, <2>3, Zenon
    <3> QED
      BY <1>2, <3>1, Zenon DEF Filled, Making
  <2> QED
    BY <2>2, <2>3, Zenon
<1>6. CASE \E q \in Slots : state[q] = "RUNNABLE" /\ ctx[q].op \in Making /\ ctx[q].arg = p
  <2>1. PICK q \in Slots : state[q] = "RUNNABLE" /\ ctx[q].op \in Making /\ ctx[q].arg = p
    BY <1>6, Zenon
  <2>2. state'[q] = "RUNNABLE" /\ ctx'[q].op \in Making /\ ctx'[q].arg = p
    BY <1>2, <2>1, Zenon
  <2> QED
    BY <1>2, <2>2, Zenon DEF Filled, Making
<1> QED
  BY <1>3, <1>4, <1>5, <1>6, Zenon DEF Held, Filled

\* Dispatch: the CPU takes over what the slot was filling.
LEMMA DispatchHeld ==
  ASSUME PInv, \A p \in Slots : Held(p), NEW c \in CPUs, NEW n \in Slots, Dispatch(c, n)
  PROVE  \A p \in Slots : Held(p)'
<1>1. Types /\ n # 0
  BY ProcAssumption DEF PInv, Slots
<1>2. /\ cur[c] = 0 /\ state[n] = "RUNNABLE" /\ calls' = calls /\ ctx' = ctx /\ kstack' = kstack
      /\ state'[n] = "RUNNING" /\ \A q \in Slots : q # n => state'[q] = state[q]
      /\ cur'[c] = n /\ at'[c] = ctx[n]
      /\ \A d \in CPUs : d # c => at'[d] = at[d] /\ cur'[d] = cur[d]
  BY <1>1, Zenon DEF Types, Dispatch
<1>3. \A p \in Slots : ctx[n].op \in Making /\ ctx[n].arg = p => Filled(p)'
  BY <1>1, <1>2, Zenon DEF Filled, Making
<1>4. \A p \in Slots : state'[p] = "EMBRYO" => state[p] = "EMBRYO"
  BY <1>2
<1> QED
  BY <1>2, <1>3, <1>4, KeepHeld, Zenon

\* sched() from a place l that is filling nothing, or is where the timer
\* interrupted the code: preempted code goes on filling.
LEMMA SchedHeld ==
  ASSUME PInv, \A p \in Slots : Held(p), NEW c \in CPUs, cur[c] # 0, NEW l, Sched(c, l),
         calls' = calls, kstack' = kstack,
         at[c].op \in Making => l = at[c] /\ state'[cur[c]] = "RUNNABLE",
         \A q \in Slots : q # cur[c] /\ state[q] = "RUNNABLE" => state'[q] = "RUNNABLE",
         \A p \in Slots : state'[p] = "EMBRYO" => state[p] = "EMBRYO"
  PROVE  \A p \in Slots : Held(p)'
<1>1. Types /\ cur[c] \in Slots /\ state[cur[c]] = "RUNNING"
  BY OnCode, Zenon
<1>2. /\ ctx'[cur[c]] = l /\ \A q \in Slots : q # cur[c] => ctx'[q] = ctx[q]
      /\ \A d \in CPUs : d # c => at'[d] = at[d] /\ cur'[d] = cur[d]
  BY <1>1, Zenon DEF Types, Sched
<1>3. \A q \in Slots : state[q] = "RUNNABLE" => q # cur[c]
  BY <1>1
<1>4. ASSUME NEW p \in Slots, at[c].op \in Making, at[c].arg = p PROVE Filled(p)'
  <2>1. state'[cur[c]] = "RUNNABLE" /\ ctx'[cur[c]] = at[c]
    BY <1>2, <1>4, Zenon
  <2>2. ctx'[cur[c]].op \in Making /\ ctx'[cur[c]].arg = p
    BY <1>4, <2>1, Zenon
  <2> QED
    BY <1>1, <2>1, <2>2, Zenon DEF Filled, Making
<1> QED
  BY <1>2, <1>3, <1>4, KeepHeld, Zenon

\* A step of the code on c that stays on c.
LEMMA GotoHeld ==
  ASSUME PInv, \A p \in Slots : Held(p), NEW c \in CPUs, cur[c] # 0, NEW l, Goto(c, l),
         calls' = calls,
         \A q \in Slots : state[q] = "RUNNABLE" => state'[q] = "RUNNABLE",
         \A p \in Slots : state'[p] = "EMBRYO" =>
           (state[p] = "EMBRYO" /\ (kstack[p] => kstack'[p])) \/ (l.op \in Making /\ l.arg = p),
         \A p \in Slots : at[c].op \in Making /\ at[c].arg = p /\ state'[p] = "EMBRYO" =>
           (l.op \in Making /\ l.arg = p) \/ (Strands /\ kstack'[p])
  PROVE  \A p \in Slots : Held(p)'
<1>1. /\ cur' = cur /\ ctx' = ctx /\ at'[c] = l /\ \A d \in CPUs : d # c => at'[d] = at[d]
  BY Zenon DEF PInv, Types, Goto
<1>2. \A p \in Slots : l.op \in Making /\ l.arg = p => Filled(p)'
  BY <1>1, Zenon DEF Filled, Making
<1> QED
  BY <1>1, <1>2, KeepHeld, Zenon

\* Where the code stands in a step that stays on its CPU.
LEMMA Places ==
  /\ User.op \notin Making
  /\ \A o, a, th : Loc(o, a, th).op = o /\ Loc(o, a, th).arg = a
  /\ "alloc" \in Making /\ "copyuvm" \in Making /\ "allocuvm" \in Making /\ "go" \in Making
  /\ "user" \notin Making /\ "exit" \notin Making /\ "thread_exit" \notin Making
  /\ "wait" \notin Making /\ "join" \notin Making
BY DEF User, Loc, Making

\* The steps of code that is filling nothing and leaves the table alone.
LEMMA CallHeld ==
  ASSUME PInv, \A p \in Slots : Held(p), NEW c \in CPUs,
         CallExit(c) \/ CallThreadExit(c) \/ WaitFails(c) \/ \E t \in 0 .. MaxPid : JoinFails(c, t)
  PROVE  \A p \in Slots : Held(p)'
<1>1. /\ cur[c] # 0 /\ at[c].op \in {"user", "wait", "join"}
      /\ state' = state /\ kstack' = kstack /\ calls' = calls
      /\ \E l : Goto(c, l)
  BY ZenonT(30) DEF CallExit, CallThreadExit, WaitFails, JoinFails, InWait, InJoin, Running, slotVars
<1>2. PICK l : Goto(c, l)
  BY <1>1, Zenon
<1>3. at[c].op \notin Making
  BY <1>1 DEF Making
<1> QED
  BY <1>1, <1>2, <1>3, GotoHeld, Zenon

\* allocproc: the new EMBRYO is being filled by the caller.
LEMMA AllocprocHeld ==
  ASSUME SlotSets, PInv, \A p \in Slots : Held(p), NEW c \in CPUs, Fork(c) \/ ThreadCreate(c)
  PROVE  \A p \in Slots : Held(p)'
<1>1. PICK th \in BOOLEAN : cur[c] # 0 /\ at[c].op = "user" /\ allocproc(c, th)
  BY Zenon DEF Fork, ThreadCreate, Running
<1> DEFINE np == Least({p \in Slots : state[p] = "UNUSED"})
<1>2. np \in Slots /\ state[np] = "UNUSED"
  BY <1>1, LeastIn, Zenon DEF allocproc
<1>3. /\ Goto(c, Loc("alloc", np, th)) /\ kstack' = kstack /\ calls' = calls
      /\ state' = [state EXCEPT ![np] = "EMBRYO"]
  BY <1>1, Zenon DEF allocproc
<1> HIDE DEF np
<1>4. \A q \in Slots : q # np => state'[q] = state[q]
  BY <1>2, <1>3, Zenon DEF PInv, Types
<1>5. \A q \in Slots : state[q] = "RUNNABLE" => q # np
  BY <1>2
<1> QED
  <2> DEFINE l == Loc("alloc", np, th)
  <2>1. l.op \in Making /\ l.arg = np /\ at[c].op \notin Making
    BY <1>1 DEF Loc, Making
  <2>2. Goto(c, l)
    BY <1>3, Zenon
  <2> HIDE DEF l
  <2>3. \A q \in Slots : state'[q] = "EMBRYO" =>
          (state[q] = "EMBRYO" /\ (kstack[q] => kstack'[q])) \/ (l.op \in Making /\ l.arg = q)
    BY <1>3, <1>4, <2>1, Zenon
  <2>4. \A q \in Slots : state[q] = "RUNNABLE" => state'[q] = "RUNNABLE"
    BY <1>4, <1>5, Zenon
  <2> QED
    BY <1>1, <1>3, <2>1, <2>2, <2>3, <2>4, GotoHeld, ZenonT(30)

\* The steps of fork and thread_create up to the last critical section: they
\* go on with the slot, free it, or strand it with its stack.
LEMMA FillHeld ==
  ASSUME PInv, \A p \in Slots : Held(p), NEW c \in CPUs,
         AllocStack(c) \/ ForkCopy(c) \/ ForkCopyFails(c) \/ ThreadSetup(c) \/ ThreadSetupFails(c)
  PROVE  \A p \in Slots : Held(p)'
<1> DEFINE p == cur[c]
           n == at[c].arg
<1>1. p # 0 /\ at[c].op \in Making /\ at[c] \in Locs /\ Types /\ calls' = calls
  <2>1. p # 0 /\ calls' = calls
    BY Zenon DEF AllocStack, ForkCopy, ForkCopyFails, ThreadSetup, ThreadSetupFails, Running
  <2>2. at[c].op \in Making
    BY Places, Zenon DEF AllocStack, ForkCopy, ForkCopyFails, ThreadSetup, ThreadSetupFails, Running
  <2> QED
    BY <2>1, <2>2, OnCode, Zenon
<1>2. /\ p \in Slots /\ state[p] = "RUNNING" /\ loc[p] = at[c] /\ SInv
  BY <1>1, OnCode, Zenon
<1>3. n \in Slots /\ state[n] = "EMBRYO" /\ (kstack[n] <=> at[c].op # "alloc") /\ (at[c].op = "allocuvm" => at[c].thread)
  <2>1. Makes(p)
    BY <1>1, <1>2 DEF Makes, Alive
  <2>2. Embryo(p)
    BY <1>2, <2>1, Zenon DEF SInv, Embryos
  <2> QED
    BY <1>2, <2>2, Zenon DEF Embryo, New
<1> HIDE DEF n, p
<1>4. CASE AllocStack(c) /\ state' # state
  <2>1. state' = [state EXCEPT ![n] = "UNUSED"] /\ Goto(c, User) /\ kstack' = kstack
    BY <1>4, Zenon DEF AllocStack, n
  <2>2. state'[n] = "UNUSED" /\ \A q \in Slots : q # n => state'[q] = state[q]
    BY <1>1, <1>3, <2>1, Zenon DEF Types
  <2>3. \A q \in Slots : state[q] = "RUNNABLE" => q # n
    BY <1>3
  <2>4. state'[n] # "EMBRYO"
    BY <2>2
  <2> QED
    BY <1>1, <2>1, <2>2, <2>3, <2>4, GotoHeld, Zenon DEF n, p
<1>5. CASE AllocStack(c) /\ state' = state
  <2>1. PICK o \in Making : kstack' = [kstack EXCEPT ![n] = TRUE] /\ Goto(c, [at[c] EXCEPT !.op = o])
    <3>1. \/ /\ kstack' = [kstack EXCEPT ![n] = TRUE]
             /\ Goto(c, [at[c] EXCEPT !.op = IF at[c].thread THEN "allocuvm" ELSE "copyuvm"])
          \/ state' = [state EXCEPT ![n] = "UNUSED"]
      BY <1>5, Zenon DEF AllocStack, n
    <3>2. state' # [state EXCEPT ![n] = "UNUSED"]
      BY <1>1, <1>3, <1>5 DEF Types
    <3> QED
      BY <3>1, <3>2, Places, Zenon
  <2>2. \A q \in Slots : kstack[q] => kstack'[q]
    BY <1>1, <1>3, <2>1, Zenon DEF Types
  <2>3. [at[c] EXCEPT !.op = o].op \in Making /\ [at[c] EXCEPT !.op = o].arg = n
    BY <1>1, <2>1 DEF n, Locs
  <2> QED
    BY <1>1, <1>5, <2>1, <2>2, <2>3, GotoHeld, Zenon DEF n, p
<1>6. CASE ForkCopy(c) \/ ThreadSetup(c)
  <2>1. state' = state /\ kstack' = kstack /\ Goto(c, [at[c] EXCEPT !.op = "go"])
    BY <1>6, Zenon DEF ForkCopy, ThreadSetup
  <2>2. [at[c] EXCEPT !.op = "go"].op \in Making /\ [at[c] EXCEPT !.op = "go"].arg = n
    BY <1>1, Places DEF n, Locs
  <2> QED
    BY <1>1, <2>1, <2>2, GotoHeld, Zenon DEF n, p
<1>7. CASE ForkCopyFails(c)
  <2>1. state' = [state EXCEPT ![n] = "UNUSED"] /\ Goto(c, User) /\ kstack' = [kstack EXCEPT ![n] = FALSE]
    BY <1>7, Zenon DEF ForkCopyFails, n
  <2>2. /\ state'[n] = "UNUSED"
        /\ \A q \in Slots : q # n => state'[q] = state[q] /\ kstack'[q] = kstack[q]
    BY <1>1, <1>3, <2>1, Zenon DEF Types
  <2>3. \A q \in Slots : state[q] = "RUNNABLE" => q # n
    BY <1>3
  <2>4. state'[n] # "EMBRYO"
    BY <2>2
  <2>5. \A q \in Slots : state'[q] = "EMBRYO" => q # n /\ state[q] = "EMBRYO" /\ (kstack[q] => kstack'[q])
    BY <2>2, <2>4, Zenon
  <2>6. \A q \in Slots : state[q] = "RUNNABLE" => state'[q] = "RUNNABLE"
    BY <2>2, <2>3, Zenon
  <2> QED
    BY <1>1, <2>1, <2>5, <2>6, GotoHeld, Zenon DEF n, p
<1>8. CASE ThreadSetupFails(c)
  <2>1. /\ at[c].op = "allocuvm" /\ "nomem" \in calls /\ state' = state /\ kstack' = kstack /\ Goto(c, User)
    BY <1>8, Zenon DEF ThreadSetupFails, Running, slotVars
  <2>2. "thread_create" \in calls
    <3>1. SUFFICES ASSUME "thread_create" \notin calls PROVE FALSE
      OBVIOUS
    <3>2. Plain(p)
      BY <1>2, <3>1, Zenon DEF SInv, NoLwps
    <3> QED
      BY <1>2, <2>1, <3>2, Zenon DEF Plain
  <2>3. Strands
    BY <2>1, <2>2, Zenon DEF Strands
  <2>4. kstack'[n]
    BY <1>3, <2>1
  <2> QED
    BY <1>1, <2>1, <2>3, <2>4, GotoHeld, Zenon DEF n, p
<1> QED
  BY <1>4, <1>5, <1>6, <1>7, <1>8, Zenon

\* The last critical section of fork and thread_create.
LEMMA MakeRunnableHeld ==
  ASSUME PInv, \A p \in Slots : Held(p), NEW c \in CPUs, MakeRunnable(c)
  PROVE  \A p \in Slots : Held(p)'
<1> DEFINE p == cur[c]
           n == at[c].arg
<1>1. /\ p # 0 /\ at[c].op = "go" /\ calls' = calls /\ kstack' = kstack /\ cur' = cur
      /\ state' = [state EXCEPT ![n] = "RUNNABLE"] /\ at' = [at EXCEPT ![c] = User]
      /\ ctx' = [ctx EXCEPT ![n] = User]
  BY Zenon DEF MakeRunnable, Running
<1>2. p \in Slots /\ state[p] = "RUNNING" /\ loc[p] = at[c] /\ Types /\ SInv
  BY <1>1, OnCode, Zenon
<1>3. n \in Slots /\ state[n] = "EMBRYO"
  <2>1. Makes(p)
    BY <1>1, <1>2 DEF Makes, Alive, Making
  <2>2. Embryo(p)
    BY <1>2, <2>1, Zenon DEF SInv, Embryos
  <2> QED
    BY <1>2, <2>2, Zenon DEF Embryo, New
<1> HIDE DEF n, p
<1>4. /\ state'[n] = "RUNNABLE" /\ \A q \in Slots : q # n => state'[q] = state[q] /\ ctx'[q] = ctx[q]
      /\ \A d \in CPUs : d # c => at'[d] = at[d]
  BY <1>1, <1>2, <1>3, Zenon DEF Types
<1>5. \A q \in Slots : state[q] = "RUNNABLE" => q # n
  BY <1>3
<1>6. state'[n] # "EMBRYO"
  BY <1>4
<1> QED
  BY <1>1, <1>4, <1>5, <1>6, KeepHeld, Zenon DEF n, p

\* The timer and yield.
LEMMA YieldHeld ==
  ASSUME PInv, \A p \in Slots : Held(p), NEW c \in CPUs, Preempt(c) \/ SysYield(c)
  PROVE  \A p \in Slots : Held(p)'
<1> DEFINE p == cur[c]
<1>1. /\ p # 0 /\ calls' = calls /\ kstack' = kstack /\ Sched(c, at[c])
      /\ state' = [state EXCEPT ![p] = "RUNNABLE"]
  BY Zenon DEF Preempt, SysYield, Running
<1>2. p \in Slots /\ Types
  BY <1>1, OnCode, Zenon
<1>3. state'[p] = "RUNNABLE" /\ \A q \in Slots : q # p => state'[q] = state[q]
  BY <1>1, <1>2, Zenon DEF Types
<1>4. state'[p] # "EMBRYO"
  BY <1>3
<1> QED
  BY <1>1, <1>3, <1>4, SchedHeld, Zenon

\* Falling asleep.
LEMMA SleepHeld ==
  ASSUME PInv, \A p \in Slots : Held(p), NEW c \in CPUs,
         WaitSleeps(c) \/ \E t \in 0 .. MaxPid : JoinSleeps(c, t)
  PROVE  \A p \in Slots : Held(p)'
<1> DEFINE p == cur[c]
<1>1. /\ p # 0 /\ calls' = calls /\ kstack' = kstack /\ at[c].op \in {"user", "wait", "join"}
      /\ state' = [state EXCEPT ![p] = "SLEEPING"] /\ \E l : Sched(c, l)
  BY Zenon DEF WaitSleeps, JoinSleeps, InWait, InJoin, Running
<1>2. PICK l : Sched(c, l)
  BY <1>1, Zenon
<1>3. p \in Slots /\ Types
  BY <1>1, OnCode, Zenon
<1>4. state'[p] = "SLEEPING" /\ \A q \in Slots : q # p => state'[q] = state[q]
  BY <1>1, <1>3, Zenon DEF Types
<1>5. state'[p] # "EMBRYO" /\ at[c].op \notin Making
  BY <1>1, <1>4 DEF Making
<1> QED
  BY <1>1, <1>2, <1>4, <1>5, SchedHeld, Zenon

\* kill wakes a sleeper and leaves every other state.
LEMMA KillHeld ==
  ASSUME SlotSets, PInv, \A p \in Slots : Held(p), NEW c \in CPUs, Kill(c)
  PROVE  \A p \in Slots : Held(p)'
<1>1. /\ cur[c] # 0 /\ at[c].op = "user" /\ calls' = calls /\ kstack' = kstack /\ Goto(c, User)
  BY Zenon DEF Kill, Running
<1>2. PICK k : state' = [state EXCEPT ![k] = IF @ = "SLEEPING" THEN "RUNNABLE" ELSE @]
  BY Zenon DEF Kill
<1>3. \A q \in Slots : /\ state[q] = "RUNNABLE" => state'[q] = "RUNNABLE"
                       /\ state'[q] = "EMBRYO" => state[q] = "EMBRYO"
  BY <1>2 DEF PInv, Types
<1>4. at[c].op \notin Making
  BY <1>1, Places, Zenon
<1> QED
  BY <1>1, <1>3, <1>4, GotoHeld, Zenon

\* exit and thread_exit wake sleepers and make a zombie of the caller; exit
\* of a process without LWPs makes one of nobody else.
LEMMA ExitHeld ==
  ASSUME PInv, \A p \in Slots : Held(p), NEW c \in CPUs, Exit(c) \/ ThreadExit(c)
  PROVE  \A p \in Slots : Held(p)'
<1> DEFINE p == cur[c]
<1>1. /\ p # 0 /\ calls' = calls /\ kstack' = kstack /\ at[c].op \in {"exit", "thread_exit"} /\ Sched(c, None)
  BY Zenon DEF Exit, ThreadExit, Running
<1>2. p \in Slots /\ loc[p] = at[c] /\ Types /\ SInv
  BY <1>1, OnCode, Zenon
<1>3. \A q \in Slots : \A Q : /\ state[q] = "RUNNABLE" => Woken(state, Q)[q] = "RUNNABLE"
                              /\ Woken(state, Q)[q] = "EMBRYO" => state[q] = "EMBRYO"
  BY DEF Woken
<1>4. \A q \in Slots : q # p => \E Q : state'[q] = Woken(state, Q)[q]
  <2>1. CASE Exit(c)
    <3>1. "thread_create" \notin calls
      BY <1>2, <2>1, Zenon DEF Exit, Running, SInv, OnlyLwps, Lwp
    <3>2. \A q \in Slots : q # p => ~(ptid[q] = pid[p] /\ state[q] # "UNUSED")
      <4>1. PidsKnown
        BY <1>2, <3>1, Zenon DEF SInv, NoLwps
      <4> QED
        BY <1>2, <4>1, Zenon DEF PidsKnown
    <3> QED
      BY <2>1, <3>2, Zenon DEF Exit
  <2>2. CASE ThreadExit(c)
    <3>1. PICK Q : state' = [Woken(state, Q) EXCEPT ![p] = "ZOMBIE"]
      BY <2>2, Zenon DEF ThreadExit
    <3>2. \A q \in Slots : q # p => state'[q] = Woken(state, Q)[q]
      BY <3>1, Zenon DEF Woken
    <3> QED
      BY <3>2, Zenon
  <2> QED
    BY <2>1, <2>2, Zenon
<1>5. state'[p] = "ZOMBIE"
  <2>1. CASE Exit(c)
    BY <1>2, <2>1, Zenon DEF Exit
  <2>2. CASE ThreadExit(c)
    <3>1. PICK Q : state' = [Woken(state, Q) EXCEPT ![p] = "ZOMBIE"]
      BY <2>2, Zenon DEF ThreadExit
    <3> QED
      BY <1>2, <3>1, Zenon DEF Woken
  <2> QED
    BY <2>1, <2>2, Zenon
<1>6. state'[p] # "EMBRYO" /\ at[c].op \notin Making
  BY <1>1, <1>5 DEF Making
<1> QED
  <2>1. \A q \in Slots : q # p /\ state[q] = "RUNNABLE" => state'[q] = "RUNNABLE"
    BY <1>3, <1>4, Zenon
  <2>2. \A q \in Slots : state'[q] = "EMBRYO" => state[q] = "EMBRYO"
    BY <1>3, <1>4, <1>6, Zenon
  <2> QED
    BY <1>1, <1>6, <2>1, <2>2, SchedHeld, Zenon

\* wait and thread_join free no slot that is alive.
LEMMA ReapHeld ==
  ASSUME SlotSets, PInv, \A p \in Slots : Held(p), NEW c \in CPUs, Spared,
         WaitReaps(c) \/ \E t \in 0 .. MaxPid : JoinReaps(c, t)
  PROVE  \A p \in Slots : Held(p)'
<1>1. /\ cur[c] # 0 /\ calls' = calls /\ at[c].op \in {"user", "wait", "join"} /\ Goto(c, User)
  BY Zenon DEF WaitReaps, JoinReaps, InWait, InJoin, Running
<1>2. \A q \in Slots : state'[q] = "UNUSED" \/ (state'[q] = state[q] /\ (kstack[q] => kstack'[q]))
  <2>1. CASE WaitReaps(c)
    <3>1. PICK G : /\ state' = [k \in Slots |-> IF k \in G THEN "UNUSED" ELSE state[k]]
                   /\ kstack' = [k \in Slots |-> k \notin G /\ kstack[k]]
      BY <2>1, Zenon DEF WaitReaps
    <3> QED
      BY <3>1, Zenon
  <2>2. CASE \E t \in 0 .. MaxPid : JoinReaps(c, t)
    <3>1. PICK k : state' = [state EXCEPT ![k] = "UNUSED"] /\ kstack' = [kstack EXCEPT ![k] = FALSE]
      BY <2>2, Zenon DEF JoinReaps
    <3> QED
      BY <3>1, Zenon DEF PInv, Types
  <2> QED
    BY <2>1, <2>2, Zenon
<1>3. \A q \in Slots : state[q] = "RUNNABLE" => state'[q] = "RUNNABLE"
  <2>1. \A q \in Slots : state[q] = "RUNNABLE" => state'[q] # "UNUSED"
    BY DEF Spared, Alive
  <2> QED
    BY <1>2, <2>1, Zenon
<1>4. \A q \in Slots : state'[q] = "EMBRYO" => state[q] = "EMBRYO" /\ (kstack[q] => kstack'[q])
  BY <1>2
<1>5. at[c].op \notin Making
  BY <1>1 DEF Making
<1> QED
  BY <1>1, <1>3, <1>4, <1>5, GotoHeld, Zenon

\* No slot is left EMBRYO but by a thread_create that runs out of memory.
LEMMA NextHeld ==
  ASSUME SlotSets, PInv, \A p \in Slots : Held(p), [Next]_vars
  PROVE  \A p \in Slots : Held(p)'
<1>1. CASE UNCHANGED vars
  BY <1>1, Zenon DEF vars, slotVars, threadVars, cpuVars, Held, Filled, Strands, Making
<1>2. CASE Next /\ Spared
  <2>1. PICK c \in CPUs :
          \/ \E p \in Slots : Dispatch(c, p)
          \/ Preempt(c) \/ SysYield(c)
          \/ Fork(c) \/ ThreadCreate(c) \/ AllocStack(c)
          \/ ForkCopy(c) \/ ForkCopyFails(c) \/ ThreadSetup(c) \/ ThreadSetupFails(c)
          \/ MakeRunnable(c)
          \/ CallExit(c) \/ Exit(c) \/ CallThreadExit(c) \/ ThreadExit(c) \/ Kill(c)
          \/ WaitReaps(c) \/ WaitFails(c) \/ WaitSleeps(c)
          \/ \E t \in 0 .. MaxPid : JoinReaps(c, t) \/ JoinFails(c, t) \/ JoinSleeps(c, t)
    BY <1>2, Zenon DEF Next
  <2>2. CASE \/ \E p \in Slots : Dispatch(c, p)
             \/ Preempt(c) \/ SysYield(c)
    BY <2>2, DispatchHeld, YieldHeld, Zenon
  <2>3. CASE Fork(c) \/ ThreadCreate(c) \/ MakeRunnable(c)
    BY <2>3, AllocprocHeld, MakeRunnableHeld, Zenon
  <2>4. CASE AllocStack(c) \/ ForkCopy(c) \/ ForkCopyFails(c) \/ ThreadSetup(c) \/ ThreadSetupFails(c)
    BY <2>4, FillHeld, Zenon
  <2>5. CASE Exit(c) \/ ThreadExit(c) \/ Kill(c)
    BY <2>5, ExitHeld, KillHeld, Zenon
  <2>6. CASE CallExit(c) \/ CallThreadExit(c) \/ WaitFails(c) \/ \E t \in 0 .. MaxPid : JoinFails(c, t)
    BY <2>6, CallHeld, Zenon
  <2>7. CASE WaitReaps(c) \/ \E t \in 0 .. MaxPid : JoinReaps(c, t)
    BY <1>2, <2>7, ReapHeld, Zenon
  <2>8. CASE WaitSleeps(c) \/ \E t \in 0 .. MaxPid : JoinSleeps(c, t)
    BY <2>8, SleepHeld, Zenon
  <2> QED
    BY <2>1, <2>2, <2>3, <2>4, <2>5, <2>6, <2>7, <2>8, ZenonT(30)
<1> QED
  BY <1>1, <1>2, NextPInv, Zenon

-----------------------------------------------------------------------------
\* The table of proc.c is always as PInv says.
LEMMA PInvHolds == ASSUME Separate PROVE Spec => []PInv
<1>1. Init => PInv
  BY InitPInv, SetsOfSlots, Zenon
<1>2. PInv /\ [Next]_vars => PInv'
  BY NextPInv, SetsOfSlots, Zenon
<1> QED
  BY <1>1, <1>2, PTL DEF Spec

\* A process other than init that has not been waited for has a parent, and
\* the parent is alive: fork sets it under the lock, and exit() hands the
\* children to init before it becomes a zombie.  In programs that keep LWPs
\* apart from fork, exit and kill.
THEOREM FamiliesKept == ASSUME Separate PROVE Spec => []NoOrphans
<1>1. PInv => NoOrphans
  BY Zenon DEF PInv, SInv
<1> QED
  BY <1>1, PInvHolds, PTL

\* In programs without LWPs, nobody sleeps in wait with a zombie child, with
\* no child or killed: the wakeups of exit and kill are not lost.  In programs
\* of LWPs that neither fork, exit nor kill, nobody sleeps in thread_join with
\* its LWP a zombie or gone: the wakeup of thread_exit is not lost.  (An LWP
\* that ends by exit() does not wake who joins it: such programs are not
\* Separate.)
THEOREM ExitIsNoticed == ASSUME Separate PROVE Spec => []NoLostExit
<1>1. PInv => NoLostExit
  <2>1. SUFFICES ASSUME PInv, NEW p \in Slots, state[p] = "SLEEPING"
                 PROVE  /\ ctx[p].op = "wait" => Kids(p) # {} /\ Zombies(Kids(p)) = {} /\ ~killed[p]
                        /\ ctx[p].op = "join" =>
                             Lwps(p, ctx[p].arg) # {} /\ Zombies(Lwps(p, ctx[p].arg)) = {}
    BY Zenon DEF NoLostExit
  <2>2. loc[p] = ctx[p]
    BY <2>1, LocIdle
  <2>3. WaitOk(p) /\ JoinOk(p)
    BY <2>1, Zenon DEF PInv, SInv, Waiters
  <2> QED
    BY <2>2, <2>3, Zenon DEF WaitOk, JoinOk
<1> QED
  BY <1>1, PInvHolds, PTL

\* In programs that keep LWPs apart from fork, exit and kill, the pages taken
\* from kalloc for kernel stacks are those of the slots that have one, which
\* every living and zombie slot does and no UNUSED one does, and an EMBRYO slot
\* is being filled or was stranded by a thread_create that ran out of memory.
\* (wait forgets the stacks of the LWPs that exit() of their process made
\* zombies of: such programs are not Separate.)
THEOREM StacksAccounted == ASSUME Separate PROVE Spec => []KstackAccounting
<1> DEFINE AllHeld == \A p \in Slots : Held(p)
<1>1. Init => AllHeld
  <2>1. SUFFICES ASSUME Init PROVE \A p \in Slots : state[p] # "EMBRYO"
    BY Zenon DEF Held
  <2> QED
    BY <2>1 DEF Init
<1>2. PInv /\ AllHeld /\ [Next]_vars => AllHeld'
  BY NextHeld, SetsOfSlots, Zenon
<1>3. PInv /\ AllHeld => KstackAccounting
  BY Zenon DEF PInv, SInv, Held, KstackAccounting
<1>4. Spec => []AllHeld
  <2> HIDE DEF AllHeld
  <2> QED
    BY <1>1, <1>2, PInvHolds, PTL DEF Spec
<1> QED
  BY <1>3, <1>4, PInvHolds, PTL

\* In programs that keep LWPs apart from fork, exit and kill, a CPU executes
\* only slots that are RUNNING, no slot is on two CPUs, and every RUNNING slot
\* is on one: no CPU's fork, exit, kill, wait or thread_join changes the state
\* of a slot that another one runs.
THEOREM SlotsRunOnce == ASSUME Separate PROVE Spec => []OnCpu
<1>1. PInv => OnCpu
  BY Zenon DEF PInv
<1> QED
  BY <1>1, PInvHolds, PTL
=============================================================================
