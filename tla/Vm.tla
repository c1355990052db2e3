--------------------------------- MODULE Vm ----------------------------------
(***************************************************************************)
(* Physical pages and address spaces: kalloc.c, vm.c, exec.c and what      *)
(* fork, sbrk, exit, wait and the calls for LWPs (proc.c) do to them.      *)
(*                                                                         *)
(* Addresses and sizes count pages.  A page directory has one table for    *)
(* the kernel and one for every NPTE user pages.  A system call is a step, *)
(* except thread_create, which maps the stack before it takes ptable.lock. *)
(* Calls of different address spaces share only the free list; among the   *)
(* LWPs of one, the steps of thread_create are where sz is out of date.    *)
(* An LWP that another CPU runs when exit() of its process makes it a      *)
(* zombie goes on.  Once somebody runs in a page directory that was freed, *)
(* anything may happen, and the model stops.                               *)
(***************************************************************************)
EXTENDS Integers, FiniteSets, SequencesExt

CONSTANTS
  KERNBASE, \* the end of user addresses, in pages
  NPTE,     \* entries of a page table
  Image,    \* the sizes of programs that exec loads
  Sbrk,     \* the arguments of sbrk
  NCPU,     \* the number of CPUs
  Workloads \* [calls, pages, NPROC]: the system calls, besides wait, that
            \* programs make, the number of physical pages, and of slots of
            \* ptable

initproc == 1
Vpns == 0 .. KERNBASE - 1
Tables == 0 .. (KERNBASE - 1) \div NPTE

ASSUME VmAssumption ==
  {KERNBASE, NPTE, NCPU} \subseteq Nat \ {0} /\ Image \subseteq Nat /\ Sbrk \subseteq Int

VARIABLES
  mem,      \* [free, dir, panic]: kmem, the page directories, and panic()
  proc,     \* ptable
  lost,     \* (history) kernel stacks that nobody will free
  torn,     \* (history) an exec or exit took the address space of LWPs that run
  work      \* the workload of this behaviour

vars == <<mem, proc, lost, torn, work>>

Slots == 1 .. work.NPROC
Pages == 1 .. work.pages

-----------------------------------------------------------------------------
\* kalloc.c

\* A page directory: its page tables, and the page and PTE_U of each entry.
Blank == [ktab |-> 0, tab |-> [t \in Tables |-> 0], pte |-> [v \in Vpns |-> 0], nouser |-> {}]

\* kinit1 and kinit2 put every page on the free list.
kinit(pages) == [free |-> pages, dir |-> [p \in pages |-> Blank], panic |-> FALSE]

kalloc(m) ==
  LET p == CHOOSE x \in m.free : \A y \in m.free : x <= y
  IN  IF m.free = {} THEN [m |-> m, pg |-> 0] ELSE [m |-> [m EXCEPT !.free = @ \ {p}], pg |-> p]
kfree(m, pages) == [m EXCEPT !.free = @ \cup pages]

-----------------------------------------------------------------------------
\* vm.c

Used(f) == {f[x] : x \in DOMAIN f} \ {0}

\* Pages from newsz to oldsz are freed and unmapped; none when newsz, which is
\* unsigned in the code, has become negative.
deallocuvm(m, d, oldsz, newsz) ==
  LET vs == {v \in Vpns : 0 <= newsz /\ newsz <= v /\ v < oldsz}
  IN  [kfree(m, {m.dir[d].pte[v] : v \in vs} \ {0}) EXCEPT
         !.dir[d].pte = [v \in Vpns |-> IF v \in vs THEN 0 ELSE @[v]],
         !.dir[d].nouser = @ \ vs]

MutFreevm(m, d) ==
  LET k == deallocuvm(m, d, KERNBASE, 0)
  IN  [kfree(k, {d, k.dir[d].ktab} \ {0}) EXCEPT !.dir[d] = Blank]

\* The user pages, the page tables and the directory.
freevm(m, d) ==
  LET k == deallocuvm(m, d, KERNBASE, 0)
  IN  [kfree(k, ({d, k.dir[d].ktab} \ {0}) \cup Used(k.dir[d].tab)) EXCEPT !.dir[d] = Blank]

\* A directory with the kernel mapped; pg = 0 when memory runs out.
setupkvm(m) ==
  LET d == kalloc(m)  k == kalloc(d.m) IN
  CASE d.pg = 0 -> d
    [] d.pg # 0 /\ k.pg = 0 -> [m |-> freevm([k.m EXCEPT !.dir[d.pg] = Blank], d.pg), pg |-> 0]
    [] OTHER -> [m |-> [k.m EXCEPT !.dir[d.pg] = [Blank EXCEPT !.ktab = k.pg]], pg |-> d.pg]

\* mappages of page pg at v, and the page table that walkpgdir allocates.
mappages(m, d, v, pg, nouser) ==
  LET t == v \div NPTE
      a == IF m.dir[d].tab[t] # 0 THEN [m |-> m, pg |-> m.dir[d].tab[t]] ELSE kalloc(m) IN
  IF a.pg = 0 THEN [m |-> m, ok |-> FALSE]
  ELSE IF m.dir[d].pte[v] # 0 THEN [m |-> [m EXCEPT !.panic = TRUE], ok |-> FALSE]
  ELSE [m |-> [a.m EXCEPT !.dir[d].tab[t] = a.pg, !.dir[d].pte[v] = pg,
                          !.dir[d].nouser = IF nouser THEN @ \cup {v} ELSE @ \ {v}],
        ok |-> TRUE]

\* A page for v, which is given back when it cannot be mapped.
MapNew(r, d, v, nouser) ==
  LET k == kalloc(r.m)  s == mappages(k.m, d, v, k.pg, nouser) IN
  IF ~r.ok \/ k.pg = 0 THEN [r EXCEPT !.ok = FALSE]
  ELSE IF s.ok THEN s ELSE [m |-> kfree(s.m, {k.pg}), ok |-> FALSE]

\* allocuvm: ok = FALSE is its return value 0.
allocuvm(m, d, oldsz, newsz) ==
  LET r == FoldLeft(LAMBDA s, k : MapNew(s, d, oldsz + k - 1, FALSE), [m |-> m, ok |-> TRUE],
                    [k \in 1 .. newsz - oldsz |-> k])
  IN  IF newsz >= KERNBASE THEN [m |-> m, ok |-> FALSE]
      ELSE IF r.ok THEN r
      ELSE [m |-> IF r.m.panic THEN r.m ELSE deallocuvm(r.m, d, newsz, oldsz), ok |-> FALSE]

\* The first page of the first process.
inituvm(m, d) == MapNew([m |-> m, ok |-> TRUE], d, 0, FALSE).m

clearpteu(m, d, v) == [m EXCEPT !.dir[d].nouser = @ \cup {v}]

\* One turn of the loop of copyuvm; panic("copyuvm: page not present")
CopyPage(r, d, from, v) ==
  IF r.ok /\ from.pte[v] = 0 THEN [m |-> [r.m EXCEPT !.panic = TRUE], ok |-> FALSE]
  ELSE MapNew(r, d, v, v \in from.nouser)

\* A copy of the pages below sz.
copyuvm(m, d, sz) ==
  LET s == setupkvm(m)
      r == FoldLeft(LAMBDA c, k : CopyPage(c, s.pg, m.dir[d], k - 1), [m |-> s.m, ok |-> TRUE],
                    [k \in 1 .. sz |-> k])
  IN  IF s.pg = 0 THEN s
      ELSE IF r.ok THEN [m |-> r.m, pg |-> s.pg] ELSE [m |-> freevm(r.m, s.pg), pg |-> 0]

-----------------------------------------------------------------------------
\* Processes and LWPs

\* ptid is the pid of the process.  new is the slot that p's thread_create is
\* filling, and sized whether the first locked part of it is done; on says that
\* a CPU runs the zombie p; mixed (history) that two LWPs of the process were
\* in thread_create at a time.
NoProc == [state |-> "UNUSED", pgdir |-> 0, sz |-> 0, kstack |-> 0, ptid |-> 0, t_flag |-> FALSE,
           main |-> 0, parent |-> 0, start |-> 0, end |-> 0, new |-> 0,
           sized |-> FALSE, on |-> FALSE, mixed |-> FALSE]

\* userinit
Init ==
  work \in Workloads /\
  LET k == kalloc(kinit(Pages))  d == setupkvm(k.m) IN
  /\ mem = inituvm(d.m, d.pg)
  /\ proc = [p \in Slots |-> IF p # initproc THEN NoProc
                             ELSE [NoProc EXCEPT !.state = "RUNNABLE", !.pgdir = d.pg, !.sz = 1,
                                                 !.kstack = k.pg, !.ptid = 1]]
  /\ lost = {}
  /\ torn = FALSE

Least(S) == CHOOSE x \in S : \A y \in S : x <= y
Unused == {p \in Slots : proc[p].state = "UNUSED"}
\* The next pid: pids are only compared, so one that no slot knows will do.
nextpid == Least((1 .. work.NPROC + 1) \ {proc[p].ptid : p \in Slots})
Group(p) == {q \in Slots : proc[q].ptid = proc[p].ptid}
Kids(p) == {q \in Slots : proc[q].parent = p /\ proc[q].state # "UNUSED"}

Runs(p) == proc[p].state = "RUNNABLE" \/ proc[p].on

\* The address space of p is that of a process that wait() has not reaped.
HasSpace(p) ==
  \E q \in Group(p) : ~proc[q].t_flag /\ proc[q].pgdir = proc[p].pgdir /\ proc[p].pgdir # 0

Stopped == mem.panic \/ \E p \in Slots : Runs(p) /\ ~HasSpace(p)

\* p makes a system call; init only forks a shell and waits for it.
Calls(p, op) ==
  /\ Runs(p) /\ proc[p].new = 0
  /\ IF p = initproc THEN op = "wait" \/ (op = "fork" /\ Kids(p) = {}) ELSE op \in work.calls

\* allocproc and its kernel stack, copyuvm, and back out of what failed.
Fork(p) ==
  LET np == Least(Unused)  k == kalloc(mem)  c == copyuvm(k.m, proc[p].pgdir, proc[p].sz) IN
  /\ Calls(p, "fork") /\ Unused # {} /\ k.pg # 0
  /\ IF c.pg = 0 THEN mem' = kfree(c.m, {k.pg}) /\ UNCHANGED proc
     ELSE /\ mem' = c.m
          /\ proc' = [proc EXCEPT ![np] = [@ EXCEPT !.state = "RUNNABLE", !.pgdir = c.pg, !.sz = proc[p].sz,
                                                   !.kstack = k.pg, !.ptid = nextpid, !.t_flag = FALSE,
                                                   !.parent = p]]
  /\ UNCHANGED <<lost, torn, work>>

\* exec: the program's pages, a guard page and a stack in a new directory,
\* which is freed when it fails and replaces the old one otherwise.  The old
\* one is freed whoever else runs in it.  Reading the file, or copying the
\* arguments, may fail.
Exec(p, n, fails) ==
  LET d == setupkvm(mem)
      u == allocuvm(d.m, d.pg, 0, n)
      s == allocuvm(u.m, d.pg, n, n + 2)
      new == clearpteu(s.m, d.pg, n) IN
  /\ Calls(p, "exec") /\ d.pg # 0
  /\ CASE ~u.ok \/ fails = "loaduvm" -> mem' = freevm(u.m, d.pg) /\ UNCHANGED <<proc, torn>>
       [] u.ok /\ fails # "loaduvm" /\ (~s.ok \/ fails = "copyout") ->
            mem' = freevm(s.m, d.pg) /\ UNCHANGED <<proc, torn>>
       [] OTHER -> /\ mem' = freevm(new, proc[p].pgdir)
                   /\ proc' = [proc EXCEPT ![p].pgdir = d.pg, ![p].sz = n + 2]
                   /\ torn' = (torn \/ \E q \in Group(p) \ {p} : Runs(q))
  /\ UNCHANGED <<lost, work>>

\* growproc; shrinking to nothing is taken for an error after it was done.
Growproc(p, n) ==
  LET q == proc[p]  a == allocuvm(mem, q.pgdir, q.sz, q.sz + n) IN
  /\ Calls(p, "sbrk") /\ q.sz + n >= 0
  /\ IF n > 0 THEN /\ mem' = a.m
                   /\ proc' = IF a.ok THEN [proc EXCEPT ![p].sz = @ + n] ELSE proc
     ELSE /\ mem' = deallocuvm(mem, q.pgdir, q.sz, q.sz + n)
          /\ proc' = IF q.sz + n = 0 THEN proc ELSE [proc EXCEPT ![p].sz = @ + n]
  /\ UNCHANGED <<lost, torn, work>>

-----------------------------------------------------------------------------
\* LWPs

\* The page that thread_create makes inaccessible, two below the old size.
Guard(m, p) == IF proc[p].sz < 2 THEN m ELSE clearpteu(m, proc[p].pgdir, proc[p].sz - 2)

\* allocproc and the stack, before ptable.lock is taken.  The slot stays
\* EMBRYO when there is no memory for the stack.  Bound: after two LWPs were in
\* thread_create at the same time, their program creates no more.
ThreadCreate(p) ==
  LET np == Least(Unused)  q == proc[p]  k == kalloc(mem)  a == allocuvm(k.m, q.pgdir, q.sz, q.sz + 2) IN
  /\ Calls(p, "thread_create") /\ ~q.mixed /\ Unused # {} /\ k.pg # 0
  /\ mem' = IF a.ok THEN Guard(a.m, p) ELSE a.m
  /\ proc' = [r \in Slots |->
       IF r = np THEN [proc[r] EXCEPT !.state = "EMBRYO", !.kstack = k.pg, !.ptid = nextpid,
                                      !.t_flag = FALSE, !.sz = q.sz + 2]
       ELSE [proc[r] EXCEPT !.new = IF r = p /\ a.ok THEN np ELSE @,
                            !.mixed = @ \/ (r \in Group(p) /\ \E o \in Group(p) : proc[o].new # 0)]]
  /\ lost' = IF a.ok THEN lost ELSE lost \cup {k.pg}
  /\ UNCHANGED <<torn, work>>

\* The size of the whole group of p is set to that of p's new LWP, which keeps
\* the local sz of thread_create.
Resized(p) ==
  [r \in Slots |-> IF r \in Group(p) THEN [proc[r] EXCEPT !.sz = proc[proc[p].new].sz] ELSE proc[r]]

\* The first locked part.
ThreadSize(p) ==
  /\ Runs(p) /\ proc[p].new # 0 /\ ~proc[p].sized
  /\ proc' = [Resized(p) EXCEPT ![p].sized = TRUE]
  /\ UNCHANGED <<mem, lost, torn, work>>

\* The second one: the new LWP gets the stack below p->sz, and the size is set
\* again.
ThreadStart(p) ==
  LET q == proc[p] IN
  /\ Runs(p) /\ q.sized
  /\ proc' = [Resized(p) EXCEPT ![q.new] = [@ EXCEPT !.state = "RUNNABLE", !.start = q.sz, !.end = q.sz - 2,
                                                     !.ptid = q.ptid, !.t_flag = TRUE, !.main = p,
                                                     !.pgdir = q.pgdir, !.mixed = q.mixed],
                                ![p].new = 0, ![p].sized = FALSE]
  /\ UNCHANGED <<mem, lost, torn, work>>

\* thread_exit, which only LWPs call.
ThreadExit(p) ==
  /\ Calls(p, "thread_exit") /\ proc[p].t_flag
  /\ proc' = [q \in Slots |-> IF q = p THEN [proc[q] EXCEPT !.state = "ZOMBIE", !.on = FALSE]
                              ELSE IF proc[q].main = p THEN [proc[q] EXCEPT !.main = initproc] ELSE proc[q]]
  /\ UNCHANGED <<mem, lost, torn, work>>

MutFreeStack(m, w) == deallocuvm(m, w.pgdir, proc[w.main].sz, w.start - 2)
FreeStack(m, w) == deallocuvm(m, w.pgdir, w.start, w.start - 2)

\* thread_join frees the kernel stack and the user stack.  The range of the
\* LWP goes to the first one whose range ends there, and sz goes back when
\* the LWP is at the edge of the memory.  A program knows the ids of the LWPs
\* that it has created, and one that exec started has created none.  Fields of
\* an UNUSED slot that are set again before they are read are cleared, here and
\* in Wait.
ThreadJoin(p, q) ==
  LET w == proc[q]
      above == {r \in Slots : proc[r].end = w.start}
      edge == w.start = proc[w.main].sz IN
  /\ Calls(p, "thread_join") /\ q \in Group(p) /\ w.main = p /\ w.t_flag /\ w.state = "ZOMBIE"
  /\ w.pgdir = proc[p].pgdir
  /\ mem' = kfree(FreeStack(mem, w), {w.kstack})
  /\ proc' = [r \in Slots |->
       IF r = q THEN [NoProc EXCEPT !.main = w.main]
       ELSE [proc[r] EXCEPT !.end = IF above # {} /\ r = Least(above) THEN w.end ELSE @,
                            !.sz = IF edge /\ proc[r].state # "UNUSED" /\ r \in Group(p)
                                     THEN w.end ELSE @]]
  /\ UNCHANGED <<lost, torn, work>>

-----------------------------------------------------------------------------
\* exit of a process makes zombies of its LWPs, exit of an LWP of itself.
Zombies(p) == {p} \cup {q \in Group(p) : ~proc[p].t_flag /\ proc[q].state # "UNUSED"}

MutExit(p) ==
  /\ Calls(p, "exit")
  /\ proc' = [q \in Slots |-> [proc[q] EXCEPT !.parent = IF @ = p THEN initproc ELSE @,
                                              !.state = IF q = p THEN "ZOMBIE" ELSE @]]
  /\ UNCHANGED <<mem, lost, torn, work>>

\* exit.  The LWPs in elsewhere are running on other CPUs; the slot that a
\* zombie's thread_create was filling stays EMBRYO.
Exit(p) ==
  \E elsewhere \in SUBSET {q \in Zombies(p) \ {p} : Runs(q)} :
    LET dead == Zombies(p) \ elsewhere IN
    /\ Calls(p, "exit") /\ Cardinality(elsewhere) < NCPU
    /\ proc' = [q \in Slots |-> [proc[q] EXCEPT !.parent = IF @ = p THEN initproc ELSE @,
                                                !.state = IF q \in Zombies(p) THEN "ZOMBIE" ELSE @,
                                                !.on = q \in elsewhere \/ (@ /\ q \notin dead)]]
    /\ lost' = lost \cup {proc[proc[q].new].kstack : q \in {r \in dead : proc[r].new # 0}}
    /\ torn' = (torn \/ elsewhere # {})
    /\ UNCHANGED <<mem, work>>

\* wait: the LWPs that the zombie q created lose their slots and kernel stacks;
\* q's kernel stack and address space are freed.  LWPs that LWPs of q created
\* stay zombies.
Wait(p, q) ==
  LET lwps == {k \in Slots : proc[k].main = q} IN
  /\ Calls(p, "wait") /\ proc[q].parent = p /\ proc[q].state = "ZOMBIE"
  /\ mem' = kfree(freevm(mem, proc[q].pgdir), {proc[q].kstack})
  /\ lost' = lost \cup ({proc[k].kstack : k \in (lwps \cup Group(q)) \ {q}} \ {0})
  /\ proc' = [k \in Slots |-> IF k \in lwps \cup {q}
                              THEN [proc[k] EXCEPT !.state = "UNUSED", !.kstack = 0, !.parent = 0,
                                                   !.t_flag = FALSE, !.sz = 0, !.pgdir = 0, !.ptid = 0, !.new = 0,
                                                   !.sized = FALSE, !.mixed = FALSE]
                              ELSE proc[k]]
  /\ UNCHANGED <<torn, work>>

Halted == Stopped /\ UNCHANGED vars

Next ==
  \/ ~Stopped /\ \E p \in Slots :
       \/ Fork(p) \/ ThreadCreate(p) \/ ThreadSize(p) \/ ThreadStart(p) \/ ThreadExit(p) \/ Exit(p)
       \/ \E n \in Image, fails \in {"", "loaduvm", "copyout"} : Exec(p, n, fails)
       \/ \E n \in Sbrk : Growproc(p, n)
       \/ \E q \in Slots : ThreadJoin(p, q) \/ Wait(p, q)
  \/ Halted

Spec == Init /\ [][Next]_vars

-----------------------------------------------------------------------------
Spaces == {proc[p].pgdir : p \in {q \in Slots : ~proc[q].t_flag}} \ {0}

\* Slots that somebody runs, fills or will reap.
Attended(p) ==
  \/ Runs(p)
  \/ proc[p].state = "EMBRYO" /\ \E q \in Slots : Runs(q) /\ proc[q].new = p
  \/ proc[p].state = "ZOMBIE" /\ \E q \in Group(p) : ~proc[q].t_flag /\ Runs(proc[q].parent)
  \/ proc[p].state = "ZOMBIE" /\ \E q \in Group(p) : ~proc[q].t_flag /\ Runs(q)
Kstack == [p \in Slots |-> IF Attended(p) THEN proc[p].kstack ELSE 0]
SpacePages(d) == {d, mem.dir[d].ktab} \cup Used(mem.dir[d].tab) \cup Used(mem.dir[d].pte)

\* The number of pointers to pages in directories, page tables and ptable.
Count(f) == Cardinality({x \in DOMAIN f : f[x] # 0})
Pointers ==
  FoldSet(LAMBDA d, n : n + 2 + Count(mem.dir[d].tab) + Count(mem.dir[d].pte), 0, Spaces) + Count(Kstack)

\* Every physical page is on the free list, or has one owner that will give it
\* back, or is one of the kernel stacks that the code is known to forget
\* (lost): that of the slot that thread_create leaves EMBRYO when allocuvm
\* fails or when exit overtakes it, and those of the LWPs that wait reaps, or
\* leaves zombies, with their process.  Whatever else fork, exec, sbrk and
\* thread_create had taken when they ran out of memory is given back, once.
\* Nothing is said after a panic or once the code has torn a running LWP's
\* address space away.
PagesAccounted ==
  ~mem.panic /\ ~torn =>
    LET owned == UNION {SpacePages(d) : d \in Spaces} \cup Used(Kstack) IN
    /\ owned \cap (mem.free \cup lost) = {}
    /\ lost \cap mem.free = {}
    /\ Cardinality(owned) = Pointers
    /\ owned \cup mem.free \cup lost = Pages

\* Whoever can run has an address space that was not freed: for an LWP, the
\* one of a process that wait() has not reaped.  The code breaks this in two
\* ways (torn), and only in these: exec frees the directory in which other
\* LWPs of the process run, and an LWP that another CPU runs while exit makes
\* it a zombie runs on when wait frees its directory.
LiveSpace == ~torn => \A p \in Slots : Runs(p) => HasSpace(p)

\* The stack of an LWP that can run is mapped, whichever LWPs were created and
\* joined before and after it and however the size of the group moved, as long
\* as no two LWPs of the group were in thread_create at the same time (p->sz may
\* then be another one's when it becomes the stack of the new LWP) and the
\* address space was not torn away.
StackMapped ==
  ~mem.panic /\ ~torn =>
    \A p \in Slots :
      proc[p].state = "RUNNABLE" /\ proc[p].t_flag /\ ~proc[p].mixed =>
        \A v \in {proc[p].start - 2, proc[p].start - 1} : mem.dir[proc[p].pgdir].pte[v] # 0

=============================================================================
