# Verification of OS_xv6

TLA+ specifications of the kernel in `src/xv6-public`: xv6 for x86 with four
student projects on top (`src/report/project1.md` to `project4.md`): CPU
shares, light-weight processes (LWPs), semaphores with a readers-writer lock,
and positional file access. The specifications are checked with TLC on small
instances, and the semaphore, the readers-writer lock, locking and switching, pipes, the
process table, the buffer cache and the log are proved correct with TLAPS for instances of any size. `PROJECT.json` relates every definition to the lines it models.

## The system

### Inventory

| Part | State | Operations | Interacts with |
|---|---|---|---|
| Spinlocks, switch, sleep/wakeup (`spinlock.c`, `proc.c`, `trap.c`) | `locked`, `ncli`, `intena`, FL_IF, `p->state`, `p->chan`, `c->proc` | `acquire`, `release`, `scheduler`, `sched`, `yield`, `sleep`, `wakeup`, timer interrupt | everything |
| Process table, LWPs (`proc.c`) | `ptable`, `nextpid`, `nexttid`, `initproc` | `fork`, `exit`, `wait`, `kill`, `thread_create`, `thread_exit`, `thread_join` | scheduler, page allocator |
| Semaphores (`proc.c`, `sleeplock.h`) | `value`, `end`, `count`, `dcount`, `arr` in user memory | `xem_init`, `xem_wait`, `xem_unlock` | sleep/wakeup, `kill`, `trap` |
| Readers-writer lock (`proc.c`) | `lk`, `writelock`, `readers` | `rwlock_init`, acquire and release for reading and for writing | two semaphores |
| CPU shares (`proc.c`) | `totPortion`, `numStride`, `pcount`, `strideOfMlfq`, members of `struct proc` | `set_cpu_share`, `set_stride_value`, `set_pass_value` | process table |
| Redo log (`log.c`) | `log`, the log blocks and home blocks on disk | `begin_op`, `log_write`, `end_op`, `commit`, `recover_from_log` | buffer cache, disk, all file-system calls |
| Pipes (`pipe.c`) | `data`, `nread`, `nwrite`, `readopen`, `writeopen` | `pipewrite`, `piperead`, `pipeclose` | sleep/wakeup, `kill`, file table |
| Buffer cache (`bio.c`) | MRU list, `refcnt`, `flags`, `blockno` | `bget`, `bread`, `bwrite`, `brelse` | log, sleep locks, IDE driver |
| IDE driver (`ide.c`) | `idequeue`, `B_VALID`, `B_DIRTY` | `iderw`, `idestart`, `ideintr` | disk, sleep/wakeup |
| Sleep locks (`sleeplock.c`) | `locked`, `pid` | `acquiresleep`, `releasesleep` | buffer cache, inodes |
| Inodes, directories (`fs.c`) | `icache`, inodes on disk | `ialloc`, `iget`, `ilock`, `iput`, `dirlookup`, `dirlink`, `namex` | log, sleep locks |
| Blocks of files (`fs.c`, `mkfs.c`) | bitmap, `addrs`, indirect blocks | `balloc`, `bfree`, `bmap`, `itrunc`, `iupdate`, `readi`, `writei`, `iappend` | log |
| File table, system calls (`file.c`, `sysfile.c`) | `ftable`, `ofile`, `cwd`, `off` | `filealloc`, `filedup`, `fileclose`, `fileread`, `filewrite`, `pread`, `pwrite`, `open`, `create`, `link`, `unlink`, `mkdir`, `chdir`, `pipe` | pipes, inodes |
| Memory (`kalloc.c`, `vm.c`, `exec.c`, `proc.c`) | `kmem.freelist`, page directories, `sz`, `kstack`, `start`, `end` | `kalloc`, `kfree`, `allocuvm`, `deallocuvm`, `copyuvm`, `freevm`, `exec`, `growproc`, stacks of LWPs | process table |
| Console, boot, traps of devices | | | |

What is hard to get right, and to test, in this code:

* a spin-locked section is atomic only because interrupts are off, and `intena`
  belongs to a process although it is stored per CPU;
* `sleep` and `kill` meet every blocking call: tests of `killed` before `sleep`
  are not protected by `ptable.lock`, and `xem_wait` does not loop;
* LWPs share a process but have slots of their own; `exit` of one changes the
  slots of others that may be running, and freed slots keep old members;
* the log must be right for a crash between any two disk writes, and its space
  is reserved by one formula and tested by another;
* ring buffers and tickets wrap around;
* a buffer or an inode is found in its cache under a spinlock, and locked later;
* system calls take references, locks and pages one after the other, and any of
  them can fail; what was taken must be given back once;
* files have four levels of block addresses, and one write must fit into the log.

The hazards, each at its line, are listed in `PROJECT.json`.

### Plan

In order of importance, with what is done:

1. done: semaphores and the readers-writer lock (`Semaphore`, `Xem`, `RWLock`),
   with proofs (`XemProofs`, `RWLockProofs`);
2. done: what the other modules take for granted, atomic sections and
   sleep/wakeup (`Sched`), with proofs (`SchedProofs`);
3. done: process table and LWPs (`Proc`), with proofs (`ProcSteps`, `ProcProofs`);
4. done: the log and what it promises (`Log` implements `AtomicLog`), with proofs
   (`LogProofs`);
5. done: pipes (`Pipe` implements `Fifo`), with proofs (`PipeProofs`);
6. done: sleep locks, IDE queue and buffer cache composed (`SleepLock`, `Ide`, `Bcache`),
   with proofs (`BcacheProofs`);
7. done: inode cache, directories, path names, file table and their system calls (`Fs`);
   block maps, bitmap and the space one write needs in the log (`BlockMap`);
8. done: page allocator, address spaces, exec, sbrk and the stacks of LWPs (`Vm`);
9. to do: console input; directory and device I/O;
10. to do, proofs: `Fs`, `BlockMap` and `Vm` (see "What is only model-checked").

## The modules

### Semaphore, Xem, MCXem and the proofs

`Semaphore` has the fields of `xem_t`, one function per member over the set
`Sems`, and the three critical sections of `xem_wait` and `xem_unlock`:
`XemTake` (a permit is free), `XemSleep` (up to the `sleep`), `XemResume` (from
the wakeup on) and `XemUnlock`. The channel is the address `Base[s] + n % SIZE`
of an element of `arr`, a user virtual address. `Xem` adds the threads:
system-call entry and return with the `killed` tests of `trap()`, `kill()` at any
moment, and `exit()` of a killed LWP, which marks its group killed. `ticket` and
`claim` are history variables of `Xem`: the number a thread drew, and whether it has a
permit or is due one.

`xem_init` sets the value to 1. The type also serves for larger values when the
user sets the member afterwards, as `test_sem.c` does, hence `InitValue`.

### RWLock, MCRWLock and the proofs

The four operations as sequences of semaphore calls, on the operators of
`Semaphore`. `readers++` and `readers--` are steps of their own, as no spinlock
covers them.

### Sched and the proofs

Spinlocks, the scheduler loop, `sched`, `yield`, `sleep`, `wakeup`, `kill`,
`sys_sleep` and the timer interrupt on several CPUs, at the grain of single
statements. A CPU runs either its scheduler or a process (`run[c]`); every
context has a `pc`. A timer interrupt may come wherever interrupts are on. This
module justifies the grain of all the others: code under a spinlock is one step
there.

### Proc and the proofs

The slots of `ptable` from `allocproc` to the `wait` or `thread_join` that frees
them. Locked sections are steps; the unlocked stretches of `fork`,
`thread_create` and `exit` are steps of their own, so that other CPUs act in
between. `cur[c]` and `at[c]` say which slot CPU `c` executes and where, even when
the slot's state has been changed by others. The programs of a behaviour make the
system calls of one of the constant `Workloads`. `owned` restricts `thread_join` to the
ids that `thread_create` returned.

### Log, AtomicLog, MCLog and the proofs

`Log` has the disk (home blocks, log blocks, header), the cache with its pinned
buffers, `log.lh`, and each file-system call as `begin_op`, modifications with
`log_write` (its test without `log.lock`, then the rest), `end_op`. The commit writes one block per step. `Crash` loses the
memory at any moment; boot runs `read_head`, `install_trans` and the erasing
`write_head`. `AtomicLog` is the promise: the disk jumps from one state between
transactions to the next, a crash loses only what was not committed. The mapping
takes as durable state what recovery would leave (`Recovered`). `Overrun` is the write of a
log block past the end of the log; the model stops there, and so does the promise.

### Pipe, Fifo, MCPipe and the proofs

The ring buffer with unsigned counters modulo `UINT`, writers that store as much
as fits and sleep, readers, `kill`, `exit` and `pipeclose`. `sleep` is split into
the release of the lock and what precedes it, because `kill` can fall in between.
`Fifo` is a queue fed by the bytes that each writer has handed to `write()` (`want`), in
their order, and from which readers take the oldest; a `write()` that fails drops
the rest of its bytes.

### SleepLock, Ide, Bcache and the proofs

`SleepLock` has the critical sections of `acquiresleep` (with its loop: a woken process
tests again) and `releasesleep`. `Ide` has `iderw`, split where it sleeps, the
queue, `idestart`, `ideintr` and the controller, which completes the request that was
started last (external). `Bcache` extends `Ide` and instantiates `SleepLock` for the
buffers: `bget` is a step under `bcache.lock` (`BgetHit`, `BgetRecycle`, `BgetPanics`)
followed by the wait for the buffer's lock; `brelse` is `releasesleep` followed by a
step under `bcache.lock`. Clients hold several buffers and ask for them in ascending
order; the log's `B_DIRTY` keeps up to `LOGSIZE` blocks from being recycled. `latest` is
a history variable, the contents last stored in each block.

### Fs, MCFs

The system calls on files, from user mode back to user mode, for several processes. A
step ends where the code waits for the lock of an inode or enters a critical section of
`icache.lock` or `ftable.lock`. `namex` is a loop with one step per component;
`iput` is three steps (`IputTest` with truncation under the inode's lock, then the
decrement). `st[p]` has the local variables, among them `puts`, the inodes that a call
still has to put. An `ilock` that finds a free inode panics ("ilock: no type", `NoType` in
`Go`); `NoDangling` shows that it never does. A directory has one entry per name, and its size in slots is left
out. Files with `ip` = 0 are the ends of pipes. `calls` is the workload of a behaviour: which
paths the calls name, which other calls are made, and how large the file table is.

### BlockMap, MCBlockMap

`bmap` level by level on the words of indirect blocks, as written in the code,
including the different indices at fs.c:452 and :453; a word outside its block has any
value of `Beyond`. `itrunc` frees by walking the same trees. `logged` has the blocks of
the current transaction. Addresses in memory (`addrs`) and on disk (`dinode`) are
apart, because `writei` calls `iupdate` only when the file grows. The initial states are what
`mkfs` leaves.

### Vm, MCVm

The free list, page directories with the pages of their tables and what they map, and
of `struct proc` what memory needs. `allocuvm`, `copyuvm` and the others are operators on the
record `mem`, which fail wherever `kalloc` returns 0. A system call is a step except
`thread_create`: `ThreadCreate` maps the stack, `ThreadSize` sets `sz` of the group,
`ThreadStart` derives the new stack from `p->sz` and sets the LWP going. `on` marks a zombie
that another CPU still runs, which `exit()` of its process chooses among the LWPs. Three history variables
name what the code is known to do: `mixed`, two LWPs of the group were in `thread_create` at
once; `lost`, the kernel stacks that nobody will free; `torn`, `exec` or `exit()` has
taken the address space of LWPs that run.

## The runs

Each `MC*.cfg` is one question. `MC*.tla` modules only define constants and symmetry
sets, and the views of `xem` and `rw`; `Proc`, `Sched` and `Bcache` are run directly. The states are
distinct ones, up to symmetry in `log` and `pipe` and up to the view in `xem` and `rw`. All runs pass.

| Run | States | Shows |
|---|---|---|
| `xem` | 57 597 | Four threads that contend for one semaphore for ever, with kill() at any moment: exclusion, no lost wakeup and the inductive invariant of the proofs; xem_unlock wakes the longest waiter, and every waiter gets in, unless threads are killed. |
| `rw` | 22 652 | Three threads that contend for the readers-writer lock for ever: until one is killed, exclusion, the reader count, and no reader starves; once a killed thread has exited, nobody enters. |
| `sched` | 534 379 | Two CPUs and two processes that sleep and kill: one CPU per stack, none of the panics, interrupts off exactly with locks. |
| `sched_live` | 12 264 | Under the timer and a fair bus every RUNNABLE process runs and every sleep() ends. |
| `proc` | 338 875 | Two CPUs, and either processes that fork, exit, wait, kill and yield or a process with LWPs that it creates and joins, with and without enough memory: no exit goes unnoticed, no process is left without a parent, none runs twice, and every kernel stack is accounted for, also the one that a failing thread_create strands. |
| `proc_live` | 10 825 | One CPU, processes or a group of LWPs with exit() and kill(): init frees every orphan that has exited, and without LWPs every killed process dies. |
| `log` | 254 724 | Two processes, four blocks, crashes and panics at any moment, eviction: until the log is overrun it implements AtomicLog; logged blocks stay pinned, quiet means durable, and nobody sleeps in begin_op without a reason. |
| `pipe` | 1 821 000 | Two writers, a reader, kill and close, with wrapping counters: the ring buffer implements a bounded FIFO queue of what the writers hand to write(), and until somebody is killed nobody sleeps without a reason. |
| `bcache` | 289 444 | Two processes, two buffers and three blocks over the sleep locks and the IDE queue, with buffers pinned by the log: no block is in two buffers, whoever has locked a buffer sees what was last stored in its block, no wakeup of a sleep lock is lost, and every request to the disk returns. |
| `fs` | 1 365 491 | Two processes in a small file system that make, remove and enter a directory and create, link, unlink, open, share and write a file, two that create, link and unlink the same name, and two that make pipes until files and descriptors run out: reference and link counts are right on all paths, nothing that can be reached is freed, and every deadlock of two calls, or of one with itself, involves an iput that create, unlink or link makes with an inode locked. |
| `bmap` | 164 204 | Files that mkfs stores, then writes, reads through holes, truncations and reopening at every level of indirection until the disk is full, up to the first subtree of the triple indirect block: the bitmap is exact, what was written is read back unless it was lost in a hole, and a transaction of filewrite fits into its reservation as long as it changes one bitmap block. |
| `vm` | 564 179 | Programs that fork, exec, grow, exit and wait, or create, exit and join LWPs, which may create each other, until memory runs out at every possible place: until exec or exit tears the address space of running LWPs away, each page is free, has one owner or is a kernel stack that the code is known to forget, and what can run has its address space and its stack. |

### Where the code does less than one might expect

These cases are in the models as they are in the code, unless said otherwise, and the
properties leave them out by name:

* two programs with a semaphore at the same user address share channels; hence
  `NoAlias` (two groups of threads in `Xem` with one `Base` lose `MutualExclusion`);
* a thread killed inside `xem_wait` goes on as if it had the permit. For a plain
  semaphore `trap()` keeps it out of user code, which is what `MutualExclusion` shows,
  but inside `rwlock_acquire_readlock` it carries on: the properties of `RWLock` say
  "as long as no thread is killed". A later post also wakes the element of the killed
  thread in vain (`PostWakesOldest`);
* `exit()` makes zombies of LWPs that run on another CPU, and their `yield` undoes it;
  `exit()` of an LWP does not wake its main thread out of `thread_join` (`KilledDies` is
  about programs without LWPs); LWPs created by an LWP end up with init as main
  thread, and their `exit()` kills init;
* kernel stacks are leaked: those of the LWPs that `wait` reaps, or leaves zombies, with
  their process, and that of the slot which `thread_create` leaves EMBRYO when `allocuvm` fails or
  `exit()` overtakes it (`lost` in `Vm`). `PagesAccounted` shows that no other page is leaked or has
  two owners, until a panic or until a running LWP's address space is torn away, after which
  it says nothing. `KstackAccounting` says the same of the stranded EMBRYO, in programs that keep LWPs
  apart from `fork` and `exit()`;
* `exec` of an LWP frees the address space in which the others run, and `wait` frees that of
  LWPs that run on another CPU after `exit()` has made zombies of them (`torn`). `LiveSpace` shows
  that these are the only ways to lose it;
* `thread_join` leaves `main_thread` in the slot it frees. A `fork` into that slot makes a
  process that `wait` for the former main thread frees while it runs; no
  workload has both;
* `kill(0)` marks free slots (workload "any pid");
* a writer killed while it fills a pipe does not wake the reader, and `kill()` between
  the test of `killed` and the `sleep` in `piperead` does not wake it either
  (`NoLostWakeup` of `Pipe` is about pipes whose users were not killed);
* the calls that `begin_op` lets in may log `LOGSIZE` blocks (log.c:132), but the log of
  `mkfs` has room for `LOGSIZE` - 1: `log_write` panics (log.c:218), after which nothing
  committed is lost, or, when two processes make its test at the same time, one block more is
  logged and `write_log` puts it over the block behind the log. It takes calls in
  progress that log `MAXOPBLOCKS` blocks each. `AtomicSpec` holds until then;
* `create` and `unlink` put their directory with another inode locked, and `iput` locks the
  directory again: `open` with O_CREATE and `unlink` of one name can wait for each
  other for ever. usertests.c:855, "another concurrent link/unlink/create test, to look for
  deadlocks", makes these calls and can find it. `link` to `d/.` locks `d` twice and waits
  for itself, for `dirlink` puts what already has the name with `d` locked. `CrossOnlyInPut` permits these
  and shows that in every cycle of two waits, or of one, somebody is in such an `iput` of
  `create`, `unlink` or `link`: it does not say that the calls are free of deadlock. Two last `iput`s of one inode can each see the other's
  reference, and neither frees it. `..` of a removed directory can name a free inode;
  a file created in a directory that was just
  removed is leaked;
* a block written into a hole below the end of the file has its address in memory
  only: `writei` does not call `iupdate` then. `ReadsBack` and `BitmapExact` name what is in
  doubt after the inode has left the cache. A `pwrite` into a hole that spans the
  double and the triple indirect block logs one block more than `begin_op`
  reserves (`FitsInOp` is about `filewrite`), and so does a `filewrite` that fills its
  reservation and allocates from two bitmap blocks: param.h:10 calls `MAXOPBLOCKS` the "max # of
  blocks any FS op writes", and `FitsInOp` shows that bitmap blocks past the first are all that
  comes on top. Reading a hole allocates a block, outside
  a transaction or in another's. Blocks past the first subtree of the triple indirect block are
  found by an index outside their block (fs.c:452; `Reach` stops short of it, and `ReadsBack` and
  `BitmapExact` with it);
* two LWPs in `thread_create` at a time get one stack or make `mappages` panic
  (`StackMapped`); a slot whose `allocuvm` fails stays EMBRYO; `clearpteu` is called with the old
  `p->sz`, so the guard page is not the new stack's (project2.md:49 shows the intended
  layout); an `sbrk` of an LWP that fails frees the stack that another
  LWP is being given (not in a workload); `sbrk` to size 0 reports an error;
* `set_cpu_share` tests `totPortion` without the lock (proc.c:979), and no share of a process is
  given back when it exits (not modelled).

### Bounds

* `xem`: 4 threads and `SIZE` 4, the smallest array allowed, so that elements of `arr`
  are used again. `count` and `dcount` only grow, but no step depends on more than their
  distance and the distances of the open tickets and of the sleepers' elements of `arr` from
  `dcount`. States are told apart by these (VIEW `Seen`), which makes the state space finite with
  threads that contend for ever, as `WaiterGetsIn` has to face. `MaxCount` = 50 is never
  reached. The proofs hold for every `MaxCount`.
* `rw`: 3 threads, enough for a writer, a first and a second reader, which come back for
  ever, with the same kind of view; one call of `kill()` (`MaxKills`), after which `exit()` marks
  the others.
* `sched`: 2 CPUs, 2 processes, a sleep of one tick. `sched_live` has 1 CPU, where a
  process depends on being preempted.
* `proc`: 2 CPUs, 4 slots (init and three more), pids up to 4; three workloads, processes and
  LWPs short of memory and LWPs with enough of it, where no slot may be stranded; `proc_live`: 1 CPU,
  3 slots, pids up to 4, so that a slot is used again.
* `log`: 2 processes, 4 blocks, 2 values, `LOGSIZE` 4 and `MAXOPBLOCKS` 2: two calls
  fit into an empty log and one into a partly filled one. `NLOG` is `sb.nlog`, equal to
  `LOGSIZE` as in `mkfs`.
* `pipe`: a buffer of 2 bytes, counters modulo 4, strings of up to 3 bytes: longer
  than the buffer, and the counters wrap around. `UINT` is a multiple of `PIPESIZE`,
  as 2^32 is of 512.
* `bcache`: 2 processes, 2 buffers for 3 blocks, so that buffers are recycled, and the
  log keeps one of them at a time; a process holds up to 2 buffers, so that `bget` can find none.
* `fs`: 2 processes, 3 inodes with the root, 2 names, 2 descriptors and files of at most one
  block. Three workloads (`MCFs`): a directory made, entered and removed under
  another process's feet, with links across it; one name created, linked and unlinked, also
  to `/.`; pipes.
  The file table has 1 entry in the first two and 3 in the last, so that each
  allocation fails at times.
* `bmap`: 1 direct block, 2 words per indirect block, 18 blocks: every level is entered
  and the disk fills up. `filewrite` takes `max` = 3 full blocks per transaction and touches
  4 (file.c:126); here `max` is 1, 2 blocks are touched and `MAXOPBLOCKS` is 8 instead of 10: with
  2 blocks less of data, 2 blocks less are logged. `BPB` is 6, so that the bitmap has three
  blocks and a write can change several. `MaxLost` bounds the blocks lost
  through holes.
* `vm`: 2 CPUs, page tables of 4 entries, user addresses of 8 pages, 15 to 20 physical
  pages and 4 or 5 slots; memory is short at every `kalloc` of every call.

Deadlock is checked except where the system may stop: all threads dead after
`kill()` (`xem`, `rw`), both ends of the pipe closed (`pipe`), a main thread that waits in
`thread_join` after its LWP called `exit()` (`proc_live`, see above), processes that have exited,
panicked or run into the cycle above (`fs`), and init with no child to wait for and no memory for one
(`vm`).

### Fairness

* `Xem`, `RWLock`: weak fairness of each thread's own steps. The scheduler scans the
  table round robin and every tick forces a switch (`RunnableRuns` of `Sched` is
  this fact). Threads in the critical section come to leave it. Nothing is assumed of
  `kill()`, or of threads starting a call.
* `Sched`: every CPU executes; a CPU that spins wins a spinlock that is free again and
  again (the `xchg` of a fair bus); the timer keeps ticking; and a context gets on
  between two ticks, as the timer's period is far longer than any path through the
  kernel.
* `Proc`: the timer, the scheduler's scan and the kernel code of a slot that runs;
  the strong form, because other code takes the CPU and `ptable.lock` in between.
  `init` keeps calling `wait`, which is the loop of `init.c`.
* `Bcache`: the disk completes what it was given, and a process whose request is done, or
  that has called `iderw`, goes on. Nothing is assumed of clients: `IderwEnds` is about a request
  to the disk, whatever other processes ask for.

## The proofs

A proof module extends the module it is about. Many leaves name Zenon: tlapm
otherwise translates them for the SMT solver first, which takes longer the more a module
has of them, and gives up after five seconds.

### Semaphores

`XemProofs` proves for all sets of threads and semaphores, all positions of the
arrays, every `SIZE` not less than the number of threads (9991 against NPROC = 64)
and every number of permits, with `kill()` at any moment:

* `TypeCorrect`: `Spec => []TypeOK`, without further assumption;
* `Inductive`, `XemExclusion`, `XemAccounting`, `XemNoLostWakeup`, `XemInTurn`:
  the invariants `IInv`, `MutualExclusion`, `Accounting`, `NoLostWakeup` and
  `OutOfTurnOnlyIfKilled`, and `XemWakesOldest`: the action property
  `PostWakesOldest`; under `NoAlias`: no two arrays overlap.

`MutualExclusion` is not inductive: that a woken thread may enter depends on the
post that woke it having given up a permit. `IInv` says that the tickets from
`dcount` to `count` are one each with the waiters that no post has reached, that
every sleeper sleeps on the element of its ticket, and that a waiter running out
of turn was killed. The window is no longer than `arr` because no thread has two
tickets in it, so a wakeup hits one sleeper (`ModUnique`, `WakesOne`).
Exclusion follows by counting: those inside and those not yet reached are
disjoint sets of claimants, and `value` counts the claimants. There is one lemma per
kind of step (`QuietStep`, `TakeStep`, `SleepStep`, `ReturnStep`, `FreeStep`,
`HandoverStep`), joined in `IndStep`, and `PostStep` for the
action property; TLC checks `IInv` in run `xem`. `Accounting` and
`OutOfTurnOnlyIfKilled` are not listed in a run: they are consequences of `IInv`.

### The readers-writer lock

`RWLockProofs` proves for any finite set of threads and every `SIZE` not less than their
number, from what `rwlock_init` sets up (both values are 1, and the arrays of the two
semaphores, members of one struct, do not overlap: `RWAssumption`):

* `Exclusion`: `RWExclusion`; `Counted`: `ReadersCounted`; `NoneEnters`: the action property
  `NoneEntersAfterExit`.

The first two are about executions in which nobody was killed, as the properties say, and so is
the main part of the inductive invariant `IInv` (`RWInductive`). `QueueInv` is the state of the
sleepers of one semaphore without history variables: they are one each with the
tickets from `dcount` to `count`. `Permits` is the accounting of the two semaphores: `value` of
`lk` is 1 minus the threads that have it or sleep for it; for `writelock` the readers
inside (`Group`) are together one claimant, from the first reader's `xem_wait` to the last
one's `xem_unlock`, which are different threads. Hence a first reader in `xem_wait(&writelock)`
is the only one inside, and the last one leaves none behind. There are lemmas on what
each semaphore call does to one queue and leaves alone in the other, then one per
step of the four operations. `NoneEnters` needs only that exit() has marked every thread once
one is dead (`KilledInv`).

### Locking, interrupts and context switches

`SchedProofs` proves for all sets of CPUs and processes:

* `OneStackHolds`: `OneStack`; `NoPanicHolds`: `NoPanic`; `InterruptsHold`:
  `InterruptDiscipline`.

None of them is inductive. `IInv` (`SchedInductive`) says for every place of the program which
locks a CPU holds there (`HeldAt`), so that `ncli` is their number, plus one while it spins
(`CpuInv`); what an interrupted context returns to, whose interrupts were on (`RetInv`);
that a process which no CPU runs was left inside `sched()` or has never run, in the state
that goes with that place (`ProcInv`); and that the scheduler waits in its loop meanwhile
(`RunInv`). `intena` is right where it is used, because `sched()` saves and
restores it (`saved`). That no two CPUs run one process follows since `ptable.lock` is held
from the change of state to the switch, and only its holder picks a RUNNABLE process. The tables of
`acquire` and `release` calls enter the proof as two lemmas (`AcquireTable`, `ReleaseTable`).

### Pipes

`PipeProofs` proves for all sets of readers and writers, every buffer size and every width of
the counters that is a larger multiple of it (`PipeAssumption`: 512 and 2^32), with `kill()` at
any moment:

* `NoneLost`: `NoLostWakeup`;
* `ImplementsFifo`: `Spec => IsFifo`, the refinement of `Fifo`.

The invariant `PInv` (`PipeInductive`) says that the counters are at most `PIPESIZE` apart
modulo `UINT`, so that the tests for full and empty mean what they say (`Tests`); that a
closed end has no process left; and that the reason of a sleeper holds from its test on,
while it still holds `p->lock`. For the queue, `StoreAppends` shows that the k places written
are distinct and follow the unread ones, `ReadTakes` that the unread ones move up
in order; what a writer still has to store is `want` of the queue, so a byte that is stored
twice or skipped when the buffer fills up is no step of it; both rest on `ModDiffer` (places less than `PIPESIZE` apart differ) and
`ModShift` (a wrap-around of the counters does not move a place, as `PIPESIZE` divides `UINT`).

### The buffer cache

`BcacheProofs` proves for all finite sets of processes and buffers, all blocks and
values:

* `BlockInOneBuf`: `OneBufPerBlock`; `RefcntCounts`: `RefcntExact`; `SleepersHaveOwner`:
  `NoneSleepsOnFree`; and `UsedIsKept`: the action property `UsedKeepsBlock`, a buffer
  that somebody has, waits for or is about to drop keeps its block;
* `HolderHasLatest`: `HolderSeesLatest`.

The inductive invariant `BInv` joins the three with the types and `InOut`: a process
between `bget` and its lock, or between `releasesleep` and `refcnt--`, does not hold the buffer it
is about. `OneBufPerBlock` alone is inductive, since both scans of `bget` are one critical
section; that a user keeps its block needs the exact `refcnt`, as a recycled buffer is one
with `refcnt` 0. `RefcntExact` equates a counter and a cardinality, so every step
that changes it says which process enters or leaves the set of users (`HitStep`,
`RecycleStep`, `UnrefStep`); the steps on locks and on the disk leave the set alone
(`LocksStep`, `BrelseStep`, `IoStep`). The order of the list `mru` does not matter to
any of this.

`HolderSeesLatest` needs the path of the data, `DInv` over `BInv`: each queued buffer is queued
once and by the process that has its lock and sleeps in `iderw` (`Queued`, `Owned`); the controller
works on the first of them, with the command and the data that it was started with (`Active`);
a valid buffer has what was last stored in its block, and the disk has it too unless a buffer of
the block is dirty (`Agree`); who has a lock has a valid buffer or is reading it (`Filled`). The
step at which a block can be lost is `BgetRecycle`: it takes a buffer that is not dirty
and that nobody uses, so the disk has the block's contents and the queue has no
request for it. `DInv` was also checked with TLC on the instance of run `bcache`.

### The process table

`ProcSteps` and `ProcProofs` prove for all sets of CPUs, every number of slots and every bound
on pids, with failing allocations at any moment:

* `FamiliesKept`: `NoOrphans`; `ExitIsNoticed`: `NoLostExit`; `StacksAccounted`:
  `KstackAccounting`; `SlotsRunOnce`: `OnCpu`, that a slot which a CPU runs is RUNNING and on no
  other CPU.

They are about programs that keep LWPs apart from the rest. The hypothesis is `Separate`: a workload has no `kill` of pids that nobody has, and one with
`thread_create` has none of `fork`, `exit`, `exit()` of an LWP and `kill`. The workloads of run
`proc` satisfy it. It is needed: the list above, under "Where the code does less", says how `exit()` and
`kill` in a program with LWPs, a `fork` into a slot that `thread_join` has freed, and
`kill(0)` break the invariants.

The three invariants need each other. A sleeping `wait` stays right when a child exits because
`exit()` wakes the child's parent, which is alive (`NoOrphans`) and sleeps on its own slot
(`Sleepers`); the parent is alive because `exit()` gives the children of a process to init, and
init does not exit (`InitLives`). The inductive invariant `PInv` adds: a slot runs on at most one CPU
and a CPU runs a RUNNING slot (`OnCpu`); the EMBRYO that a `fork` or `thread_create` works on between
two locked sections is nobody else's, and its stack, parent and main thread are set as far as
its creator has got (`Embryos`); in programs without LWPs a pid belongs to one slot (`NoLwps`),
so that `kill` hits the process it means; in programs with LWPs nobody is killed, zombies are LWPs, and
each id that `thread_create` returned and `thread_join` has not consumed is that of an LWP
(`OnlyLwps`), so that `thread_join` does not sleep for nothing. `loc` is where a slot's code
is, on a CPU or in its saved context, so that dispatching and preempting change nothing that the invariant
says. `PInv` was checked with TLC on the instance of run `proc` before it was proved.

A step lemma says what one kind of change to the table does to the invariant (for example `ExitStep`,
`ReapStep`); an action lemma shows that an action of `Proc` is such a change, and that it frees
nobody alive (`Spared`); `NextPInv` joins them. That an EMBRYO slot is being filled or was stranded
by a `thread_create` short of memory (`Held` in `ProcProofs`) is a second invariant over `PInv`, with a lemma
per action that ends in `NextHeld`. The few facts about finite sets that the count of
stacks needs are collected in `SlotSets`, which `ProcProofs` proves: the theory of finite sets makes
every proof obligation slower, and `ProcSteps` has most of them.

### The log

`LogProofs` proves for all finite sets of processes, all
blocks and values, every `LOGSIZE`, `MAXOPBLOCKS` and size of the log, with crashes,
panics and evictions at any moment:

* `LogInductive`: the invariant `LInv`; from it `LogDurable`: `DurableWhenQuiet`, `LogPinned`:
  `PinnedUntilInstalled`, `LogSleepers`: `SleeperHasReason`;
* `LogIsAtomic`: `Spec => AtomicSpec`, the refinement.

`Control`, one half of `LInv`, has `outstanding` equal to the number of calls in progress, so
that the last `end_op` knows that no other call is in progress, and one commit at a time.
`Contents` says for each phase how far log, header, homes and cache agree: while `write_log` runs the
first `tail` blocks of the log are the cache's; from the header's write on all of them
are; while `install_trans` runs, in a commit or in recovery, the first `tail` homes have
been written; otherwise the header on disk is empty and the blocks with B_DIRTY
are exactly those in `log.lh`. That `log.lh` has no block twice (absorption) is needed for the
installation. The sleepers' reason needs that the log is empty when no call
is in progress and no commit runs, and that one call fits into an empty log. In the
refinement only `WriteHead` changes what recovery would make of the disk
(`RecoveredCommits`, `RecoveredInstall`, `RecoveredInstalled`). `LInv` was also checked with TLC on the
instance of run `log`.

### What is only model-checked

The inductive invariants of the readers-writer lock, of `Sched` and of `Pipe` were checked with TLC on the
instances of runs `rw`, `sched` and `pipe` too.

Only model-checked are all of `Fs`, `BlockMap` and `Vm`. `BlockMap` and `Vm` compute with folds over
trees of blocks and page tables, about which a proof needs induction over data. `Fs` has no folds; its
invariants count references over five kinds of holders and more than thirty steps, and their proofs
have not been attempted. Induction over data is out of the prover's reach, as are fairness and ENABLED, hence every liveness property is
only model-checked. No module declares a RECURSIVE operator.

## What is not modelled

* The console: line editing over the ring-buffer pattern that `Pipe` has, and output.
* CPU shares: numbers that nothing reads, as the stride and MLFQ schedulers are
  commented out; `create_thread`, `thread_yield` and `priorityBoost`, which are not
  called; the queue of project 3, which is only initialized.
* Boot, device set-up, segments, `switchuvm`: sequential device and register accesses.
* Contents: bytes of pages and files (`loaduvm` and `copyout` are choices to succeed or
  fail), the ELF format, directory slots, reading directories and devices, `stat`'s result,
  argument fetching.
* The order of memory accesses (the barriers of `acquire` and `release` are taken as
  effective); wrap-around of `count` and `dcount` at 2^31, of `nextpid` and of `ticks`;
  a failing `copyout` in `thread_create`, which would return with `ptable.lock` held (in
  the states of `vm` the page it writes to is always mapped for the user); disk
  errors and torn block writes; killing init.

Statuses and reasons by component are in `components` of `PROJECT.json`.
