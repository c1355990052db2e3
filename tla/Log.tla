-------------------------------- MODULE Log ---------------------------------
(***************************************************************************)
(* The redo log (log.c) between file-system calls, the buffer cache and    *)
(* the disk, with crashes at any moment and recovery at boot.              *)
(*                                                                         *)
(* A step is a critical section of log.lock, the change of one locked      *)
(* buffer, or the write of one disk block.  A block is written whole (one  *)
(* sector, BSIZE = 512).  The blocks of the log region are only touched by *)
(* the commit or the recovery in progress, so their buffers are left out.  *)
(***************************************************************************)
EXTENDS Integers, Sequences, FiniteSets

CONSTANTS
  Procs, Blocks, Vals,
  LOGSIZE, MAXOPBLOCKS,
  OpBlocks,     \* the most blocks that a system call logs
  None,         \* no buffer
  NLOG          \* sb.nlog: blocks of the log region, its header included

ASSUME LogAssumption ==
  /\ LOGSIZE \in Nat /\ MAXOPBLOCKS \in Nat \ {0} /\ MAXOPBLOCKS <= LOGSIZE
  /\ OpBlocks \in 1 .. MAXOPBLOCKS
  /\ NLOG \in Nat \ {0} /\ None \notin Blocks /\ IsFiniteSet(Procs)

VARIABLES
  disk,         \* home locations on disk
  dlog,         \* the data blocks of the log on disk
  dhead,        \* the header block on disk: the block numbers, in order
  cache,        \* contents of the buffer, or what bread would read
  dirty,        \* buffers with B_DIRTY
  lh,           \* log.lh.block[0 .. n-1]
  outstanding, committing,
  tail,         \* of write_log and install_trans
  boot,         \* "up", or where initlog is, or "overrun"
  pc,
  buf,          \* the buffer that p modified and holds, or None
  wrote         \* the blocks p's system call has logged

diskVars == <<disk, dlog, dhead>>
vars == <<diskVars, cache, dirty, lh, outstanding, committing, tail, boot, pc, buf, wrote>>

\* The volatile state before initlog.
Volatile(home) ==
  /\ cache' = home
  /\ dirty' = {}
  /\ lh' = <<>>
  /\ outstanding' = 0
  /\ committing' = FALSE
  /\ tail' = 0
  /\ boot' = "read_head"
  /\ pc' = [p \in Procs |-> "idle"]
  /\ buf' = [p \in Procs |-> None]
  /\ wrote' = [p \in Procs |-> {}]

\* A disk that mkfs wrote, and the boot up to initlog.
Init ==
  /\ \E v \in Vals : disk = [b \in Blocks |-> v] /\ dlog = [i \in 1 .. NLOG - 1 |-> v]
  /\ dhead = <<>>
  /\ cache = disk
  /\ dirty = {}
  /\ lh = <<>>
  /\ outstanding = 0
  /\ committing = FALSE
  /\ tail = 0
  /\ boot = "read_head"
  /\ pc = [p \in Procs |-> "idle"]
  /\ buf = [p \in Procs |-> None]
  /\ wrote = [p \in Procs |-> {}]

Elems(s) == {s[i] : i \in 1 .. Len(s)}

\* pc after wakeup(&log), and the step of process p to pc value l.
Woken(f) == [q \in Procs |-> IF f[q] = "sleep" THEN "begin" ELSE f[q]]
Step(p, from, to) == pc[p] = from /\ pc' = [pc EXCEPT ![p] = to]

-----------------------------------------------------------------------------
\* File-system calls

\* A process enters a file-system call.
Call(p) ==
  /\ boot = "up"
  /\ Step(p, "idle", "begin")
  /\ UNCHANGED <<diskVars, cache, dirty, lh, outstanding, committing, tail, boot, buf, wrote>>

\* This op might exhaust log space.
NoRoom(p) == Len(lh) + (outstanding + 1) * MAXOPBLOCKS > LOGSIZE

BeginOp(p) ==
  /\ ~committing /\ ~NoRoom(p)
  /\ Step(p, "begin", "op")
  /\ outstanding' = outstanding + 1
  /\ UNCHANGED <<diskVars, cache, dirty, lh, committing, tail, boot, buf, wrote>>

BeginOpSleeps(p) ==
  /\ committing \/ NoRoom(p)
  /\ Step(p, "begin", "sleep")
  /\ UNCHANGED <<diskVars, cache, dirty, lh, outstanding, committing, tail, boot, buf, wrote>>

\* bread, then a change of b->data under the buffer's lock.  A system call
\* modifies at most OpBlocks blocks.
Modify(p, b, v) ==
  /\ \A q \in Procs : buf[q] # b
  /\ Cardinality(wrote[p] \cup {b}) <= OpBlocks
  /\ Step(p, "op", "log_write")
  /\ cache' = [cache EXCEPT ![b] = v]
  /\ buf' = [buf EXCEPT ![p] = b]
  /\ UNCHANGED <<diskVars, dirty, lh, outstanding, committing, tail, boot, wrote>>

\* log_write's test for "too big a transaction", made without log.lock: others
\* may log blocks before p does.
TooBig == Len(lh) >= LOGSIZE \/ Len(lh) >= NLOG - 1

LogWriteTest(p) ==
  /\ ~TooBig
  /\ Step(p, "log_write", "log_add")
  /\ UNCHANGED <<diskVars, cache, dirty, lh, outstanding, committing, tail, boot, buf, wrote>>

MutLogWrite(p) ==
  /\ Step(p, "log_add", "op")
  /\ lh' = IF buf[p] \in Elems(lh) THEN lh ELSE Append(lh, buf[p])
  /\ buf' = [buf EXCEPT ![p] = None]
  /\ wrote' = [wrote EXCEPT ![p] = @ \cup {buf[p]}]
  /\ UNCHANGED <<diskVars, cache, dirty, outstanding, committing, tail, boot>>

\* The rest of log_write, with absorption, and the caller's brelse.
LogWrite(p) ==
  /\ Step(p, "log_add", "op")
  /\ lh' = IF buf[p] \in Elems(lh) THEN lh ELSE Append(lh, buf[p])
  /\ dirty' = dirty \cup {buf[p]}
  /\ buf' = [buf EXCEPT ![p] = None]
  /\ wrote' = [wrote EXCEPT ![p] = @ \cup {buf[p]}]
  /\ UNCHANGED <<diskVars, cache, outstanding, committing, tail, boot>>

\* end_op of a call that is not the last one outstanding.
EndOp(p) ==
  /\ pc[p] = "op"
  /\ outstanding' = outstanding - 1
  /\ outstanding' # 0
  /\ pc' = Woken([pc EXCEPT ![p] = "idle"])
  /\ wrote' = [wrote EXCEPT ![p] = {}]
  /\ UNCHANGED <<diskVars, cache, dirty, lh, committing, tail, boot, buf>>

\* end_op of the last one, up to the commit that it starts.
EndLastOp(p) ==
  /\ outstanding = 1
  /\ Step(p, "op", IF lh # <<>> THEN "write_log" ELSE "done")
  /\ outstanding' = 0
  /\ committing' = TRUE
  /\ tail' = 0
  /\ wrote' = [wrote EXCEPT ![p] = {}]
  /\ UNCHANGED <<diskVars, cache, dirty, lh, boot, buf>>

-----------------------------------------------------------------------------
\* commit, by the process p of the last end_op

\* write_log: one block from the cache to the log.
WriteLog(p) ==
  /\ pc[p] = "write_log" /\ tail + 1 < NLOG
  /\ dlog' = [dlog EXCEPT ![tail + 1] = cache[lh[tail + 1]]]
  /\ IF tail + 1 < Len(lh)
       THEN tail' = tail + 1 /\ UNCHANGED pc
       ELSE tail' = 0 /\ pc' = [pc EXCEPT ![p] = "write_head"]
  /\ UNCHANGED <<disk, dhead, cache, dirty, lh, outstanding, committing, boot, buf, wrote>>

\* write_log past the end of the log, over the block b that follows it, an inode
\* block.  The model ends there.
Overrun(p, b) ==
  /\ tail + 1 >= NLOG
  /\ Step(p, "write_log", "overrun")
  /\ disk' = [disk EXCEPT ![b] = cache[lh[tail + 1]]]
  /\ boot' = "overrun"
  /\ UNCHANGED <<dlog, dhead, cache, dirty, lh, outstanding, committing, tail, buf, wrote>>

\* write_head: the true point at which the transaction commits.
WriteHead(p) ==
  /\ Step(p, "write_head", "install")
  /\ dhead' = lh
  /\ UNCHANGED <<disk, dlog, cache, dirty, lh, outstanding, committing, tail, boot, buf, wrote>>

\* install_trans: one block from the log to its home; bwrite clears B_DIRTY.
install_trans ==
  LET b == lh[tail + 1] IN
    /\ tail < Len(lh)
    /\ disk' = [disk EXCEPT ![b] = dlog[tail + 1]]
    /\ cache' = [cache EXCEPT ![b] = dlog[tail + 1]]
    /\ dirty' = dirty \ {b}
    /\ tail' = tail + 1
    /\ UNCHANGED <<dlog, dhead, lh, outstanding, committing, boot, pc, buf, wrote>>

MutClear ==
  /\ tail + 1 >= Len(lh)
  /\ lh' = <<>>
  /\ dhead' = <<>>
  /\ tail' = 0
  /\ UNCHANGED <<disk, dlog, cache, dirty, outstanding, committing, buf, wrote>>

\* log.lh.n = 0 and the write_head that erases the transaction.
Clear ==
  /\ tail = Len(lh)
  /\ lh' = <<>>
  /\ dhead' = <<>>
  /\ tail' = 0
  /\ UNCHANGED <<disk, dlog, cache, dirty, outstanding, committing, buf, wrote>>

Install(p) == pc[p] = "install" /\ install_trans

Erase(p) == Clear /\ Step(p, "install", "done") /\ UNCHANGED boot

MutCommitDone(p) ==
  /\ Step(p, "done", "idle")
  /\ committing' = FALSE
  /\ UNCHANGED <<diskVars, cache, dirty, lh, outstanding, tail, boot, buf, wrote>>

\* The end of end_op after commit.
CommitDone(p) ==
  /\ pc[p] = "done"
  /\ committing' = FALSE
  /\ pc' = Woken([pc EXCEPT ![p] = "idle"])
  /\ UNCHANGED <<diskVars, cache, dirty, lh, outstanding, tail, boot, buf, wrote>>

-----------------------------------------------------------------------------
\* Eviction, crashes and recovery

\* bget recycles a buffer that is neither referenced nor B_DIRTY; the next
\* bread fetches the block from the disk.
Evict(b) ==
  /\ boot # "overrun" /\ b \notin dirty
  /\ \A p \in Procs : buf[p] # b
  /\ cache' = [cache EXCEPT ![b] = disk[b]]
  /\ UNCHANGED <<diskVars, dirty, lh, outstanding, committing, tail, boot, pc, buf, wrote>>

\* The machine stops; memory is lost.
Crash == boot # "overrun" /\ Volatile(disk) /\ UNCHANGED diskVars

\* panic("too big a transaction"), and the reboot it takes.
Panic(p) == pc[p] = "log_write" /\ TooBig /\ Volatile(disk) /\ UNCHANGED diskVars

MutReadHead ==
  /\ boot = "read_head"
  /\ boot' = "install"
  /\ UNCHANGED <<diskVars, cache, dirty, lh, outstanding, committing, tail, pc, buf, wrote>>

\* recover_from_log: read_head, install_trans, then the header is cleared.
ReadHead ==
  /\ boot = "read_head"
  /\ lh' = dhead
  /\ boot' = "install"
  /\ UNCHANGED <<diskVars, cache, dirty, outstanding, committing, tail, pc, buf, wrote>>

Recover == boot = "install" /\ install_trans

RecoverDone == boot = "install" /\ Clear /\ boot' = "up" /\ UNCHANGED pc

Overran == boot = "overrun" /\ UNCHANGED vars

Next ==
  \/ \E p \in Procs :
       \/ Call(p) \/ BeginOp(p) \/ BeginOpSleeps(p)
       \/ \E b \in Blocks, v \in Vals : Modify(p, b, v)
       \/ LogWriteTest(p) \/ LogWrite(p) \/ EndOp(p) \/ EndLastOp(p)
       \/ WriteLog(p) \/ WriteHead(p) \/ Install(p) \/ Erase(p) \/ CommitDone(p)
       \/ Panic(p)
       \/ \E b \in Blocks : Overrun(p, b)
  \/ \E b \in Blocks : Evict(b)
  \/ ReadHead \/ Recover \/ RecoverDone
  \/ Crash \/ Overran

Spec == Init /\ [][Next]_vars

-----------------------------------------------------------------------------
\* Properties

InOp == {p \in Procs : pc[p] \in {"op", "log_write", "log_add"}}

\* The contents that recovery would produce from the disk as it is.
Recovered ==
  [b \in Blocks |->
     IF \E i \in 1 .. Len(dhead) : dhead[i] = b
       THEN dlog[CHOOSE i \in 1 .. Len(dhead) : dhead[i] = b]
       ELSE disk[b]]

\* Log, with the contents that recovery would produce as the durable ones.
Atomic == INSTANCE AtomicLog WITH
  current <- IF boot = "up" THEN cache ELSE Recovered,
  durable <- Recovered,
  active <- InOp,
  overrun <- boot = "overrun"

\* The log implements AtomicLog: whatever the moment of the crash, also of one
\* during commit or recovery, the contents after recovery are those at a
\* moment when no file-system call was in progress, as long as the log was not
\* overrun.
AtomicSpec == Atomic!ASpec

\* Once the last of the concurrent calls has returned from end_op, all that
\* they wrote survives a crash.
DurableWhenQuiet ==
  boot = "up" /\ outstanding = 0 /\ ~committing => Recovered = cache

\* A logged block stays pinned until it is installed, and the buffer of a
\* block that is not pinned or in use agrees with the disk: eviction loses
\* nothing.
PinnedUntilInstalled ==
  boot = "up" =>
    \A b \in Blocks :
      /\ b \notin dirty /\ (\A p \in Procs : buf[p] # b) => cache[b] = disk[b]
      /\ (\E i \in tail + 1 .. Len(lh) : lh[i] = b) => b \in dirty

\* Whoever sleeps in begin_op has a reason that somebody else will end: a commit
\* in progress, or a log too full for one more call because of the calls in
\* progress.  Every end_op and every end of a commit wakes the sleepers up.
SleeperHasReason ==
  \A p \in Procs : pc[p] = "sleep" => committing \/ (NoRoom(p) /\ outstanding > 0)
=============================================================================
