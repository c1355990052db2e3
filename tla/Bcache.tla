------------------------------- MODULE Bcache --------------------------------
(***************************************************************************)
(* The buffer cache (bio.c) over the sleep locks of its buffers and the    *)
(* disk driver.  An action is one critical section of bcache.lock, of a    *)
(* sleep lock or of idelock, or what a process does to a buffer it has     *)
(* locked.                                                                 *)
(*                                                                         *)
(* The clients are the file system and the log: a process reads blocks,    *)
(* changes them, and either writes them (bwrite, in the log) or leaves     *)
(* them to the next commit (log_write, which sets B_DIRTY).  A process     *)
(* that holds a buffer asks for further ones in ascending order only, as   *)
(* the clients do: indirect blocks from the inode down, the bitmap last.   *)
(***************************************************************************)
EXTENDS Ide, Functions

CONSTANTS
  LOGSIZE,    \* the most blocks that the log keeps B_DIRTY
  MaxHeld     \* the most buffers that a process holds at a time

ASSUME BcacheAssumption ==
  /\ IsFiniteSet(Procs) /\ IsFiniteSet(Bufs) /\ Blocks \subseteq Nat /\ None \notin Blocks \cup Bufs \cup Procs
  /\ LOGSIZE \in Nat /\ MaxHeld \in Nat \ {0}

VARIABLES
  owner, asleep,    \* b->lock
  refcnt,
  mru,              \* the list from bcache.head.next to head.prev
  pc,               \* "run", or where p is in bread, bwrite or brelse
  cur,              \* the buffer it is about
  held,             \* the buffers p has got and not released
  panicked,
  latest            \* history: what was last stored in each block

lockVars == <<owner, asleep>>
bufVars == <<flags, blockno, data>>
vars == <<bufVars, ideVars, lockVars, refcnt, mru, pc, cur, held, panicked, latest>>

BL == INSTANCE SleepLock WITH Locks <- Bufs

\* The list that binit makes of the buffers; their names have no order of their
\* own, so it is some list of all of them.
Linked == CHOOSE s \in Injection(1 .. Cardinality(Bufs), Bufs) : TRUE

\* binit, and a disk and buffers with any contents.
Init ==
  /\ flags = [b \in Bufs |-> {}]
  /\ blockno = [b \in Bufs |-> None]
  /\ \E v \in Vals : data = [b \in Bufs |-> v] /\ disk = [n \in Blocks |-> v]
  /\ idequeue = <<>> /\ ctl = None
  /\ ioSleep = [p \in Procs |-> None]
  /\ BL!initsleeplock
  /\ refcnt = [b \in Bufs |-> 0]
  /\ mru = Linked
  /\ pc = [p \in Procs |-> "run"]
  /\ cur = [p \in Procs |-> None]
  /\ held = [p \in Procs |-> {}]
  /\ panicked = FALSE
  /\ latest = disk

Goto(p, l) == pc' = [pc EXCEPT ![p] = l]
Return(p) == Goto(p, "run") /\ cur' = [cur EXCEPT ![p] = None]
Pinned == {b \in Bufs : DIRTY \in flags[b]}

-----------------------------------------------------------------------------
\* bread

MutCached(n) == {b \in Bufs : blockno[b] = n /\ VALID \in flags[b]}

\* The buffers that bget's first scan finds.
Cached(n) == {b \in Bufs : blockno[b] = n}

\* The places of mru whose buffer bget may recycle.
MutReusable == {i \in 1 .. Len(mru) : refcnt[mru[i]] = 0}
Reusable == {i \in 1 .. Len(mru) : refcnt[mru[i]] = 0 /\ DIRTY \notin flags[mru[i]]}

\* bget's two scans under bcache.lock: a cached block is shared, otherwise
\* the least recently used buffer that is free becomes block n's.
BgetHit(p, n) ==
  \E b \in Cached(n) :
    /\ refcnt' = [refcnt EXCEPT ![b] = @ + 1]
    /\ cur' = [cur EXCEPT ![p] = b]
    /\ UNCHANGED <<flags, blockno>>

BgetRecycle(p, n) ==
  \E i \in Reusable :
    LET b == mru[i] IN
    /\ Cached(n) = {} /\ \A j \in Reusable : j <= i
    /\ blockno' = [blockno EXCEPT ![b] = n]
    /\ flags' = [flags EXCEPT ![b] = {}]
    /\ refcnt' = [refcnt EXCEPT ![b] = 1]
    /\ cur' = [cur EXCEPT ![p] = b]

\* A client reads block n.
Bread(p, n) ==
  /\ pc[p] = "run"
  /\ Cardinality(held[p]) < MaxHeld
  /\ \A b \in held[p] : blockno[b] < n
  /\ BgetHit(p, n) \/ BgetRecycle(p, n)
  /\ Goto(p, "bget")
  /\ UNCHANGED <<data, ideVars, lockVars, mru, held, panicked, latest>>

\* panic("bget: no buffers"): the machine stops.
BgetPanics(p, n) ==
  /\ pc[p] = "run"
  /\ Cardinality(held[p]) < MaxHeld
  /\ \A b \in held[p] : blockno[b] < n
  /\ Cached(n) = {} /\ Reusable = {}
  /\ panicked' = TRUE
  /\ UNCHANGED <<bufVars, ideVars, lockVars, refcnt, mru, pc, cur, held, latest>>

\* bget gets the lock of its buffer, and bread looks at B_VALID.
BgetLocks(p) ==
  /\ pc[p] = "bget"
  /\ BL!acquiresleep(p, cur[p])
  /\ held' = [held EXCEPT ![p] = @ \cup {cur[p]}]
  /\ IF VALID \in flags[cur[p]] THEN Return(p) ELSE Goto(p, "iderw") /\ UNCHANGED cur
  /\ UNCHANGED <<bufVars, ideVars, refcnt, mru, panicked, latest>>

BgetSleeps(p) ==
  /\ pc[p] = "bget"
  /\ BL!SleepOn(p, cur[p])
  /\ UNCHANGED <<bufVars, ideVars, refcnt, mru, pc, cur, held, panicked, latest>>

-----------------------------------------------------------------------------
\* The disk

Iderw(p) ==
  /\ pc[p] = "iderw" /\ BL!holdingsleep(p, cur[p])
  /\ iderw(p, cur[p])
  /\ Goto(p, "iowait")
  /\ UNCHANGED <<blockno, lockVars, refcnt, mru, cur, held, panicked, latest>>

IderwReturns(p) ==
  /\ pc[p] = "iowait"
  /\ IderwDone(p, cur[p])
  /\ Return(p)
  /\ UNCHANGED <<blockno, lockVars, refcnt, mru, held, panicked, latest>>

Disk == (Transfer \/ ideintr) /\ UNCHANGED <<blockno, lockVars, refcnt, mru, pc, cur, held, panicked, latest>>

-----------------------------------------------------------------------------
\* What a process does with a buffer that it holds

Store(p, b, v) ==
  /\ pc[p] = "run" /\ b \in held[p]
  /\ data' = [data EXCEPT ![b] = v]
  /\ flags' = [flags EXCEPT ![b] = @ \cup {DIRTY}]
  /\ latest' = [latest EXCEPT ![blockno[b]] = v]
  /\ UNCHANGED <<blockno, ideVars, lockVars, refcnt, mru, held, panicked>>

\* The block changes and is written at once.
Bwrite(p, b, v) ==
  /\ Store(p, b, v)
  /\ cur' = [cur EXCEPT ![p] = b]
  /\ Goto(p, "iderw")

\* The block changes, and the log pins its buffer.
LogWrite(p, b, v) ==
  /\ Store(p, b, v)
  /\ Cardinality(Pinned \cup {b}) <= LOGSIZE
  /\ UNCHANGED <<pc, cur>>

\* brelse, first half.
Brelse(p, b) ==
  /\ pc[p] = "run" /\ b \in held[p] /\ BL!holdingsleep(p, b)
  /\ BL!releasesleep(b)
  /\ held' = [held EXCEPT ![p] = @ \ {b}]
  /\ cur' = [cur EXCEPT ![p] = b]
  /\ Goto(p, "brelse")
  /\ UNCHANGED <<bufVars, ideVars, refcnt, mru, panicked, latest>>

\* The list with b taken out and put in front.
MoveToFront(s, b) ==
  LET i == CHOOSE j \in 1 .. Len(s) : s[j] = b
  IN  [k \in 1 .. Len(s) |-> IF k = 1 THEN b ELSE IF k <= i THEN s[k - 1] ELSE s[k]]

\* Second half, under bcache.lock: an unused buffer becomes the most recently
\* used one.
Unref(p) ==
  LET b == cur[p] IN
  /\ pc[p] = "brelse"
  /\ refcnt' = [refcnt EXCEPT ![b] = @ - 1]
  /\ mru' = IF refcnt'[b] = 0 THEN MoveToFront(mru, b) ELSE mru
  /\ Return(p)
  /\ UNCHANGED <<bufVars, ideVars, lockVars, held, panicked, latest>>

\* panic() loops for ever.
Halted == panicked /\ UNCHANGED vars

Step ==
  /\ ~panicked
  /\ \/ \E p \in Procs :
          \/ \E n \in Blocks : Bread(p, n) \/ BgetPanics(p, n)
          \/ BgetLocks(p) \/ BgetSleeps(p)
          \/ Iderw(p) \/ IderwReturns(p)
          \/ \E b \in Bufs, v \in Vals : Bwrite(p, b, v) \/ LogWrite(p, b, v)
          \/ \E b \in Bufs : Brelse(p, b)
          \/ Unref(p)
     \/ Disk

Next == Step \/ Halted

Spec == Init /\ [][Next]_vars

\* The disk completes its requests, and a process that does not sleep runs.
FairSpec ==
  /\ Spec
  /\ WF_vars(~panicked /\ Disk)
  /\ \A p \in Procs : WF_vars(~panicked /\ (Iderw(p) \/ IderwReturns(p)))

-----------------------------------------------------------------------------
\* Properties

\* A block is never in two buffers (bget), so that everyone who uses a block
\* shares one lock and one copy.
OneBufPerBlock == \A b, c \in Bufs : blockno[b] = blockno[c] /\ blockno[b] # None => b = c

\* A process that has returned from bread has locked, and it alone, a buffer
\* whose contents are what was last stored in that block, whoever stored it and
\* whether the buffer was recycled in between or not.
HolderSeesLatest ==
  \A p \in Procs : \A b \in held[p] :
    /\ owner[b] = p
    /\ VALID \in flags[b] => data[b] = latest[blockno[b]]
    /\ pc[p] # "run" \/ VALID \in flags[b]

\* Nobody sleeps on the lock of a buffer that is free.
NoneSleepsOnFree == BL!NoneSleepsOnFree

\* A request to the disk returns, whatever else is queued.
IderwEnds == \A p \in Procs : pc[p] \in {"iderw", "iowait"} ~> pc[p] = "run" \/ panicked

\* The processes that have the buffer or are on their way into or out of it.
Users(b) == {p \in Procs : b \in held[p] \/ (cur[p] = b /\ pc[p] \in {"bget", "brelse"})}

\* refcnt is the number of users of a buffer: no error in bget or brelse makes
\* the cache run out of buffers, or recycles one that is in use.
RefcntExact == \A b \in Bufs : refcnt[b] = Cardinality(Users(b))

\* bget never gives a buffer to another block while a process uses it, sleeps
\* for its lock or is about to take it.
UsedKeepsBlock == [][\A b \in Bufs : Users(b) # {} => blockno'[b] = blockno[b]]_vars
=============================================================================
