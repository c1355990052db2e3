---------------------------- MODULE BcacheProofs -----------------------------
(***************************************************************************)
(* Proofs about the buffer cache, for any number of processes, buffers and *)
(* blocks: a block is in one buffer, refcnt counts the users of a buffer   *)
(* exactly, a buffer in use keeps its block, the wakeup of a sleep lock is *)
(* not lost, and who holds a buffer sees the latest contents of its block. *)
(*                                                                         *)
(* BInv joins the first three state properties with what makes them        *)
(* inductive: a process between bget and its lock, or between releasesleep *)
(* and refcnt--, does not hold the buffer that it is about.  DInv is the   *)
(* path of the data over BInv: what is queued for the disk and by whom,    *)
(* what the controller works on, and that a valid buffer agrees with what  *)
(* was last stored, and the disk too unless the buffer is dirty.           *)
(***************************************************************************)
EXTENDS Bcache, TLAPS, FiniteSetTheorems

Labels == {"run", "bget", "iderw", "iowait", "brelse"}

Types ==
  /\ refcnt \in [Bufs -> Int]
  /\ blockno \in [Bufs -> Blocks \cup {None}]
  /\ mru \in Seq(Bufs)
  /\ pc \in [Procs -> Labels]
  /\ cur \in [Procs -> Bufs \cup {None}]
  /\ held \in [Procs -> SUBSET Bufs]
  /\ owner \in [Bufs -> Procs \cup {None}]
  /\ asleep \in [Procs -> Bufs \cup {None}]

\* cur is a buffer unless the process runs, and is not held on the way in and
\* out.
InOut ==
  \A p \in Procs :
    /\ pc[p] # "run" => cur[p] \in Bufs
    /\ pc[p] \in {"bget", "brelse"} => cur[p] \notin held[p]
    /\ pc[p] \in {"iderw", "iowait"} => cur[p] \in held[p]

BInv == Types /\ InOut /\ OneBufPerBlock /\ RefcntExact /\ NoneSleepsOnFree

-----------------------------------------------------------------------------
\* The list that binit makes is a sequence of buffers.
LEMMA LinkedType == Linked \in Seq(Bufs)
<1>1. Cardinality(Bufs) \in Nat /\ ExistsBijection(1 .. Cardinality(Bufs), Bufs)
  BY FS_CardinalityType, BcacheAssumption, Zenon
<1>2. \E s \in Injection(1 .. Cardinality(Bufs), Bufs) : TRUE
  BY <1>1, Zenon DEF ExistsBijection, Bijection
<1>3. Linked \in [1 .. Cardinality(Bufs) -> Bufs]
  BY <1>2, Zenon DEF Linked, Injection
<1> QED
  BY <1>1, <1>3

\* Moving a buffer to the front of the list leaves a list of buffers.
LEMMA MoveToFrontType ==
  ASSUME NEW S, NEW s \in Seq(S), NEW b \in S
  PROVE  MoveToFront(s, b) \in Seq(S)
<1> DEFINE i == CHOOSE j \in 1 .. Len(s) : s[j] = b
           f == [k \in 1 .. Len(s) |-> IF k = 1 THEN b ELSE IF k <= i THEN s[k - 1] ELSE s[k]]
<1>1. \A k \in 1 .. Len(s) : s[k] \in S
  OBVIOUS
<1>2. ASSUME NEW k \in 1 .. Len(s)
      PROVE  (IF k = 1 THEN b ELSE IF k <= i THEN s[k - 1] ELSE s[k]) \in S
  <2>1. k = 1 \/ k - 1 \in 1 .. Len(s)
    OBVIOUS
  <2> HIDE DEF i
  <2> QED
    BY <1>1, <2>1
<1>3. f \in [1 .. Len(s) -> S]
  <2> HIDE DEF i
  <2> QED
    BY <1>2
<1> QED
  BY <1>3 DEF MoveToFront

\* Users is a finite set.
LEMMA UsersFinite == \A b : IsFiniteSet(Users(b))
BY FS_Subset, BcacheAssumption, Zenon DEF Users

\* After binit nobody has a buffer.
LEMMA InitBInv == Init => BInv
<1> SUFFICES ASSUME Init PROVE BInv
  BY Zenon
<1>1. Types
  BY LinkedType, BcacheAssumption DEF Init, Types, Labels, BL!initsleeplock
<1>2. InOut
  BY Zenon DEF Init, InOut
<1>3. OneBufPerBlock
  BY Zenon DEF Init, OneBufPerBlock
<1>4. RefcntExact
  <2>1. \A b \in Bufs : Users(b) = {}
    BY Zenon DEF Init, Users
  <2> QED
    BY <2>1, FS_EmptySet, Zenon DEF Init, RefcntExact
<1>5. NoneSleepsOnFree
  BY Zenon DEF Init, NoneSleepsOnFree, BL!NoneSleepsOnFree, BL!initsleeplock
<1> QED
  BY <1>1, <1>2, <1>3, <1>4, <1>5 DEF BInv

-----------------------------------------------------------------------------
\* Steps that change neither refcnt nor the users of a buffer.
LEMMA SameUsers ==
  ASSUME RefcntExact, refcnt' = refcnt, \A b \in Bufs : Users(b)' = Users(b)
  PROVE  RefcntExact'
BY Zenon DEF RefcntExact

\* bget finds the block in the cache.
LEMMA HitStep ==
  ASSUME BInv, NEW p \in Procs, NEW n \in Blocks, Bread(p, n), BgetHit(p, n)
  PROVE  BInv'
<1> USE DEF BInv
<1>1. PICK b \in Cached(n) : /\ refcnt' = [refcnt EXCEPT ![b] = @ + 1]
                             /\ cur' = [cur EXCEPT ![p] = b]
                             /\ UNCHANGED <<flags, blockno>>
  BY Zenon DEF BgetHit
<1>2. /\ pc[p] = "run" /\ pc' = [pc EXCEPT ![p] = "bget"]
      /\ UNCHANGED <<lockVars, mru, held>>
      /\ \A c \in held[p] : blockno[c] < n
  BY Zenon DEF Bread, Goto
<1>3. b \in Bufs /\ blockno[b] = n /\ n \in Nat
  BY <1>1, BcacheAssumption, Zenon DEF Cached
<1>4. b \notin held[p]
  BY <1>2, <1>3
<1>5. Types'
  BY <1>1, <1>2, <1>3 DEF Types, Labels, lockVars
<1>6. InOut'
  BY <1>1, <1>2, <1>3, <1>4, Zenon DEF Types, InOut
<1>7. OneBufPerBlock'
  BY <1>1, Zenon DEF OneBufPerBlock
<1>8. RefcntExact'
  <2>1. p \notin Users(b)
    BY <1>2, <1>4, Zenon DEF Users
  <2>2. Users(b)' = Users(b) \cup {p}
    BY <1>1, <1>2, Zenon DEF Users, Types
  <2>3. \A c \in Bufs \ {b} : Users(c)' = Users(c)
    BY <1>1, <1>2, Zenon DEF Users, Types
  <2>4. Cardinality(Users(b)') = Cardinality(Users(b)) + 1
    BY <2>1, <2>2, UsersFinite, FS_AddElement, Zenon
  <2> QED
    BY <1>1, <1>3, <2>3, <2>4, Zenon DEF RefcntExact, Types
<1>9. NoneSleepsOnFree'
  BY <1>2, Zenon DEF NoneSleepsOnFree, BL!NoneSleepsOnFree, lockVars
<1> QED
  BY <1>5, <1>6, <1>7, <1>8, <1>9, Zenon

\* bget gives a free buffer to the block: it has no users.
LEMMA RecycleStep ==
  ASSUME BInv, NEW p \in Procs, NEW n \in Blocks, Bread(p, n), BgetRecycle(p, n)
  PROVE  /\ BInv'
         /\ \A b \in Bufs : Users(b) # {} => blockno'[b] = blockno[b]
<1> USE DEF BInv
<1>1. PICK i \in Reusable :
        /\ Cached(n) = {}
        /\ blockno' = [blockno EXCEPT ![mru[i]] = n]
        /\ refcnt' = [refcnt EXCEPT ![mru[i]] = 1]
        /\ cur' = [cur EXCEPT ![p] = mru[i]]
  BY Zenon DEF BgetRecycle
<1>0. PICK b : b = mru[i]
  BY Zenon
<1>2. /\ pc[p] = "run" /\ pc' = [pc EXCEPT ![p] = "bget"]
      /\ UNCHANGED <<lockVars, mru, held>>
  BY Zenon DEF Bread, Goto
<1>3. b \in Bufs /\ refcnt[b] = 0
  BY <1>0, <1>1 DEF Reusable, Types
<1>4. Users(b) = {}
  BY <1>3, UsersFinite, FS_EmptySet, Zenon DEF RefcntExact
<1>5. Types'
  BY <1>0, <1>1, <1>2, <1>3 DEF Types, Labels, lockVars
<1>6. InOut'
  BY <1>0, <1>1, <1>2, <1>3, <1>4 DEF Types, InOut, Users
<1>7. OneBufPerBlock'
  BY <1>0, <1>1, <1>3 DEF OneBufPerBlock, Cached, Types
<1>8. RefcntExact'
  <2>1. Users(b)' = {p}
    BY <1>0, <1>1, <1>2, <1>4 DEF Users, Types
  <2>2. \A c \in Bufs \ {b} : Users(c)' = Users(c)
    BY <1>0, <1>1, <1>2 DEF Users, Types
  <2>3. Cardinality(Users(b)') = 1
    BY <2>1, FS_Singleton, Zenon
  <2> QED
    BY <1>0, <1>1, <1>3, <2>2, <2>3 DEF RefcntExact, Types
<1>9. NoneSleepsOnFree'
  BY <1>2 DEF NoneSleepsOnFree, BL!NoneSleepsOnFree, lockVars
<1>10. \A c \in Bufs : Users(c) # {} => blockno'[c] = blockno[c]
  BY <1>0, <1>1, <1>4 DEF Types
<1> QED
  BY <1>5, <1>6, <1>7, <1>8, <1>9, <1>10

\* brelse, under bcache.lock.
LEMMA UnrefStep ==
  ASSUME BInv, NEW p \in Procs, Unref(p)
  PROVE  BInv'
<1> USE DEF BInv
<1>0. PICK b : b = cur[p]
  BY Zenon
<1>1. /\ pc[p] = "brelse" /\ pc' = [pc EXCEPT ![p] = "run"]
      /\ cur' = [cur EXCEPT ![p] = None]
      /\ refcnt' = [refcnt EXCEPT ![b] = @ - 1]
      /\ mru' = mru \/ mru' = MoveToFront(mru, b)
      /\ UNCHANGED <<blockno, lockVars, held>>
  BY <1>0 DEF Unref, Return, Goto, bufVars
<1>2. b \in Bufs /\ b \notin held[p]
  BY <1>0, <1>1 DEF InOut
<1>3. Types'
  <2>1. mru' \in Seq(Bufs)
    BY <1>1, <1>2, MoveToFrontType DEF Types
  <2> QED
    BY <1>1, <1>2, <2>1 DEF Types, Labels, lockVars
<1>4. InOut'
  BY <1>1 DEF Types, InOut
<1>5. OneBufPerBlock'
  BY <1>1 DEF OneBufPerBlock
<1>6. RefcntExact'
  <2>1. p \in Users(b)
    BY <1>0, <1>1 DEF Users
  <2>2. Users(b)' = Users(b) \ {p}
    BY <1>1, <1>2, BcacheAssumption DEF Users, Types
  <2>3. \A c \in Bufs \ {b} : Users(c)' = Users(c)
    BY <1>0, <1>1, BcacheAssumption DEF Users, Types
  <2>4. Cardinality(Users(b)') = Cardinality(Users(b)) - 1
    BY <2>1, <2>2, UsersFinite, FS_RemoveElement, Zenon
  <2> QED
    BY <1>1, <1>2, <2>3, <2>4 DEF RefcntExact, Types
<1>7. NoneSleepsOnFree'
  BY <1>1, Zenon DEF NoneSleepsOnFree, BL!NoneSleepsOnFree, lockVars
<1> QED
  BY <1>3, <1>4, <1>5, <1>6, <1>7

\* bget takes the lock of its buffer: from the way in to holding it.
LEMMA LocksStep ==
  ASSUME BInv, NEW p \in Procs, BgetLocks(p)
  PROVE  BInv'
<1> USE DEF BInv
<1>0. PICK b : b = cur[p]
  BY Zenon
<1>1. /\ pc[p] = "bget" /\ owner[b] = None
      /\ owner' = [owner EXCEPT ![b] = p]
      /\ held' = [held EXCEPT ![p] = @ \cup {b}]
      /\ \/ pc' = [pc EXCEPT ![p] = "run"] /\ cur' = [cur EXCEPT ![p] = None]
         \/ pc' = [pc EXCEPT ![p] = "iderw"] /\ cur' = cur
      /\ UNCHANGED <<blockno, refcnt, mru, asleep>>
  BY <1>0 DEF BgetLocks, BL!acquiresleep, Return, Goto, bufVars
<1>2. b \in Bufs
  BY <1>0, <1>1 DEF InOut
<1>3. Types'
  BY <1>1, <1>2 DEF Types, Labels
<1>4. InOut'
  BY <1>0, <1>1, <1>2 DEF Types, InOut
<1>5. OneBufPerBlock'
  BY <1>1 DEF OneBufPerBlock
<1>6. \A c \in Bufs : Users(c)' = Users(c)
  BY <1>0, <1>1, BcacheAssumption DEF Users, Types
<1>7. RefcntExact'
  BY <1>1, <1>6, SameUsers
<1>8. NoneSleepsOnFree'
  BY <1>1, BcacheAssumption DEF NoneSleepsOnFree, BL!NoneSleepsOnFree, Types
<1> QED
  BY <1>3, <1>4, <1>5, <1>7, <1>8

\* brelse gives up the lock: from holding the buffer to the way out.
LEMMA BrelseStep ==
  ASSUME BInv, NEW p \in Procs, NEW b \in Bufs, Brelse(p, b)
  PROVE  BInv'
<1> USE DEF BInv
<1>1. /\ pc[p] = "run" /\ b \in held[p]
      /\ owner' = [owner EXCEPT ![b] = None]
      /\ asleep' = [q \in Procs |-> IF asleep[q] = b THEN None ELSE asleep[q]]
      /\ held' = [held EXCEPT ![p] = @ \ {b}]
      /\ cur' = [cur EXCEPT ![p] = b]
      /\ pc' = [pc EXCEPT ![p] = "brelse"]
      /\ UNCHANGED <<blockno, refcnt, mru>>
  BY Zenon DEF Brelse, BL!releasesleep, Goto, bufVars
<1>2. Types'
  BY <1>1, Zenon DEF Types, Labels
<1>3. InOut'
  BY <1>1, Zenon DEF Types, InOut
<1>4. OneBufPerBlock'
  BY <1>1, Zenon DEF OneBufPerBlock
<1>5. \A c \in Bufs : Users(c)' = Users(c)
  BY <1>1, Zenon DEF Users, Types
<1>6. RefcntExact'
  BY <1>1, <1>5, SameUsers
<1>7. NoneSleepsOnFree'
  BY <1>1 DEF NoneSleepsOnFree, BL!NoneSleepsOnFree, Types
<1> QED
  BY <1>2, <1>3, <1>4, <1>6, <1>7

\* bget goes to sleep on a lock that someone holds.
LEMMA SleepsStep ==
  ASSUME BInv, NEW p \in Procs, BgetSleeps(p)
  PROVE  BInv'
<1> USE DEF BInv
<1>1. /\ cur[p] \in Bufs /\ owner[cur[p]] # None
      /\ asleep' = [asleep EXCEPT ![p] = cur[p]]
      /\ UNCHANGED <<blockno, refcnt, mru, pc, cur, held, owner>>
  BY Zenon DEF BgetSleeps, BL!SleepOn, InOut, bufVars
<1>2. Types' /\ InOut' /\ OneBufPerBlock'
  BY <1>1, Zenon DEF Types, InOut, OneBufPerBlock
<1>3. RefcntExact'
  BY <1>1, SameUsers DEF Users
<1>4. NoneSleepsOnFree'
  BY <1>1, Zenon DEF NoneSleepsOnFree, BL!NoneSleepsOnFree, Types
<1> QED
  BY <1>2, <1>3, <1>4

\* A process that holds cur moves between "run", "iderw" and "iowait".
LEMMA IoStep ==
  ASSUME BInv, NEW p \in Procs,
         UNCHANGED <<blockno, refcnt, mru, held, owner, asleep>>,
         \/ /\ pc[p] = "run" /\ cur'[p] \in held[p]
            /\ pc' = [pc EXCEPT ![p] = "iderw"] /\ cur' = [cur EXCEPT ![p] = cur'[p]]
         \/ pc[p] = "iderw" /\ pc' = [pc EXCEPT ![p] = "iowait"] /\ cur' = cur
         \/ /\ pc[p] = "iowait" /\ pc' = [pc EXCEPT ![p] = "run"]
            /\ cur' = [cur EXCEPT ![p] = None]
  PROVE  BInv'
<1> USE DEF BInv
<1>1. Types'
  BY Zenon DEF Types, Labels
<1>2. InOut'
  BY DEF Types, InOut
<1>3. OneBufPerBlock'
  BY Zenon DEF OneBufPerBlock
<1>4. \A c \in Bufs : Users(c)' = Users(c)
  BY Zenon DEF Users, Types
<1>5. RefcntExact'
  BY <1>4, SameUsers, Zenon
<1>6. NoneSleepsOnFree'
  BY Zenon DEF NoneSleepsOnFree, BL!NoneSleepsOnFree
<1> QED
  BY <1>1, <1>2, <1>3, <1>5, <1>6

\* Steps that leave alone what the invariant is about.
LEMMA OtherStep ==
  ASSUME BInv, UNCHANGED <<blockno, refcnt, mru, held, owner, asleep, pc, cur>>
  PROVE  BInv'
<1> USE DEF BInv
<1>1. Types' /\ InOut' /\ OneBufPerBlock' /\ NoneSleepsOnFree'
  BY Zenon DEF Types, InOut, OneBufPerBlock, NoneSleepsOnFree, BL!NoneSleepsOnFree
<1>2. RefcntExact'
  BY SameUsers, Zenon DEF Users
<1> QED
  BY <1>1, <1>2, Zenon

\* A step of one process other than bget keeps every buffer's block.
Rest(p) ==
  \/ \E n \in Blocks : BgetPanics(p, n)
  \/ BgetLocks(p) \/ BgetSleeps(p) \/ Iderw(p) \/ IderwReturns(p)
  \/ \E b \in Bufs, v \in Vals : Bwrite(p, b, v) \/ LogWrite(p, b, v)
  \/ \E b \in Bufs : Brelse(p, b)
  \/ Unref(p)

\* The other steps of a process: bget and its lock, the disk, brelse.
LEMMA RestStep ==
  ASSUME BInv, NEW p \in Procs, Rest(p)
  PROVE  BInv' /\ blockno' = blockno
<1>1. ASSUME NEW n \in Blocks, BgetPanics(p, n)
      PROVE  BInv' /\ blockno' = blockno
  BY <1>1, OtherStep DEF BgetPanics, bufVars, lockVars
<1>2. CASE BgetLocks(p)
  BY <1>2, LocksStep, Zenon DEF BgetLocks, bufVars
<1>3. CASE BgetSleeps(p)
  BY <1>3, SleepsStep DEF BgetSleeps, bufVars
<1>4. CASE Iderw(p)
  BY <1>4, IoStep, Zenon DEF Iderw, Goto, lockVars
<1>5. CASE IderwReturns(p)
  BY <1>5, IoStep, Zenon DEF IderwReturns, Return, Goto, lockVars
<1>6. ASSUME NEW b \in Bufs, NEW v \in Vals, Bwrite(p, b, v)
      PROVE  BInv' /\ blockno' = blockno
  <2>1. cur' = [cur EXCEPT ![p] = b] /\ cur'[p] = b
    BY <1>6, Zenon DEF Bwrite, BInv, Types
  <2> QED
    BY <1>6, <2>1, IoStep, Zenon DEF Bwrite, Store, Goto, lockVars
<1>7. ASSUME NEW b \in Bufs, NEW v \in Vals, LogWrite(p, b, v)
      PROVE  BInv' /\ blockno' = blockno
  BY <1>7, OtherStep DEF LogWrite, Store, lockVars
<1>8. ASSUME NEW b \in Bufs, Brelse(p, b)
      PROVE  BInv' /\ blockno' = blockno
  BY <1>8, BrelseStep, Zenon DEF Brelse, bufVars
<1>9. CASE Unref(p)
  BY <1>9, UnrefStep, Zenon DEF Unref, bufVars
<1> QED
  BY <1>1, <1>2, <1>3, <1>4, <1>5, <1>6, <1>7, <1>8, <1>9 DEF Rest

KeepsBlock == \A b \in Bufs : Users(b) # {} => blockno'[b] = blockno[b]

\* Every step keeps BInv, and the block of a buffer in use.
LEMMA NextBInv == BInv /\ [Next]_vars => BInv' /\ KeepsBlock
<1> SUFFICES ASSUME BInv, [Next]_vars PROVE BInv' /\ KeepsBlock
  BY Zenon
<1>1. ASSUME NEW p \in Procs, NEW n \in Blocks, Bread(p, n)
      PROVE  BInv' /\ KeepsBlock
  <2>1. CASE BgetHit(p, n)
    BY <1>1, <2>1, HitStep, Zenon DEF BgetHit, KeepsBlock
  <2>2. CASE BgetRecycle(p, n)
    BY <1>1, <2>2, RecycleStep DEF KeepsBlock
  <2> QED
    BY <1>1, <2>1, <2>2 DEF Bread
<1>2. ASSUME NEW p \in Procs, Rest(p)
      PROVE  BInv' /\ KeepsBlock
  BY <1>2, RestStep DEF KeepsBlock
<1>3. CASE Disk
  BY <1>3, OtherStep DEF Disk, lockVars, KeepsBlock
<1>4. CASE UNCHANGED vars
  BY <1>4, OtherStep DEF vars, bufVars, lockVars, KeepsBlock
<1>5. Next => \/ \E p \in Procs, n \in Blocks : Bread(p, n)
              \/ \E p \in Procs : Rest(p)
              \/ Disk \/ UNCHANGED vars
  BY Zenon DEF Next, Step, Halted, Rest
<1> QED
  BY <1>1, <1>2, <1>3, <1>4, <1>5

\* bio.c's bget never caches a block in two buffers, for any number of
\* processes, buffers and blocks.
THEOREM BlockInOneBuf == Spec => []OneBufPerBlock
<1>1. BInv => OneBufPerBlock
  BY Zenon DEF BInv
<1> QED
  BY <1>1, InitBInv, NextBInv, PTL DEF Spec

\* refcnt counts the users of every buffer exactly: bget and brelse keep the
\* account through misses, hits, sleeps on the buffer's lock and releases.
THEOREM RefcntCounts == Spec => []RefcntExact
<1>1. BInv => RefcntExact
  BY Zenon DEF BInv
<1> QED
  BY <1>1, InitBInv, NextBInv, PTL DEF Spec

\* Nobody sleeps in acquiresleep on the lock of a buffer that is free.
THEOREM SleepersHaveOwner == Spec => []NoneSleepsOnFree
<1>1. BInv => NoneSleepsOnFree
  BY Zenon DEF BInv
<1> QED
  BY <1>1, InitBInv, NextBInv, PTL DEF Spec

\* A buffer that a process uses, sleeps for or is about to lock is never
\* recycled for another block by bget.
THEOREM UsedIsKept == Spec => UsedKeepsBlock
<1>1. BInv /\ [Next]_vars => [KeepsBlock]_vars
  BY NextBInv, Zenon
<1>2. BInv /\ [Next]_vars => BInv'
  BY NextBInv, Zenon
<1>3. Spec => [][KeepsBlock]_vars
  BY <1>1, <1>2, InitBInv, PTL DEF Spec
<1> QED
  BY <1>3, Zenon DEF UsedKeepsBlock, KeepsBlock

-----------------------------------------------------------------------------
\* The contents of buffers and of the disk.

DTypes ==
  /\ flags \in [Bufs -> SUBSET {VALID, DIRTY}]
  /\ data \in [Bufs -> Vals]
  /\ disk \in [Blocks -> Vals] /\ latest \in [Blocks -> Vals]
  /\ idequeue \in Seq(Bufs)

\* b->lock belongs to the process that has the buffer.
Owned == \A p \in Procs, b \in Bufs : owner[b] = p <=> b \in held[p]

\* A buffer that was never given to a block is empty and unused.
HasBlock == \A b \in Bufs : blockno[b] = None => flags[b] = {} /\ Users(b) = {}

\* A buffer is queued once, by the process that holds it, and is not done.
Queued ==
  /\ \A i, j \in 1 .. Len(idequeue) : idequeue[i] = idequeue[j] => i = j
  /\ \A i \in 1 .. Len(idequeue) :
       /\ \E p \in Procs : pc[p] = "iowait" /\ cur[p] = idequeue[i]
       /\ VALID \in flags[idequeue[i]] => DIRTY \in flags[idequeue[i]]

\* The controller works on the first queued buffer.
Active ==
  ctl # None => LET b == Head(idequeue) IN
    /\ idequeue # <<>>
    /\ DOMAIN ctl = {"buf", "block", "done", "data", "cmd"}
    /\ ctl.block = blockno[b]
    /\ ctl.cmd = (IF DIRTY \in flags[b] THEN "write" ELSE "read")
    /\ DIRTY \in flags[b] => ctl.data = data[b]
    /\ ctl.done => disk[ctl.block] = ctl.data

\* A valid buffer has what was last stored in its block, and so has the disk
\* unless the buffer is dirty.
Agree ==
  /\ \A b \in Bufs : DIRTY \in flags[b] => VALID \in flags[b]
  /\ \A b \in Bufs : VALID \in flags[b] => data[b] = latest[blockno[b]]
  /\ \A n \in Blocks :
       (\A b \in Bufs : blockno[b] = n => DIRTY \notin flags[b]) => disk[n] = latest[n]

\* Who has a buffer has its contents, or is reading them.
Filled ==
  \A p \in Procs : \A b \in held[p] :
    VALID \in flags[b] \/ (cur[p] = b /\ pc[p] \in {"iderw", "iowait"})

DInv == DTypes /\ Owned /\ HasBlock /\ Queued /\ Active /\ Agree /\ Filled

\* After binit the disk has what was last stored in every block.
LEMMA InitDInv == Init => DInv
<1> SUFFICES ASSUME Init PROVE DInv
  BY Zenon
<1>1. PICK v \in Vals : data = [b \in Bufs |-> v] /\ disk = [n \in Blocks |-> v]
  BY Zenon DEF Init
<1>2. DTypes
  BY <1>1 DEF Init, DTypes
<1>3. Owned
  BY BcacheAssumption, Zenon DEF Init, Owned, BL!initsleeplock
<1>4. HasBlock
  BY Zenon DEF Init, HasBlock, Users
<1>5. Queued /\ Active
  BY DEF Init, Queued, Active
<1>6. Agree /\ Filled
  BY Zenon DEF Init, Agree, Filled
<1> QED
  BY <1>2, <1>3, <1>4, <1>5, <1>6, Zenon DEF DInv

\* Steps that leave the contents and the disk alone.
LEMMA QuietData ==
  ASSUME DInv, UNCHANGED <<bufVars, ideVars, latest>>, Owned', HasBlock', Filled',
         \A q \in Procs : pc[q] = "iowait" => pc'[q] = "iowait" /\ cur'[q] = cur[q]
  PROVE  DInv'
<1>1. /\ flags' = flags /\ blockno' = blockno /\ data' = data /\ idequeue' = idequeue
      /\ ctl' = ctl /\ disk' = disk /\ latest' = latest
  BY Zenon DEF bufVars, ideVars
<1>2. DTypes' /\ Active' /\ Agree'
  <2>1. DTypes'
    BY <1>1, Zenon DEF DInv, DTypes
  <2>2. Active'
    BY <1>1, Zenon DEF DInv, Active
  <2>3. Agree'
    BY <1>1, Zenon DEF DInv, Agree
  <2> QED
    BY <2>1, <2>2, <2>3, Zenon
<1>3. Queued'
  BY <1>1 DEF DInv, Queued
<1> QED
  BY <1>2, <1>3, Zenon DEF DInv

\* bget, a hit.
LEMMA HitData ==
  ASSUME BInv, DInv, NEW p \in Procs, NEW n \in Blocks, Bread(p, n), BgetHit(p, n)
  PROVE  DInv'
<1>1. PICK b \in Cached(n) : cur' = [cur EXCEPT ![p] = b] /\ UNCHANGED <<flags, blockno>>
  BY Zenon DEF BgetHit
<1>2. /\ pc[p] = "run" /\ pc' = [pc EXCEPT ![p] = "bget"]
      /\ UNCHANGED <<data, ideVars, lockVars, held, latest>>
  BY Zenon DEF Bread, Goto
<1>3. b \in Bufs /\ blockno[b] = n /\ n # None
  BY <1>1, BcacheAssumption, Zenon DEF Cached
<1>4. Owned'
  BY <1>2, Zenon DEF DInv, Owned, lockVars
<1>5. \A q \in Procs \ {p} : pc'[q] = pc[q] /\ cur'[q] = cur[q]
  BY <1>1, <1>2, Zenon DEF BInv, Types
<1>6. cur'[p] = b /\ pc'[p] = "bget"
  BY <1>1, <1>2, Zenon DEF BInv, Types
<1>7. HasBlock'
  <2>1. \A c \in Bufs : c # b => Users(c)' \subseteq Users(c)
    BY <1>2, <1>5, <1>6, Zenon DEF Users
  <2> QED
    BY <1>1, <1>3, <2>1, Zenon DEF DInv, HasBlock
<1>8. Filled'
  <2>1. \A c \in held[p] : VALID \in flags[c]
    BY <1>2, Zenon DEF DInv, Filled
  <2> QED
    BY <1>1, <1>2, <1>5, <2>1, Zenon DEF DInv, Filled
<1> QED
  BY <1>1, <1>2, <1>4, <1>5, <1>7, <1>8, QuietData, Zenon DEF bufVars

\* bget takes the lock of its buffer.
LEMMA LocksData ==
  ASSUME BInv, DInv, NEW p \in Procs, BgetLocks(p)
  PROVE  DInv'
<1>0. PICK b : b = cur[p]
  BY Zenon
<1>1. /\ pc[p] = "bget" /\ owner[b] = None
      /\ owner' = [owner EXCEPT ![b] = p]
      /\ held' = [held EXCEPT ![p] = @ \cup {b}]
      /\ \/ VALID \in flags[b] /\ pc' = [pc EXCEPT ![p] = "run"] /\ cur' = [cur EXCEPT ![p] = None]
         \/ pc' = [pc EXCEPT ![p] = "iderw"] /\ cur' = cur
      /\ UNCHANGED <<bufVars, ideVars, latest>>
  BY <1>0, Zenon DEF BgetLocks, BL!acquiresleep, Return, Goto
<1>2. b \in Bufs
  BY <1>0, <1>1, Zenon DEF BInv, InOut
<1>3. Owned'
  BY <1>1, <1>2, BcacheAssumption DEF DInv, Owned, BInv, Types
<1>4. \A q \in Procs \ {p} : pc'[q] = pc[q] /\ cur'[q] = cur[q] /\ held'[q] = held[q]
  BY <1>1, Zenon DEF BInv, Types
<1>5. held'[p] = held[p] \cup {b} /\ ((pc'[p] = "run" /\ VALID \in flags[b]) \/ (pc'[p] = "iderw" /\ cur'[p] = b))
  BY <1>0, <1>1, Zenon DEF BInv, Types
<1>6. HasBlock'
  <2>1. ASSUME NEW c \in Bufs, NEW q \in Users(c)' PROVE q \in Users(c)
    <3>1. CASE q = p
      BY <1>0, <1>1, <1>5, <3>1, Zenon DEF Users
    <3>2. CASE q # p
      BY <1>4, <3>2, Zenon DEF Users
    <3> QED
      BY <3>1, <3>2, Zenon
  <2> QED
    BY <1>1, <2>1, Zenon DEF DInv, HasBlock, bufVars
<1>7. Filled'
  <2>1. \A c \in held[p] : VALID \in flags[c]
    BY <1>1, Zenon DEF DInv, Filled
  <2> QED
    BY <1>1, <1>4, <1>5, <2>1 DEF DInv, Filled, bufVars
<1> QED
  BY <1>1, <1>3, <1>4, <1>6, <1>7, QuietData, Zenon

\* brelse gives up the lock.
LEMMA BrelseData ==
  ASSUME BInv, DInv, NEW p \in Procs, NEW b \in Bufs, Brelse(p, b)
  PROVE  DInv'
<1>1. /\ pc[p] = "run" /\ b \in held[p]
      /\ owner' = [owner EXCEPT ![b] = None]
      /\ held' = [held EXCEPT ![p] = @ \ {b}]
      /\ cur' = [cur EXCEPT ![p] = b]
      /\ pc' = [pc EXCEPT ![p] = "brelse"]
      /\ UNCHANGED <<bufVars, ideVars, latest>>
  BY Zenon DEF Brelse, BL!releasesleep, Goto
<1>2. \A q \in Procs \ {p} : pc'[q] = pc[q] /\ cur'[q] = cur[q] /\ held'[q] = held[q]
  BY <1>1, Zenon DEF BInv, Types
<1>3. held'[p] = held[p] \ {b} /\ cur'[p] = b /\ pc'[p] = "brelse"
  BY <1>1, Zenon DEF BInv, Types
<1>4. Owned'
  <2>1. \A q \in Procs : b \in held[q] => q = p
    BY <1>1, Zenon DEF DInv, Owned
  <2>2. owner'[b] = None /\ \A c \in Bufs \ {b} : owner'[c] = owner[c]
    BY <1>1, Zenon DEF BInv, Types
  <2>3. \A q \in Procs : b \notin held'[q] /\ q # None
    BY <1>2, <1>3, <2>1, BcacheAssumption, Zenon
  <2>4. \A q \in Procs : \A c \in Bufs \ {b} : c \in held'[q] <=> c \in held[q]
    BY <1>2, <1>3, Zenon
  <2> QED
    BY <2>2, <2>3, <2>4 DEF DInv, Owned
<1>5. HasBlock'
  <2>1. \A c \in Bufs : Users(c)' \subseteq Users(c)
    BY <1>1, <1>2, <1>3 DEF Users
  <2> QED
    BY <1>1, <2>1, Zenon DEF DInv, HasBlock, bufVars
<1>6. Filled'
  <2>1. \A c \in held[p] : VALID \in flags[c]
    BY <1>1, Zenon DEF DInv, Filled
  <2> QED
    BY <1>1, <1>2, <1>3, <2>1 DEF DInv, Filled, bufVars
<1> QED
  BY <1>1, <1>2, <1>4, <1>5, <1>6, QuietData, Zenon

\* refcnt--, sleeping on a lock and the panic.
LEMMA IdleData ==
  ASSUME BInv, DInv, NEW p \in Procs, Unref(p) \/ BgetSleeps(p) \/ \E n \in Blocks : BgetPanics(p, n)
  PROVE  DInv'
<1>1. UNCHANGED <<bufVars, ideVars, latest, owner, held>>
  BY Zenon DEF Unref, BgetSleeps, BgetPanics, BL!SleepOn, lockVars
<1>2. \/ pc[p] = "brelse" /\ pc' = [pc EXCEPT ![p] = "run"] /\ cur' = [cur EXCEPT ![p] = None]
      \/ UNCHANGED <<pc, cur>>
  BY Zenon DEF Unref, BgetSleeps, BgetPanics, Return, Goto
<1>3. \A q \in Procs \ {p} : pc'[q] = pc[q] /\ cur'[q] = cur[q]
  BY <1>2, Zenon DEF BInv, Types
<1>4. (pc[p] = "brelse" /\ pc'[p] = "run") \/ (pc'[p] = pc[p] /\ cur'[p] = cur[p])
  BY <1>2, Zenon DEF BInv, Types
<1>5. Owned'
  BY <1>1, Zenon DEF DInv, Owned
<1>6. HasBlock'
  <2>1. \A c \in Bufs : Users(c)' \subseteq Users(c)
    BY <1>1, <1>3, <1>4, Zenon DEF Users
  <2> QED
    BY <1>1, <2>1, Zenon DEF DInv, HasBlock, bufVars
<1>7. Filled'
  BY <1>1, <1>3, <1>4, Zenon DEF DInv, Filled, bufVars
<1> QED
  BY <1>1, <1>3, <1>4, <1>5, <1>6, <1>7, QuietData, Zenon

\* What is in use: its block and its place in the queue.
LEMMA InUse ==
  ASSUME BInv, DInv
  PROVE  /\ \A p \in Procs : \A b \in held[p] : b \in Bufs /\ blockno[b] \in Blocks
         /\ \A i \in 1 .. Len(idequeue) :
              /\ idequeue[i] \in Bufs /\ blockno[idequeue[i]] \in Blocks
              /\ \A p \in Procs : idequeue[i] \in held[p] => pc[p] = "iowait" /\ cur[p] = idequeue[i]
              /\ Users(idequeue[i]) # {}
<1>1. \A p \in Procs : \A b \in held[p] : b \in Bufs /\ p \in Users(b)
  BY Zenon DEF BInv, Types, Users
<1>2. \A p \in Procs : \A b \in held[p] : b \in Bufs /\ blockno[b] \in Blocks
  BY <1>1, Zenon DEF DInv, HasBlock, BInv, Types
<1>3. ASSUME NEW i \in 1 .. Len(idequeue)
      PROVE  /\ idequeue[i] \in Bufs /\ blockno[idequeue[i]] \in Blocks
             /\ \A p \in Procs : idequeue[i] \in held[p] => pc[p] = "iowait" /\ cur[p] = idequeue[i]
             /\ Users(idequeue[i]) # {}
  <2>1. PICK q \in Procs : pc[q] = "iowait" /\ cur[q] = idequeue[i]
    BY Zenon DEF DInv, Queued
  <2>2. idequeue[i] \in held[q]
    BY <2>1, Zenon DEF BInv, InOut
  <2>3. ASSUME NEW p \in Procs, idequeue[i] \in held[p] PROVE p = q
    <3>1. idequeue[i] \in Bufs
      BY <1>1, <2>2, Zenon
    <3> QED
      BY <2>2, <2>3, <3>1, ZenonT(30) DEF DInv, Owned
  <2> QED
    BY <1>1, <1>2, <2>1, <2>2, <2>3, Zenon
<1> QED
  BY <1>2, <1>3, Zenon

\* bget gives a free buffer to another block: the old one is on the disk.
LEMMA RecycleData ==
  ASSUME BInv, DInv, NEW p \in Procs, NEW n \in Blocks, Bread(p, n), BgetRecycle(p, n)
  PROVE  DInv'
<1>1. PICK i \in Reusable :
        /\ Cached(n) = {}
        /\ blockno' = [blockno EXCEPT ![mru[i]] = n]
        /\ flags' = [flags EXCEPT ![mru[i]] = {}]
        /\ cur' = [cur EXCEPT ![p] = mru[i]]
  BY Zenon DEF BgetRecycle
<1>0. PICK b : b = mru[i]
  BY Zenon
<1>2. /\ pc[p] = "run" /\ pc' = [pc EXCEPT ![p] = "bget"]
      /\ UNCHANGED <<data, idequeue, ctl, disk, owner, held, latest>>
  BY Zenon DEF Bread, Goto, lockVars, ideVars
<1>3. b \in Bufs /\ refcnt[b] = 0 /\ DIRTY \notin flags[b]
  BY <1>0, <1>1 DEF Reusable, BInv, Types
<1>4. Users(b) = {}
  BY <1>3, UsersFinite, FS_EmptySet, Zenon DEF RefcntExact, BInv
<1>5. /\ blockno'[b] = n /\ flags'[b] = {} /\ n # None
      /\ \A c \in Bufs \ {b} : blockno'[c] = blockno[c] /\ flags'[c] = flags[c]
      /\ cur'[p] = b /\ pc'[p] = "bget"
      /\ \A q \in Procs \ {p} : pc'[q] = pc[q] /\ cur'[q] = cur[q]
  BY <1>0, <1>1, <1>2, <1>3, BcacheAssumption, Zenon DEF BInv, Types, DInv, DTypes
<1>6. \A q \in Procs : b \notin held[q]
  BY <1>4, Zenon DEF Users
<1>7. DTypes'
  BY <1>0, <1>1, <1>2, <1>3, Zenon DEF DInv, DTypes
<1>8. Owned'
  BY <1>2, Zenon DEF DInv, Owned
<1>9. HasBlock'
  <2>1. \A c \in Bufs : c # b => Users(c)' \subseteq Users(c)
    BY <1>2, <1>5, Zenon DEF Users
  <2> QED
    BY <1>5, <2>1, Zenon DEF DInv, HasBlock
<1>10. \A j \in 1 .. Len(idequeue) : idequeue[j] \in Bufs \ {b}
  BY <1>4, InUse, Zenon
<1>11. Queued'
  <2>1. \A j \in 1 .. Len(idequeue) : \E q \in Procs : pc'[q] = "iowait" /\ cur'[q] = idequeue[j]
    <3> SUFFICES ASSUME NEW j \in 1 .. Len(idequeue)
                 PROVE  \E q \in Procs : pc'[q] = "iowait" /\ cur'[q] = idequeue[j]
      BY Zenon
    <3>1. PICK q \in Procs : pc[q] = "iowait" /\ cur[q] = idequeue[j]
      BY Zenon DEF DInv, Queued
    <3>2. q # p
      BY <1>2, <3>1
    <3> QED
      BY <1>5, <3>1, <3>2, Zenon
  <2>2. \A j \in 1 .. Len(idequeue) : flags'[idequeue[j]] = flags[idequeue[j]]
    BY <1>5, <1>10, Zenon
  <2>3. \A j \in 1 .. Len(idequeue) : VALID \in flags'[idequeue[j]] => DIRTY \in flags'[idequeue[j]]
    BY <2>2, Zenon DEF DInv, Queued
  <2>4. \A j, k \in 1 .. Len(idequeue) : idequeue[j] = idequeue[k] => j = k
    BY Zenon DEF DInv, Queued
  <2>5. idequeue' = idequeue
    BY <1>2, Zenon
  <2> QED
    BY <2>1, <2>3, <2>4, <2>5, Zenon DEF Queued
<1>12. Active'
  <2>1. idequeue # <<>> => Head(idequeue) \in Bufs \ {b}
    <3>1. idequeue # <<>> => 1 \in 1 .. Len(idequeue) /\ Head(idequeue) = idequeue[1]
      BY DEF DInv, DTypes
    <3> QED
      BY <1>10, <3>1, Zenon
  <2> QED
    BY <1>2, <1>5, <2>1, Zenon DEF DInv, Active
<1>13. Agree'
  <2>1. \A c \in Bufs : DIRTY \in flags'[c] => VALID \in flags'[c]
    BY <1>5, Zenon DEF DInv, Agree
  <2>2. ASSUME NEW c \in Bufs, VALID \in flags'[c] PROVE data[c] = latest[blockno'[c]]
    <3>1. c # b /\ flags'[c] = flags[c] /\ blockno'[c] = blockno[c]
      BY <1>5, <2>2, Zenon
    <3> QED
      BY <2>2, <3>1, Zenon DEF DInv, Agree
  <2>3. ASSUME NEW m \in Blocks, \A c \in Bufs : blockno'[c] = m => DIRTY \notin flags'[c]
        PROVE  disk[m] = latest[m]
    <3>1. \A c \in Bufs : blockno[c] = m => DIRTY \notin flags[c]
      BY <1>1, <1>3, <1>5, <2>3, Zenon DEF Cached
    <3> QED
      BY <3>1, Zenon DEF DInv, Agree
  <2> QED
    BY <1>2, <2>1, <2>2, <2>3, Zenon DEF Agree
<1>14. Filled'
  <2>1. \A c \in held[p] : VALID \in flags[c]
    <3>1. pc[p] \notin {"iderw", "iowait"}
      BY <1>2
    <3> QED
      BY <3>1, Zenon DEF DInv, Filled
  <2>2. \A q \in Procs : \A c \in held[q] : flags'[c] = flags[c]
    BY <1>5, <1>6, InUse, ZenonT(30)
  <2>3. ASSUME NEW q \in Procs, NEW c \in held[q]
        PROVE  VALID \in flags'[c] \/ (cur'[q] = c /\ pc'[q] \in {"iderw", "iowait"})
    <3>1. CASE q = p
      BY <2>1, <2>2, <3>1, Zenon
    <3>2. CASE q # p
      <4>1. pc'[q] = pc[q] /\ cur'[q] = cur[q] /\ flags'[c] = flags[c]
        BY <1>5, <2>2, <3>2, Zenon
      <4> QED
        BY <4>1, Zenon DEF DInv, Filled
    <3> QED
      BY <3>1, <3>2, Zenon
  <2> QED
    BY <1>2, <2>3, Zenon DEF Filled
<1> QED
  BY <1>7, <1>8, <1>9, <1>11, <1>12, <1>13, <1>14, Zenon DEF DInv

\* A process stores into a buffer that it holds: nobody else does, and the
\* buffer is not queued.
LEMMA StoreData ==
  ASSUME BInv, DInv, NEW p \in Procs, NEW b \in Bufs, NEW v \in Vals, Bwrite(p, b, v) \/ LogWrite(p, b, v)
  PROVE  DInv'
<1>1. /\ pc[p] = "run" /\ b \in held[p]
      /\ data' = [data EXCEPT ![b] = v]
      /\ flags' = [flags EXCEPT ![b] = @ \cup {DIRTY}]
      /\ latest' = [latest EXCEPT ![blockno[b]] = v]
      /\ UNCHANGED <<blockno, idequeue, ctl, disk, owner, held>>
  BY Zenon DEF Bwrite, LogWrite, Store, ideVars, lockVars
<1>2. \A q \in Procs \ {p} : pc'[q] = pc[q] /\ cur'[q] = cur[q]
  BY Zenon DEF Bwrite, LogWrite, Goto, BInv, Types
<1>3. pc'[p] \in {"run", "iderw"}
  BY <1>1, Zenon DEF Bwrite, LogWrite, Goto, BInv, Types
<1>4. blockno[b] \in Blocks
  BY <1>1, InUse, Zenon
<1>5. /\ data'[b] = v /\ flags'[b] = flags[b] \cup {DIRTY} /\ latest'[blockno[b]] = v
      /\ \A c \in Bufs \ {b} : data'[c] = data[c] /\ flags'[c] = flags[c]
      /\ \A m \in Blocks \ {blockno[b]} : latest'[m] = latest[m]
  BY <1>1, <1>4, Zenon DEF DInv, DTypes
<1>6. VALID \in flags[b]
  BY <1>1, Zenon DEF DInv, Filled
<1>7. \A j \in 1 .. Len(idequeue) : idequeue[j] \in Bufs \ {b}
  BY <1>1, InUse
<1>8. DTypes'
  BY <1>1, <1>4 DEF DInv, DTypes
<1>9. Owned'
  BY <1>1, Zenon DEF DInv, Owned
<1>10. HasBlock'
  <2>1. blockno[b] # None
    BY <1>4, BcacheAssumption, Zenon
  <2>2. \A c \in Bufs : c # b => Users(c)' \subseteq Users(c)
    BY <1>1, <1>2, <1>3 DEF Users
  <2> QED
    BY <1>1, <1>5, <2>1, <2>2, Zenon DEF DInv, HasBlock
<1>11. Queued'
  <2>1. ASSUME NEW j \in 1 .. Len(idequeue)
        PROVE  \E q \in Procs : pc'[q] = "iowait" /\ cur'[q] = idequeue[j]
    <3>1. PICK q \in Procs : pc[q] = "iowait" /\ cur[q] = idequeue[j]
      BY Zenon DEF DInv, Queued
    <3>2. q # p
      BY <1>1, <3>1
    <3> QED
      BY <1>2, <3>1, <3>2, Zenon
  <2>2. \A j \in 1 .. Len(idequeue) : flags'[idequeue[j]] = flags[idequeue[j]]
    BY <1>5, <1>7, Zenon
  <2>3. \A i \in 1 .. Len(idequeue) :
          /\ \E q \in Procs : pc'[q] = "iowait" /\ cur'[q] = idequeue[i]
          /\ VALID \in flags'[idequeue[i]] => DIRTY \in flags'[idequeue[i]]
    BY <2>1, <2>2, Zenon DEF DInv, Queued
  <2>4. \A i, j \in 1 .. Len(idequeue) : idequeue[i] = idequeue[j] => i = j
    BY Zenon DEF DInv, Queued
  <2>5. idequeue' = idequeue
    BY <1>1, Zenon
  <2> QED
    BY <2>3, <2>4, <2>5, Zenon DEF Queued
<1>12. Active'
  <2>1. idequeue # <<>> => Head(idequeue) \in Bufs \ {b}
    <3>1. idequeue # <<>> => 1 \in 1 .. Len(idequeue) /\ Head(idequeue) = idequeue[1]
      BY DEF DInv, DTypes
    <3> QED
      BY <1>7, <3>1, Zenon
  <2>2. ctl' = ctl /\ idequeue' = idequeue /\ disk' = disk /\ blockno' = blockno
    BY <1>1, Zenon
  <2>3. idequeue # <<>> => flags'[Head(idequeue)] = flags[Head(idequeue)] /\ data'[Head(idequeue)] = data[Head(idequeue)]
    BY <1>5, <2>1, Zenon
  <2> QED
    BY <2>2, <2>3, Zenon DEF DInv, Active
<1>13. Agree'
  <2>1. \A c \in Bufs : DIRTY \in flags'[c] => VALID \in flags'[c]
    BY <1>5, <1>6, Zenon DEF DInv, Agree
  <2>2. ASSUME NEW c \in Bufs, VALID \in flags'[c] PROVE data'[c] = latest'[blockno[c]]
    <3>1. CASE c = b
      BY <1>5, <3>1
    <3>2. CASE c # b
      <4>1. VALID \in flags[c] /\ data'[c] = data[c]
        BY <1>5, <2>2, <3>2, Zenon
      <4>2. blockno[c] \in Blocks
        BY <4>1, Zenon DEF BInv, Types, DInv, HasBlock
      <4>3. blockno[c] # blockno[b]
        BY <1>4, <3>2, BcacheAssumption, Zenon DEF BInv, OneBufPerBlock
      <4> QED
        BY <1>5, <4>1, <4>2, <4>3, Zenon DEF DInv, Agree
    <3> QED
      BY <3>1, <3>2
  <2>3. ASSUME NEW m \in Blocks, \A c \in Bufs : blockno[c] = m => DIRTY \notin flags'[c]
        PROVE  disk[m] = latest'[m]
    <3>1. m # blockno[b]
      BY <1>5, <2>3, Zenon
    <3>2. \A c \in Bufs : blockno[c] = m => DIRTY \notin flags[c]
      BY <1>5, <2>3, <3>1, Zenon
    <3> QED
      BY <1>5, <3>1, <3>2, Zenon DEF DInv, Agree
  <2> QED
    BY <1>1, <2>1, <2>2, <2>3, Zenon DEF Agree
<1>14. Filled'
  <2>1. \A c \in held[p] : c \in Bufs /\ VALID \in flags'[c]
    <3>1. \A c \in held[p] : c \in Bufs /\ VALID \in flags[c]
      BY <1>1, InUse, SMTT(20) DEF DInv, Filled
    <3> QED
      BY <1>5, <3>1, ZenonT(30)
  <2>2. \A q \in Procs : \A c \in held[q] : VALID \in flags[c] => VALID \in flags'[c]
    BY <1>5, InUse
  <2>3. ASSUME NEW q \in Procs, NEW c \in held[q]
        PROVE  VALID \in flags'[c] \/ (cur'[q] = c /\ pc'[q] \in {"iderw", "iowait"})
    <3>1. CASE q = p
      BY <2>1, <3>1, Zenon
    <3>2. CASE q # p
      <4>1. pc'[q] = pc[q] /\ cur'[q] = cur[q]
        BY <1>2, <3>2, Zenon
      <4> QED
        BY <2>2, <4>1, Zenon DEF DInv, Filled
    <3> QED
      BY <3>1, <3>2, Zenon
  <2> QED
    BY <1>1, <2>3, Zenon DEF Filled
<1> QED
  BY <1>8, <1>9, <1>10, <1>11, <1>12, <1>13, <1>14, Zenon DEF DInv

\* iderw appends the buffer of a process that holds it.
LEMMA IderwData ==
  ASSUME BInv, DInv, NEW p \in Procs, Iderw(p)
  PROVE  DInv'
<1>0. PICK b : b = cur[p]
  BY Zenon
<1>1. /\ pc[p] = "iderw" /\ ~(VALID \in flags[b] /\ DIRTY \notin flags[b])
      /\ idequeue' = Append(idequeue, b)
      /\ ctl' = IF idequeue = <<>> THEN idestart(b, flags[b]) ELSE ctl
      /\ pc' = [pc EXCEPT ![p] = "iowait"]
      /\ UNCHANGED <<flags, data, disk, blockno, owner, cur, held, latest>>
  BY <1>0, ZenonT(30) DEF Iderw, iderw, Goto, lockVars
<1>2. b \in Bufs /\ b \in held[p]
  BY <1>0, <1>1 DEF BInv, InOut
<1>3. pc'[p] = "iowait" /\ \A q \in Procs \ {p} : pc'[q] = pc[q]
  BY <1>1, Zenon DEF BInv, Types
<1>4. /\ Len(idequeue) \in Nat /\ Len(idequeue') = Len(idequeue) + 1
      /\ \A i \in 1 .. Len(idequeue) : idequeue'[i] = idequeue[i]
      /\ idequeue'[Len(idequeue) + 1] = b
  BY <1>1, <1>2 DEF DInv, DTypes
<1>5. \A i \in 1 .. Len(idequeue) : idequeue[i] # b
  BY <1>1, <1>2, InUse
<1>6. DTypes'
  BY <1>1, <1>2 DEF DInv, DTypes
<1>7. Owned'
  BY <1>1, Zenon DEF DInv, Owned
<1>8. HasBlock'
  <2>1. \A c \in Bufs : Users(c)' \subseteq Users(c)
    BY <1>1, <1>3 DEF Users
  <2> QED
    BY <1>1, <2>1, Zenon DEF DInv, HasBlock
<1>9. \A i \in 1 .. Len(idequeue') : i = Len(idequeue) + 1 \/ i \in 1 .. Len(idequeue)
  BY <1>4
<1>10. Queued'
  <2>1. \A i, j \in 1 .. Len(idequeue') : idequeue'[i] = idequeue'[j] => i = j
    <3>1. \A i, j \in 1 .. Len(idequeue) : idequeue[i] = idequeue[j] => i = j
      BY Zenon DEF DInv, Queued
    <3> QED
      BY <1>4, <1>5, <1>9, <3>1, Zenon
  <2>2. ASSUME NEW i \in 1 .. Len(idequeue')
        PROVE  /\ \E q \in Procs : pc'[q] = "iowait" /\ cur[q] = idequeue'[i]
               /\ VALID \in flags[idequeue'[i]] => DIRTY \in flags[idequeue'[i]]
    <3>1. CASE i = Len(idequeue) + 1
      BY <1>0, <1>1, <1>3, <1>4, <3>1, Zenon
    <3>2. CASE i \in 1 .. Len(idequeue)
      <4>1. PICK q \in Procs : pc[q] = "iowait" /\ cur[q] = idequeue[i]
        BY <3>2, Zenon DEF DInv, Queued
      <4>2. pc'[q] = "iowait"
        BY <1>3, <4>1, Zenon
      <4>3. idequeue'[i] = idequeue[i]
        BY <1>4, <3>2, Zenon
      <4> QED
        BY <3>2, <4>1, <4>2, <4>3, Zenon DEF DInv, Queued
    <3> QED
      BY <1>9, <3>1, <3>2, Zenon
  <2> QED
    BY <1>1, <2>1, <2>2, Zenon DEF Queued
<1>11. Active'
  <2>1. idequeue' # <<>>
    BY <1>4, <1>6 DEF DTypes
  <2>2. CASE idequeue = <<>>
    <3>1. Head(idequeue') = b
      BY <1>1, <1>2, <2>2 DEF DInv, DTypes
    <3>2. ctl' = [buf |-> b, block |-> blockno[b], done |-> FALSE, data |-> data[b],
                  cmd |-> IF DIRTY \in flags[b] THEN "write" ELSE "read"]
      BY <1>1, <2>2, Zenon DEF idestart
    <3>3. /\ DOMAIN ctl' = {"buf", "block", "done", "data", "cmd"}
          /\ ctl'.block = blockno[b] /\ ctl'.data = data[b]
          /\ ctl'.cmd = IF DIRTY \in flags[b] THEN "write" ELSE "read"
      BY <3>2, Zenon
    <3>4. ~ctl'.done
      BY <3>2, Zenon
    <3> QED
      BY <1>1, <2>1, <3>1, <3>3, <3>4, Zenon DEF Active
  <2>3. CASE idequeue # <<>>
    <3>1. Head(idequeue') = Head(idequeue)
      BY <1>1, <1>2, <2>3 DEF DInv, DTypes
    <3>2. ctl' = ctl
      BY <1>1, <2>3, Zenon
    <3> QED
      BY <1>1, <2>1, <3>1, <3>2, Zenon DEF DInv, Active
  <2> QED
    BY <2>2, <2>3
<1>12. Agree'
  BY <1>1, Zenon DEF DInv, Agree
<1>13. Filled'
  <2>1. ASSUME NEW q \in Procs, NEW c \in held[q]
        PROVE  VALID \in flags[c] \/ (cur[q] = c /\ pc'[q] \in {"iderw", "iowait"})
    BY <1>3, Zenon DEF DInv, Filled
  <2> QED
    BY <1>1, <2>1, Zenon DEF Filled
<1> QED
  BY <1>6, <1>7, <1>8, <1>10, <1>11, <1>12, <1>13, Zenon DEF DInv

\* iderw returns with a buffer that has its contents and is not queued.
LEMMA IderwReturnsData ==
  ASSUME BInv, DInv, NEW p \in Procs, IderwReturns(p)
  PROVE  DInv'
<1>1. /\ pc[p] = "iowait" /\ VALID \in flags[cur[p]] /\ DIRTY \notin flags[cur[p]]
      /\ pc' = [pc EXCEPT ![p] = "run"] /\ cur' = [cur EXCEPT ![p] = None]
      /\ UNCHANGED <<flags, data, blockno, idequeue, ctl, disk, owner, held, latest>>
  BY Zenon DEF IderwReturns, IderwDone, Return, Goto, lockVars, ideVars
<1>2. /\ pc'[p] = "run"
      /\ \A q \in Procs \ {p} : pc'[q] = pc[q] /\ cur'[q] = cur[q]
  BY <1>1, Zenon DEF BInv, Types
<1>3. DTypes' /\ Owned' /\ Agree' /\ Active'
  BY <1>1, Zenon DEF DInv, DTypes, Owned, Agree, Active
<1>4. HasBlock'
  <2>1. \A c \in Bufs : Users(c)' \subseteq Users(c)
    BY <1>1, <1>2, Zenon DEF Users
  <2> QED
    BY <1>1, <2>1, Zenon DEF DInv, HasBlock
<1>5. Queued'
  <2>1. ASSUME NEW i \in 1 .. Len(idequeue)
        PROVE  /\ \E q \in Procs : pc'[q] = "iowait" /\ cur'[q] = idequeue[i]
               /\ VALID \in flags[idequeue[i]] => DIRTY \in flags[idequeue[i]]
    <3>1. PICK q \in Procs : pc[q] = "iowait" /\ cur[q] = idequeue[i]
      BY Zenon DEF DInv, Queued
    <3>2. VALID \in flags[idequeue[i]] => DIRTY \in flags[idequeue[i]]
      BY Zenon DEF DInv, Queued
    <3>3. q # p
      BY <1>1, <3>1, <3>2, Zenon
    <3> QED
      BY <1>2, <3>1, <3>2, <3>3, Zenon
  <2>2. \A i, j \in 1 .. Len(idequeue) : idequeue[i] = idequeue[j] => i = j
    BY Zenon DEF DInv, Queued
  <2>3. idequeue' = idequeue /\ flags' = flags
    BY <1>1, Zenon
  <2> QED
    BY <2>1, <2>2, <2>3, Zenon DEF Queued
<1>6. Filled'
  <2>1. ASSUME NEW q \in Procs, NEW c \in held[q]
        PROVE  VALID \in flags[c] \/ (cur'[q] = c /\ pc'[q] \in {"iderw", "iowait"})
    <3>1. CASE q = p
      BY <1>1, <3>1, Zenon DEF DInv, Filled
    <3>2. CASE q # p
      BY <1>2, <3>2, Zenon DEF DInv, Filled
    <3> QED
      BY <3>1, <3>2, Zenon
  <2> QED
    BY <1>1, <2>1, Zenon DEF Filled
<1> QED
  BY <1>3, <1>4, <1>5, <1>6, Zenon DEF DInv

\* What the controller's request is about.
LEMMA TheRequest ==
  ASSUME BInv, DInv, ctl # None
  PROVE  LET b == idequeue[1] IN
         /\ idequeue # <<>> /\ 1 \in 1 .. Len(idequeue) /\ Head(idequeue) = b
         /\ b \in Bufs /\ blockno[b] \in Blocks
         /\ DOMAIN ctl = {"buf", "block", "done", "data", "cmd"}
         /\ ctl.block = blockno[b]
         /\ ctl.cmd = (IF DIRTY \in flags[b] THEN "write" ELSE "read")
         /\ DIRTY \in flags[b] => ctl.data = data[b] /\ data[b] = latest[blockno[b]]
         /\ DIRTY \notin flags[b] => disk[blockno[b]] = latest[blockno[b]]
         /\ ctl.done => disk[blockno[b]] = ctl.data
<1> DEFINE b == idequeue[1]
<1>1. idequeue # <<>>
  BY Zenon DEF DInv, Active
<1>2. 1 \in 1 .. Len(idequeue) /\ Head(idequeue) = b
  BY <1>1 DEF DInv, DTypes
<1>3. b \in Bufs /\ blockno[b] \in Blocks
  BY <1>2, InUse, Zenon
<1>4. /\ DOMAIN ctl = {"buf", "block", "done", "data", "cmd"}
      /\ ctl.block = blockno[b]
      /\ ctl.cmd = (IF DIRTY \in flags[b] THEN "write" ELSE "read")
      /\ DIRTY \in flags[b] => ctl.data = data[b]
      /\ ctl.done => disk[ctl.block] = ctl.data
  BY <1>2, Zenon DEF DInv, Active
<1>5. DIRTY \in flags[b] => data[b] = latest[blockno[b]]
  BY <1>3, Zenon DEF DInv, Agree
<1>6. ASSUME DIRTY \notin flags[b] PROVE disk[blockno[b]] = latest[blockno[b]]
  <2>1. blockno[b] # None
    BY <1>3, BcacheAssumption, Zenon
  <2>2. \A c \in Bufs : blockno[c] = blockno[b] => c = b
    BY <1>3, <2>1, Zenon DEF BInv, OneBufPerBlock
  <2>3. \A c \in Bufs : blockno[c] = blockno[b] => DIRTY \notin flags[c]
    BY <1>6, <2>2, Zenon
  <2> QED
    BY <1>3, <2>3, Zenon DEF DInv, Agree
<1>7. ctl.done => disk[blockno[b]] = ctl.data
  BY <1>4, Zenon
<1> QED
  BY <1>1, <1>2, <1>3, <1>4, <1>5, <1>6, <1>7, Zenon

\* A write puts on the disk what was last stored in the block.
LEMMA TransferData ==
  ASSUME BInv, DInv, Transfer,
         UNCHANGED <<blockno, lockVars, refcnt, mru, pc, cur, held, panicked, latest>>
  PROVE  DInv'
<1> DEFINE b == idequeue[1]
<1>1. /\ ctl # None
      /\ disk' = IF ctl.cmd = "write" THEN [disk EXCEPT ![ctl.block] = ctl.data] ELSE disk
      /\ ctl' = [ctl EXCEPT !.done = TRUE,
                            !.data = IF ctl.cmd = "read" THEN disk[ctl.block] ELSE @]
      /\ UNCHANGED <<flags, data, idequeue, blockno, owner, pc, cur, held, latest>>
  BY Zenon DEF Transfer, lockVars
<1>2. /\ idequeue # <<>> /\ Head(idequeue) = b
      /\ b \in Bufs /\ blockno[b] \in Blocks
      /\ DOMAIN ctl = {"buf", "block", "done", "data", "cmd"}
      /\ ctl.block = blockno[b]
      /\ ctl.cmd = (IF DIRTY \in flags[b] THEN "write" ELSE "read")
      /\ DIRTY \in flags[b] => ctl.data = data[b] /\ data[b] = latest[blockno[b]]
      /\ DIRTY \notin flags[b] => disk[blockno[b]] = latest[blockno[b]]
  BY <1>1, TheRequest, Zenon
<1>3. /\ disk' \in [Blocks -> Vals]
      /\ \A n \in Blocks : n # blockno[b] => disk'[n] = disk[n]
      /\ disk'[blockno[b]] = latest[blockno[b]]
  <2>1. CASE DIRTY \in flags[b]
    <3>1. disk' = [disk EXCEPT ![blockno[b]] = data[b]]
      BY <1>1, <1>2, <2>1, Zenon
    <3>2. disk \in [Blocks -> Vals] /\ data[b] \in Vals
      BY <1>2, Zenon DEF DInv, DTypes
    <3> HIDE DEF b
    <3> QED
      BY <1>2, <2>1, <3>1, <3>2
  <2>2. CASE DIRTY \notin flags[b]
    <3>1. ctl.cmd # "write"
      BY <1>2, <2>2
    <3>2. disk' = disk
      BY <1>1, <3>1, Zenon
    <3> QED
      BY <1>2, <2>2, <3>2, Zenon DEF DInv, DTypes
  <2> QED
    BY <2>1, <2>2, Zenon
<1>4. /\ DOMAIN ctl' = DOMAIN ctl /\ ctl'.block = ctl.block /\ ctl'.cmd = ctl.cmd
      /\ ctl'.data = IF ctl.cmd = "read" THEN disk[ctl.block] ELSE ctl.data
  BY <1>1, <1>2
<1>5. ctl'.data = latest[blockno[b]] /\ (DIRTY \in flags[b] => ctl'.data = data[b])
  <2>1. CASE DIRTY \in flags[b]
    <3>1. ctl.cmd # "read"
      BY <1>2, <2>1
    <3> QED
      BY <1>2, <1>4, <2>1, <3>1, Zenon
  <2>2. CASE DIRTY \notin flags[b]
    BY <1>2, <1>4, <2>2, Zenon
  <2> QED
    BY <2>1, <2>2, Zenon
<1>6. DTypes'
  BY <1>1, <1>3, Zenon DEF DInv, DTypes
<1>7. Owned' /\ HasBlock' /\ Filled' /\ Queued'
  <2>1. \A c \in Bufs : Users(c)' = Users(c)
    BY <1>1, Zenon DEF Users
  <2>2. HasBlock'
    BY <1>1, <2>1, Zenon DEF DInv, HasBlock
  <2>3. owner' = owner /\ held' = held /\ flags' = flags /\ cur' = cur /\ pc' = pc /\ idequeue' = idequeue
    BY <1>1, Zenon
  <2>4. Owned'
    BY <2>3, Zenon DEF DInv, Owned
  <2>5. Filled'
    BY <2>3, Zenon DEF DInv, Filled
  <2>6. Queued'
    <3>1. Queued
      BY Zenon DEF DInv
    <3> QED
      BY <2>3, <3>1, ZenonT(30) DEF Queued
  <2> QED
    BY <2>2, <2>4, <2>5, <2>6, Zenon
<1>9. Active'
  BY <1>1, <1>2, <1>3, <1>4, <1>5, Zenon DEF Active
<1>10. Agree'
  <2>1. \A n \in Blocks :
          (\A c \in Bufs : blockno[c] = n => DIRTY \notin flags[c]) => disk'[n] = latest[n]
    BY <1>3, Zenon DEF DInv, Agree
  <2>2. /\ \A c \in Bufs : DIRTY \in flags[c] => VALID \in flags[c]
        /\ \A c \in Bufs : VALID \in flags[c] => data[c] = latest[blockno[c]]
    BY Zenon DEF DInv, Agree
  <2>3. flags' = flags /\ data' = data /\ blockno' = blockno /\ latest' = latest
    BY <1>1, Zenon
  <2> QED
    BY <2>1, <2>2, <2>3, Zenon DEF Agree
<1> QED
  BY <1>6, <1>7, <1>9, <1>10, Zenon DEF DInv

\* The interrupt: the first queued buffer and the disk have what was last stored
\* in the block.
LEMMA IdeintrData ==
  ASSUME BInv, DInv, ideintr,
         UNCHANGED <<blockno, lockVars, refcnt, mru, pc, cur, held, panicked, latest>>
  PROVE  DInv'
<1>0. PICK b : b = idequeue[1]
  BY Zenon
<1>1. /\ ctl # None /\ ctl.done
      /\ idequeue' = Tail(idequeue)
      /\ data' = IF DIRTY \in flags[Head(idequeue)] THEN data
                 ELSE [data EXCEPT ![Head(idequeue)] = ctl.data]
      /\ flags' = [flags EXCEPT ![Head(idequeue)] = (@ \cup {VALID}) \ {DIRTY}]
      /\ ctl' = IF Tail(idequeue) = <<>> THEN None
                ELSE idestart(Head(Tail(idequeue)), flags[Head(Tail(idequeue))])
      /\ UNCHANGED <<disk, blockno, owner, pc, cur, held, latest>>
  BY Zenon DEF ideintr, lockVars
<1>2. /\ idequeue # <<>> /\ 1 \in 1 .. Len(idequeue) /\ Head(idequeue) = b
      /\ b \in Bufs /\ blockno[b] \in Blocks
      /\ DIRTY \in flags[b] => data[b] = latest[blockno[b]]
      /\ disk[blockno[b]] = ctl.data
      /\ disk[blockno[b]] = latest[blockno[b]]
  BY <1>0, <1>1, TheRequest, Zenon
<1>3. /\ flags \in [Bufs -> SUBSET {VALID, DIRTY}] /\ data \in [Bufs -> Vals]
      /\ disk \in [Blocks -> Vals] /\ idequeue \in Seq(Bufs)
  BY Zenon DEF DInv, DTypes
<1>4. /\ flags' \in [Bufs -> SUBSET {VALID, DIRTY}]
      /\ VALID \in flags'[b] /\ DIRTY \notin flags'[b]
      /\ \A c \in Bufs : c # b => flags'[c] = flags[c]
  BY <1>1, <1>2, <1>3 DEF VALID, DIRTY
<1>5. /\ data' \in [Bufs -> Vals]
      /\ data'[b] = latest[blockno[b]]
      /\ \A c \in Bufs : c # b => data'[c] = data[c]
  <2>1. CASE DIRTY \in flags[b]
    BY <1>1, <1>2, <1>3, <2>1, Zenon
  <2>2. CASE DIRTY \notin flags[b]
    <3>1. data' = [data EXCEPT ![b] = ctl.data]
      BY <1>1, <1>2, <2>2, Zenon
    <3>2. ctl.data \in Vals /\ ctl.data = latest[blockno[b]]
      BY <1>2, <1>3, Zenon
    <3> QED
      BY <1>2, <1>3, <3>1, <3>2
  <2> QED
    BY <2>1, <2>2, Zenon
<1>6. /\ idequeue' \in Seq(Bufs) /\ Len(idequeue) \in Nat
      /\ Len(idequeue') = Len(idequeue) - 1
      /\ \A i \in 1 .. Len(idequeue') : i + 1 \in 1 .. Len(idequeue) /\ idequeue'[i] = idequeue[i + 1]
  BY <1>1, <1>2, <1>3
<1>7. \A i, j \in 1 .. Len(idequeue) : idequeue[i] = idequeue[j] => i = j
  BY Zenon DEF DInv, Queued
<1>8. ASSUME NEW i \in 1 .. Len(idequeue')
      PROVE  idequeue'[i] # b /\ idequeue'[i] \in Bufs
  <2>1. i + 1 # 1
    BY <1>6
  <2>2. i + 1 \in 1 .. Len(idequeue) /\ idequeue'[i] = idequeue[i + 1]
    BY <1>6, Zenon
  <2>3. idequeue[i + 1] # b
    BY <1>0, <1>2, <1>7, <2>1, <2>2, Zenon
  <2>4. idequeue[i + 1] \in Bufs
    BY <2>2, InUse, Zenon
  <2> QED
    BY <2>2, <2>3, <2>4, Zenon
<1>9. DTypes'
  BY <1>1, <1>4, <1>5, <1>6, Zenon DEF DInv, DTypes
<1>10. Owned'
  BY <1>1, Zenon DEF DInv, Owned
<1>11. HasBlock'
  <2>1. blockno[b] # None
    BY <1>2, BcacheAssumption, Zenon
  <2>2. \A c \in Bufs : Users(c)' = Users(c)
    BY <1>1, Zenon DEF Users
  <2> QED
    BY <1>1, <1>4, <2>1, <2>2, Zenon DEF DInv, HasBlock
<1>12. Queued'
  <2>1. ASSUME NEW i \in 1 .. Len(idequeue'), NEW j \in 1 .. Len(idequeue'), idequeue'[i] = idequeue'[j]
        PROVE  i = j
    <3>1. i + 1 = j + 1
      BY <1>6, <1>7, <2>1, Zenon
    <3> QED
      BY <3>1
  <2>2. ASSUME NEW i \in 1 .. Len(idequeue')
        PROVE  /\ \E q \in Procs : pc[q] = "iowait" /\ cur[q] = idequeue'[i]
               /\ VALID \in flags'[idequeue'[i]] => DIRTY \in flags'[idequeue'[i]]
    <3>1. PICK k \in 1 .. Len(idequeue) : idequeue'[i] = idequeue[k]
      BY <1>6, Zenon
    <3>2. flags'[idequeue'[i]] = flags[idequeue'[i]]
      BY <1>4, <1>8, Zenon
    <3>3. /\ \E q \in Procs : pc[q] = "iowait" /\ cur[q] = idequeue[k]
          /\ VALID \in flags[idequeue[k]] => DIRTY \in flags[idequeue[k]]
      BY Zenon DEF DInv, Queued
    <3> QED
      BY <3>1, <3>2, <3>3, Zenon
  <2>3. pc' = pc /\ cur' = cur
    BY <1>1, Zenon
  <2> QED
    BY <2>1, <2>2, <2>3, Zenon DEF Queued
<1>13. Active'
  <2>1. CASE Tail(idequeue) = <<>>
    BY <1>1, <2>1, Zenon DEF Active
  <2>2. CASE Tail(idequeue) # <<>>
    <3>0. PICK c : c = Head(idequeue')
      BY Zenon
    <3>1. 1 \in 1 .. Len(idequeue') /\ c = idequeue'[1]
      BY <1>1, <1>6, <2>2, <3>0
    <3>2. c \in Bufs /\ c # b
      BY <1>8, <3>1, Zenon
    <3>3. flags'[c] = flags[c] /\ data'[c] = data[c]
      BY <1>4, <1>5, <3>2, Zenon
    <3>4. ctl' = [buf |-> c, block |-> blockno[c], done |-> FALSE, data |-> data[c],
                  cmd |-> IF DIRTY \in flags[c] THEN "write" ELSE "read"]
      BY <1>1, <2>2, <3>0, Zenon DEF idestart
    <3>5. /\ DOMAIN ctl' = {"buf", "block", "done", "data", "cmd"}
          /\ ctl'.block = blockno[c] /\ ctl'.data = data[c]
          /\ ctl'.cmd = IF DIRTY \in flags[c] THEN "write" ELSE "read"
      BY <3>4, Zenon
    <3>6. ~ctl'.done
      BY <3>4, Zenon
    <3> QED
      BY <1>1, <2>2, <3>0, <3>3, <3>5, <3>6, Zenon DEF Active
  <2> QED
    BY <2>1, <2>2, Zenon
<1>14. Agree'
  <2>1. \A c \in Bufs : DIRTY \in flags'[c] => VALID \in flags'[c]
    BY <1>4, Zenon DEF DInv, Agree
  <2>2. ASSUME NEW c \in Bufs, VALID \in flags'[c] PROVE data'[c] = latest[blockno[c]]
    <3>1. CASE c = b
      BY <1>5, <3>1, Zenon
    <3>2. CASE c # b
      BY <1>4, <1>5, <2>2, <3>2, Zenon DEF DInv, Agree
    <3> QED
      BY <3>1, <3>2, Zenon
  <2>3. ASSUME NEW m \in Blocks, \A c \in Bufs : blockno[c] = m => DIRTY \notin flags'[c]
        PROVE  disk[m] = latest[m]
    <3>1. CASE m = blockno[b]
      BY <1>2, <3>1, Zenon
    <3>2. CASE m # blockno[b]
      <4>1. \A c \in Bufs : blockno[c] = m => DIRTY \notin flags[c]
        BY <1>4, <2>3, <3>2, Zenon
      <4> QED
        BY <4>1, Zenon DEF DInv, Agree
    <3> QED
      BY <3>1, <3>2, Zenon
  <2> QED
    BY <1>1, <2>1, <2>2, <2>3, Zenon DEF Agree
<1>15. Filled'
  <2>1. \A q \in Procs : \A c \in held[q] : VALID \in flags[c] => VALID \in flags'[c]
    BY <1>4, InUse, Zenon
  <2> QED
    BY <1>1, <2>1, ZenonT(30) DEF DInv, Filled
<1> QED
  BY <1>9, <1>10, <1>11, <1>12, <1>13, <1>14, <1>15, Zenon DEF DInv

\* Every step preserves it.
LEMMA NextDInv == BInv /\ DInv /\ [Next]_vars => DInv'
<1> SUFFICES ASSUME BInv, DInv, [Next]_vars PROVE DInv'
  BY Zenon
<1>1. ASSUME NEW p \in Procs, NEW n \in Blocks, Bread(p, n) PROVE DInv'
  <2>1. BgetHit(p, n) \/ BgetRecycle(p, n)
    BY <1>1, Zenon DEF Bread
  <2> QED
    BY <1>1, <2>1, HitData, RecycleData, Zenon
<1>2. ASSUME Disk PROVE DInv'
  BY <1>2, TransferData, IdeintrData, Zenon DEF Disk
<1>3. ASSUME UNCHANGED vars PROVE DInv'
  <2>1. UNCHANGED <<bufVars, ideVars, latest, owner, pc, cur, held>>
    BY <1>3, Zenon DEF vars, lockVars
  <2>2. \A c \in Bufs : Users(c)' = Users(c)
    BY <2>1, Zenon DEF Users
  <2>3. HasBlock'
    BY <2>1, <2>2, Zenon DEF DInv, HasBlock, bufVars
  <2>4. Owned' /\ Filled'
    BY <2>1, Zenon DEF DInv, Owned, Filled, bufVars
  <2> QED
    BY <2>1, <2>3, <2>4, QuietData, Zenon
<1> QED
  BY <1>1, <1>2, <1>3, IdleData, LocksData, IderwData, IderwReturnsData, StoreData, BrelseData, Zenon
  DEF Next, Step, Halted

\* Whoever has returned from bread (bio.c) holds the lock of the buffer alone and
\* finds in it what was last stored in the block, across recycling and the disk.
THEOREM HolderHasLatest == Spec => []HolderSeesLatest
<1>1. BInv /\ DInv => HolderSeesLatest
  <2> SUFFICES ASSUME BInv, DInv, NEW p \in Procs, NEW b \in held[p]
               PROVE  /\ owner[b] = p
                      /\ VALID \in flags[b] => data[b] = latest[blockno[b]]
                      /\ pc[p] # "run" \/ VALID \in flags[b]
    BY Zenon DEF HolderSeesLatest
  <2>1. b \in Bufs
    BY InUse, Zenon
  <2>2. owner[b] = p /\ (VALID \in flags[b] => data[b] = latest[blockno[b]])
    BY <2>1, Zenon DEF DInv, Owned, Agree
  <2>3. pc[p] # "run" \/ VALID \in flags[b]
    BY Zenon DEF DInv, Filled
  <2> QED
    BY <2>2, <2>3, Zenon
<1> QED
  BY <1>1, InitBInv, NextBInv, InitDInv, NextDInv, PTL DEF Spec
=============================================================================
