------------------------------ MODULE BlockMap -------------------------------
(***************************************************************************)
(* The blocks of files: the bitmap, bmap with its direct, single, double   *)
(* and triple indirect blocks, readi, writei and itrunc (fs.c), and the    *)
(* image that mkfs leaves (mkfs.c).                                        *)
(*                                                                         *)
(* Files are read and written in whole blocks.  What a block holds is      *)
(* ptr, its words, and data, which names the file block last written to    *)
(* it.  An inode in use has its addresses in memory, addrs, and on disk,   *)
(* dinode, which only iupdate brings up to date.                           *)
(*                                                                         *)
(* An operation is one step: the locks of the inode and of the bitmap      *)
(* block are held while their contents change, so two operations on        *)
(* different inodes differ from one after the other only in the numbers of *)
(* the blocks they get.                                                    *)
(***************************************************************************)
EXTENDS Integers, FiniteSets, SequencesExt

CONSTANTS
  Inos,         \* inodes
  NDIRECT, NINDIRECT,
  FSSIZE,       \* blocks of the disk
  nmeta,        \* those of the boot block, super block, log, inodes and bitmap
  BPB,          \* bits of a bitmap block
  MAXOPBLOCKS,  \* blocks that a transaction may log
  max,          \* blocks full of bytes that filewrite writes in a transaction
  Writes,       \* <<i, bn, n>>: the writes of n blocks from bn on,
  Reads,        \* and <<i, bn>>, the reads of a block
  Reach,        \* bound: blocks of a file that the calls reach, none of them
                \* beyond the first subtree of the triple indirect block
  MaxLost,      \* bound: blocks already lost when a file is opened again
  Beyond,       \* what memory behind a buffer holds
  Sizes         \* what mkfs may store: the size of each file, in blocks

NDBLINDIRECT == NINDIRECT * NINDIRECT
NTPLINDIRECT == NINDIRECT * NINDIRECT * NINDIRECT
MAXFILE == NDIRECT + NINDIRECT + NDBLINDIRECT + NTPLINDIRECT
Blocks == 0 .. FSSIZE - 1

ASSUME BlockMapAssumption ==
  /\ {NDIRECT, NINDIRECT, nmeta, BPB, max} \subseteq Nat \ {0}
  /\ Reach <= NDIRECT + NINDIRECT + 2 * NDBLINDIRECT
  /\ \A z \in Sizes, i \in Inos : z[i] <= NDIRECT + NINDIRECT
  /\ nmeta <= FSSIZE

VARIABLES
  fs,           \* [used, ptr, data, addrs, dinode, size, logged, panic]
  wrote,        \* history: what became of each file block
  lost          \* history: blocks that no inode names any more

vars == <<fs, wrote, lost>>

Zero == [k \in 0 .. NINDIRECT - 1 |-> 0]
None == <<0, 0>>
Stale == <<0, 1>>

-----------------------------------------------------------------------------
\* The bitmap

Logs(f, blocks) == [f EXCEPT !.logged = @ \cup blocks]
BBLOCK(b) == <<"bitmap", b \div BPB>>

\* The first free block, zeroed; 0 after panic("balloc: out of blocks").
balloc(f) ==
  LET free == Blocks \ f.used  b == CHOOSE x \in free : \A y \in free : x <= y
  IN  IF f.panic \/ free = {} THEN [fs |-> [f EXCEPT !.panic = TRUE], addr |-> 0]
      ELSE [fs |-> Logs([f EXCEPT !.used = @ \cup {b}, !.ptr[b] = Zero, !.data[b] = None],
                        {BBLOCK(b), <<"block", b>>}),
            addr |-> b]

\* A free block still holds what its last owner left in it, which Stale and
\* words that are not 0 stand for.  panic("freeing free block")
bfree(f, b) ==
  IF b \notin f.used THEN [f EXCEPT !.panic = TRUE]
  ELSE Logs([f EXCEPT !.used = @ \ {b}, !.data[b] = Stale, !.ptr[b] = [k \in DOMAIN Zero |-> b]],
            {BBLOCK(b)})

-----------------------------------------------------------------------------
\* bmap

\* ip->addrs[k], allocated if there is none.
Addr(f, i, k) ==
  LET r == balloc(f)
  IN  IF f.addrs[i][k] # 0 THEN [fs |-> f, addr |-> f.addrs[i][k]]
      ELSE [fs |-> [r.fs EXCEPT !.addrs[i][k] = r.addr], addr |-> r.addr]

\* Word k of the block r.addr, with the value read, allocated into word s if
\* that is 0.
Word(r, read, s) ==
  LET n == balloc(r.fs)
  IN  IF read # 0 THEN [fs |-> r.fs, addr |-> read]
      ELSE IF n.fs.panic THEN n
      ELSE [fs |-> Logs([n.fs EXCEPT !.ptr[r.addr][s] = n.addr], {<<"block", r.addr>>}), addr |-> n.addr]

Entry(r, k) == Word(r, r.fs.ptr[r.addr][k], k)

MutSecond(r, bn, g) == Entry(r, bn % NINDIRECT)

\* The second level below the triple indirect block: word bn/NINDIRECT is
\* tested, which lies behind the block from the second subtree on.
Second(r, bn, g) ==
  LET k == bn \div NINDIRECT
  IN  Word(r, IF k < NINDIRECT THEN r.fs.ptr[r.addr][k] ELSE g, (bn % NDBLINDIRECT) \div NINDIRECT)

\* The address of block bn of inode i, and the state after it was allocated.
bmap(f, i, bn, g) ==
  LET n1 == bn - NDIRECT  n2 == n1 - NINDIRECT  n3 == n2 - NDBLINDIRECT
  IN  CASE n1 < 0 -> Addr(f, i, bn)
        [] n1 >= 0 /\ n2 < 0 -> Entry(Addr(f, i, NDIRECT), n1)
        [] n2 >= 0 /\ n3 < 0 ->
             Entry(Entry(Addr(f, i, NDIRECT + 1), n2 \div NINDIRECT), n2 % NINDIRECT)
        [] n3 >= 0 ->
             Entry(Second(Entry(Addr(f, i, NDIRECT + 2), n3 \div NDBLINDIRECT), n3, g), n3 % NINDIRECT)

\* One turn of the loop of writei.
Put(f, i, bn, g) ==
  LET r == bmap(f, i, bn, g)
  IN  IF r.fs.panic THEN r.fs
      ELSE Logs([r.fs EXCEPT !.data[r.addr] = <<i, bn>>], {<<"block", r.addr>>})

iupdate(f, i) == Logs([f EXCEPT !.dinode[i] = f.addrs[i]], {<<"inode", i>>})

\* writei of n blocks from bn on, also beyond the end of the file.  Only a
\* write that makes the file longer ends in iupdate.
writei(f, i, bn, n, g) ==
  LET put == FoldLeft(LAMBDA h, k : Put(h, i, bn + k - 1, g), f, [k \in 1 .. n |-> k])
  IN  IF bn + n > f.size[i] THEN iupdate([put EXCEPT !.size[i] = bn + n], i) ELSE put

-----------------------------------------------------------------------------
\* itrunc

Words(f, b) == SelectSeq([k \in 1 .. NINDIRECT |-> f.ptr[b][k - 1]], LAMBDA w : w # 0)
Single(f, b) == Append(Words(f, b), b)
Double(f, b) == Append(FlattenSeq([k \in DOMAIN Words(f, b) |-> Single(f, Words(f, b)[k])]), b)
MutTriple(f, b) == Append(FlattenSeq([k \in DOMAIN Words(f, b) |-> Single(f, Words(f, b)[k])]), b)
Triple(f, b) == Append(FlattenSeq([k \in DOMAIN Words(f, b) |-> Double(f, Words(f, b)[k])]), b)

\* The blocks below addrs[k], in the order in which itrunc frees them.
Below(f, i, k) ==
  LET b == f.addrs[i][k]
  IN  CASE b = 0 -> <<>>
        [] b # 0 /\ k < NDIRECT -> <<b>>
        [] b # 0 /\ k = NDIRECT -> Single(f, b)
        [] b # 0 /\ k = NDIRECT + 1 -> Double(f, b)
        [] b # 0 /\ k = NDIRECT + 2 -> Triple(f, b)
BlocksOf(f, i) == FlattenSeq([k \in 1 .. NDIRECT + 3 |-> Below(f, i, k - 1)])

NoAddrs == [k \in 0 .. NDIRECT + 2 |-> 0]
itrunc(f, i) ==
  iupdate([FoldLeft(bfree, f, BlocksOf(f, i)) EXCEPT !.addrs[i] = NoAddrs, !.size[i] = 0], i)

-----------------------------------------------------------------------------
\* mkfs

\* balloc of mkfs: the bitmap says that the blocks up to freeblock are used.
Image(f, free) == [f EXCEPT !.used = 0 .. free - 1]

\* iappend of block bn, from the blocks that follow one another on the disk.
iappend(m, i, bn) ==
  LET f == m.fs  b == m.freeblock IN
  IF bn < NDIRECT
    THEN [fs |-> [f EXCEPT !.addrs[i][bn] = b, !.data[b] = <<i, bn>>, !.size[i] = bn + 1],
          freeblock |-> b + 1]
    ELSE LET new == f.addrs[i][NDIRECT] = 0
             ind == IF new THEN b ELSE f.addrs[i][NDIRECT]
             x == IF new THEN b + 1 ELSE b
         IN  [fs |-> [f EXCEPT !.addrs[i][NDIRECT] = ind, !.ptr[ind][bn - NDIRECT] = x,
                               !.data[x] = <<i, bn>>, !.size[i] = bn + 1],
              freeblock |-> x + 1]

\* The disk with a file of the given size in each inode.
Formatted(sizes) ==
  LET blank == [used |-> {}, ptr |-> [b \in Blocks |-> Zero], data |-> [b \in Blocks |-> None],
                addrs |-> [i \in Inos |-> NoAddrs], dinode |-> [i \in Inos |-> NoAddrs], size |-> [i \in Inos |-> 0],
                logged |-> {}, panic |-> FALSE]
      File(m, i) == FoldLeft(LAMBDA h, k : iappend(h, i, k - 1), m, [k \in 1 .. sizes[i] |-> k])
      m == FoldLeft(File, [fs |-> blank, freeblock |-> nmeta], SetToSeq(Inos))
  IN  Image([m.fs EXCEPT !.dinode = m.fs.addrs], m.freeblock)

Init ==
  \E sizes \in Sizes :
    /\ fs = Formatted(sizes)
    /\ wrote = [i \in Inos |-> [bn \in 0 .. Reach - 1 |-> IF bn < sizes[i] THEN "saved" ELSE "never"]]
    /\ lost = {}

-----------------------------------------------------------------------------
Done(f) == fs' = IF f.panic THEN [fs EXCEPT !.panic = TRUE] ELSE [f EXCEPT !.logged = {}]

\* What becomes of the blocks bns of a file when they are written: those that
\* were not written before are saved by the next write that grows the file.
Written(w, bns, grows) ==
  [bn \in DOMAIN w |->
     CASE grows /\ (bn \in bns \/ w[bn] = "held") -> "saved"
       [] ~grows /\ bn \in bns /\ w[bn] # "saved" -> "held"
       [] OTHER -> w[bn]]

MutTouched == max + 2

\* The blocks that a transaction of filewrite touches when it is not aligned.
Touched == max + 1

\* filewrite and pwrite, one transaction of them.
Writei(i, bn, n, g) ==
  /\ ~fs.panic /\ bn + n <= Reach
  /\ Done(writei(fs, i, bn, n, g))
  /\ wrote' = IF fs'.panic THEN wrote
              ELSE [wrote EXCEPT ![i] = Written(@, bn .. bn + n - 1, bn + n > fs.size[i])]
  /\ UNCHANGED lost

\* readi: a hole that is read is allocated, outside of a transaction: log_write
\* panics unless another process is in one.
Readi(i, bn, g) ==
  /\ ~fs.panic /\ bn < fs.size[i]
  /\ LET f == bmap(fs, i, bn, g).fs IN
       Done(f) \/ (f.logged # {} /\ Done([fs EXCEPT !.panic = TRUE]))
  /\ UNCHANGED <<wrote, lost>>

\* The last iput of a file without links.
Itrunc(i) ==
  /\ ~fs.panic
  /\ Done(itrunc(fs, i))
  /\ wrote' = [wrote EXCEPT ![i] = [bn \in DOMAIN @ |-> "never"]]
  /\ UNCHANGED lost

\* The last iput of a file with links, and the ilock that reads it again.
Reopen(i) ==
  LET f == [fs EXCEPT !.addrs[i] = fs.dinode[i]] IN
  /\ ~fs.panic /\ f # fs /\ Cardinality(lost) <= MaxLost
  /\ Done(f)
  /\ wrote' = [wrote EXCEPT ![i] = [bn \in DOMAIN @ |-> IF @[bn] = "held" THEN "doubtful" ELSE @[bn]]]
  /\ lost' = lost \cup (Range(BlocksOf(fs, i)) \ Range(BlocksOf(f, i)))

Halted == fs.panic /\ UNCHANGED vars

Next ==
  \/ \E w \in Writes, g \in Beyond : Writei(w[1], w[2], w[3], g)
  \/ \E r \in Reads, g \in Beyond : Readi(r[1], r[2], g)
  \/ \E i \in Inos : Itrunc(i) \/ Reopen(i)
  \/ Halted

Spec == Init /\ [][Next]_vars

-----------------------------------------------------------------------------
Owned == UNION {Range(BlocksOf(fs, i)) : i \in Inos}

\* Every block of the disk is free or has one owner, whatever was written,
\* read through a hole or truncated, up to the first subtree of the triple
\* indirect block: the bitmap is exactly the metadata and the blocks of the
\* files, and no block is in two places.  So itrunc never frees a free block,
\* and nothing leaks but the blocks of holes that were filled and not saved
\* when the inode left the cache.
BitmapExact ==
  ~fs.panic =>
    /\ fs.used = (0 .. nmeta - 1) \cup Owned \cup lost
    /\ Owned \cap (lost \cup (0 .. nmeta - 1)) = {}
    /\ Cardinality(Owned) = Len(FlattenSeq([k \in 1 .. Cardinality(Inos) |-> BlocksOf(fs, SetToSeq(Inos)[k])]))

\* What was written to block bn of a file is what bmap finds for bn later, and
\* a block that was never written reads as zeros, up to the first subtree of
\* the triple indirect block (Reach).  From the second one on the code does not
\* keep this: it tests word bn/NINDIRECT, which lies behind the block, and
\* sets word (bn%NDBLINDIRECT)/NINDIRECT (Second).  When the file is closed and
\* opened again, this is in doubt only for what was first written below the
\* end of the file, into a hole, with no write after it that made the file
\* longer.
ReadsBack ==
  ~fs.panic =>
    \A i \in Inos, bn \in 0 .. Reach - 1, g \in Beyond :
      LET r == bmap(fs, i, bn, g)
          There == r.fs = fs /\ fs.data[r.addr] = <<i, bn>>
          Zeros == r.fs.panic \/ r.fs.data[r.addr] = None
      IN  CASE wrote[i][bn] = "never" -> Zeros
            [] wrote[i][bn] \in {"held", "saved"} -> There
            [] wrote[i][bn] = "doubtful" -> There \/ Zeros

\* One transaction of filewrite, which has written the file up to its offset,
\* logs at most MAXOPBLOCKS - 1 blocks besides bitmap blocks, whichever
\* indirect blocks it has to allocate or change: begin_op reserves enough for
\* it as long as what it allocates is described by one bitmap block.  Every
\* further bitmap block comes on top, and the write that allocates the triple
\* indirect block can then log more than "max # of blocks any FS op writes".
FitsInOp ==
  ~fs.panic =>
    \A i \in Inos, bn \in 0 .. Reach - Touched, g \in Beyond :
      (\A k \in 0 .. bn - 1 : wrote[i][k] \in {"held", "saved"}) =>
        Cardinality({b \in writei(fs, i, bn, Touched, g).logged : b[1] # "bitmap"}) < MAXOPBLOCKS
=============================================================================
