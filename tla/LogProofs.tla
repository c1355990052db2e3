----------------------------- MODULE LogProofs ------------------------------
(***************************************************************************)
(* The inductive invariant of the redo log, for any number of processes,   *)
(* blocks and values and any size of the log, with crashes and panics at   *)
(* any moment, and that the log implements AtomicLog.                      *)
(*                                                                         *)
(* LInv says who may be where (Control) and how the disk, the log, its     *)
(* header and the cache agree in each phase (Contents).                    *)
(*                                                                         *)
(* In the refinement the durable contents are what recovery would make of  *)
(* the disk.  They change in one step only, the write of the header, when  *)
(* no call is in progress; install_trans, the erasing write_head, a crash  *)
(* and recovery leave them as they are.                                    *)
(***************************************************************************)
EXTENDS Log, TLAPS, FiniteSetTheorems

OpLabels == {"op", "log_write", "log_add"}
CommitLabels == {"write_log", "write_head", "install", "done"}
Labels == {"idle", "begin", "sleep", "overrun"} \cup OpLabels \cup CommitLabels

LTypes ==
  /\ disk \in [Blocks -> Vals] /\ cache \in [Blocks -> Vals]
  /\ dlog \in [1 .. NLOG - 1 -> Vals]
  /\ lh \in Seq(Blocks) /\ dhead \in Seq(Blocks)
  /\ dirty \in SUBSET Blocks
  /\ outstanding \in Nat /\ tail \in Nat
  /\ boot \in {"read_head", "install", "up", "overrun"}
  /\ pc \in [Procs -> Labels]
  /\ buf \in [Procs -> Blocks \cup {None}]

\* outstanding counts the calls in progress; there is one commit at a time, and
\* no call in progress meanwhile; processes only run when recovery is done.
Control ==
  /\ outstanding = Cardinality(InOp)
  /\ committing => outstanding = 0
  /\ \A p \in Procs : pc[p] \in CommitLabels \cup {"overrun"} => committing
  /\ \A p, q \in Procs :
       pc[p] \in CommitLabels \cup {"overrun"} /\ pc[q] \in CommitLabels \cup {"overrun"} => p = q
  /\ \A p \in Procs : pc[p] \in OpLabels \cup CommitLabels => boot = "up"
  /\ boot = "overrun" => committing
  /\ boot \in {"read_head", "install"} => ~committing /\ \A p \in Procs : pc[p] = "idle"
  /\ \A p \in Procs : buf[p] # None <=> pc[p] \in {"log_write", "log_add"}

Distinct(s) == \A i, j \in 1 .. Len(s) : s[i] = s[j] => i = j

\* The first n blocks of the log are those of the cache, or of the disk.
Logged(n) == \A i \in 1 .. n : i < NLOG /\ dlog[i] = cache[lh[i]]
Installed(n) == \A i \in 1 .. n : disk[lh[i]] = dlog[i]

Contents ==
  /\ Distinct(lh) /\ Distinct(dhead) /\ Len(dhead) < NLOG
  /\ boot = "read_head" => lh = <<>> /\ tail = 0
  /\ boot = "install" => lh = dhead /\ tail <= Len(lh) /\ Installed(tail)
  /\ boot \in {"read_head", "install"} => cache = disk /\ dirty = {}
  /\ boot = "up" =>
       /\ \A b \in Blocks : b \notin dirty /\ (\A p \in Procs : buf[p] # b) => cache[b] = disk[b]
       /\ (\A p \in Procs : pc[p] # "install") => dhead = <<>> /\ dirty = Elems(lh)
       /\ outstanding = 0 /\ ~committing => lh = <<>>
       /\ \A p \in Procs :
            /\ pc[p] = "write_log" => tail < Len(lh) /\ Logged(tail)
            /\ pc[p] = "write_head" => tail = 0 /\ Len(lh) < NLOG /\ Logged(Len(lh))
            /\ pc[p] = "install" => /\ dhead = lh /\ tail <= Len(lh)
                                    /\ Logged(Len(lh)) /\ Installed(tail)
                                    /\ dirty = {lh[i] : i \in tail + 1 .. Len(lh)}
            /\ pc[p] = "done" => lh = <<>>

LInv == LTypes /\ Control /\ Contents /\ SleeperHasReason

-----------------------------------------------------------------------------
\* The calls in progress are a finite set, and their number is exact.
LEMMA InOpFinite == IsFiniteSet(InOp) /\ Cardinality(InOp) \in Nat
<1>1. IsFiniteSet(InOp)
  BY LogAssumption, FS_Subset, Zenon DEF InOp
<1> QED
  BY <1>1, FS_CardinalityType, Zenon

\* When there is one call in progress, no other process is in a call.
LEMMA OneInOp ==
  ASSUME Control, NEW p \in InOp, outstanding = 1
  PROVE  InOp = {p}
<1>0. Cardinality(InOp) = 1
  BY Zenon DEF Control
<1>1. IsFiniteSet(InOp \ {p}) /\ Cardinality(InOp \ {p}) = 0
  BY <1>0, InOpFinite, FS_RemoveElement
<1>2. InOp \ {p} = {}
  BY <1>1, FS_EmptySet, Zenon
<1> QED
  BY <1>2, Zenon

\* After boot with an empty log.
LEMMA InitLInv == Init => LInv
<1> SUFFICES ASSUME Init PROVE LInv
  BY Zenon
<1> USE DEF Init
<1>1. LTypes
  BY LogAssumption DEF LTypes, Labels
<1>2. InOp = {}
  BY Zenon DEF InOp
<1>3. Control
  BY <1>2, FS_EmptySet, Zenon DEF Control, OpLabels, CommitLabels
<1>4. Contents
  BY LogAssumption DEF Contents, Distinct, Installed
<1>5. SleeperHasReason
  BY Zenon DEF SleeperHasReason
<1> QED
  BY <1>1, <1>3, <1>4, <1>5, Zenon DEF LInv

-----------------------------------------------------------------------------
\* Every step keeps the types.  install_trans and Clear are shared by commit and
\* recovery.
LEMMA InstallTypes == LTypes /\ Contents /\ tail < Len(lh) /\ Len(lh) < NLOG /\ install_trans => LTypes'
<1> SUFFICES ASSUME LTypes, tail < Len(lh), Len(lh) < NLOG, install_trans PROVE LTypes'
  BY Zenon
<1> USE DEF LTypes
<1>1. lh[tail + 1] \in Blocks /\ tail + 1 \in 1 .. NLOG - 1
  BY LogAssumption
<1>2. dlog[tail + 1] \in Vals
  BY <1>1, Zenon
<1> QED
  BY <1>1, <1>2 DEF install_trans

\* What a crash leaves in memory has its types.
LEMMA VolatileTypes == LTypes /\ Volatile(disk) /\ UNCHANGED diskVars => LTypes'
BY DEF LTypes, Volatile, diskVars, Labels

\* begin_op, the modifications, the last end_op and write_head keep the types.
LEMMA CallTypes ==
  ASSUME LTypes, NEW p \in Procs,
         \/ Call(p) \/ BeginOp(p) \/ BeginOpSleeps(p) \/ LogWriteTest(p)
         \/ \E b \in Blocks, v \in Vals : Modify(p, b, v)
         \/ EndLastOp(p) \/ WriteHead(p)
  PROVE  LTypes'
<1> USE DEF LTypes, Labels, OpLabels, CommitLabels, diskVars, Step
<1>1. CASE Call(p) \/ BeginOpSleeps(p) \/ LogWriteTest(p)
  BY <1>1, Zenon DEF Call, BeginOpSleeps, LogWriteTest
<1>2. CASE BeginOp(p)
  BY <1>2 DEF BeginOp
<1>3. ASSUME NEW b \in Blocks, NEW v \in Vals, Modify(p, b, v) PROVE LTypes'
  BY <1>3, Zenon DEF Modify
<1>4. CASE EndLastOp(p)
  BY <1>4, Zenon DEF EndLastOp
<1>5. CASE WriteHead(p)
  BY <1>5, Zenon DEF WriteHead
<1> QED
  BY <1>1, <1>2, <1>3, <1>4, <1>5, Zenon

\* log_write keeps the types.
LEMMA LogWriteTypes ==
  ASSUME LTypes, Control, NEW p \in Procs, LogWrite(p)
  PROVE  LTypes' /\ buf[p] \in Blocks
<1>1. buf[p] \in Blocks
  BY Zenon DEF LTypes, Control, LogWrite, Step
<1>2. lh' \in Seq(Blocks)
  BY <1>1 DEF LTypes, LogWrite
<1> QED
  BY <1>1, <1>2, Zenon DEF LTypes, LogWrite, diskVars, Step, Labels, OpLabels

\* end_op and the end of a commit keep the types.
LEMMA EndTypes ==
  ASSUME LTypes, Control, NEW p \in Procs, EndOp(p) \/ CommitDone(p)
  PROVE  LTypes'
<1>1. pc' = Woken([pc EXCEPT ![p] = "idle"])
  BY Zenon DEF EndOp, CommitDone
<1>2. pc' \in [Procs -> Labels]
  BY <1>1, Zenon DEF LTypes, Woken, Labels
<1>3. outstanding' \in Nat
  <2>1. CASE EndOp(p)
    <3>1. p \in InOp
      BY <2>1, Zenon DEF EndOp, InOp
    <3>2. InOp # {}
      BY <3>1, Zenon
    <3>3. outstanding # 0
      BY <3>2, InOpFinite, FS_EmptySet, Zenon DEF Control
    <3> QED
      BY <2>1, <3>3 DEF EndOp, LTypes
  <2>2. CASE CommitDone(p)
    BY <2>2, Zenon DEF CommitDone, LTypes
  <2> QED
    BY <2>1, <2>2, Zenon
<1> QED
  BY <1>2, <1>3, Zenon DEF LTypes, EndOp, CommitDone, diskVars

\* The steps of a commit keep the types.
LEMMA CommitTypes ==
  ASSUME LInv, NEW p \in Procs, WriteLog(p) \/ Install(p) \/ Erase(p) \/ \E b \in Blocks : Overrun(p, b)
  PROVE  LTypes'
<1>1. pc[p] \in CommitLabels /\ boot = "up"
  BY Zenon DEF LInv, Control, WriteLog, Install, Erase, Overrun, Step, CommitLabels
<1>2. CASE WriteLog(p)
  <2>1. tail < Len(lh) /\ tail + 1 \in 1 .. Len(lh)
    BY <1>1, <1>2 DEF LInv, Contents, WriteLog, LTypes
  <2>2. cache[lh[tail + 1]] \in Vals
    BY <2>1 DEF LInv, LTypes
  <2>3. pc' \in [Procs -> Labels] /\ tail' \in Nat
    BY <1>2 DEF LInv, LTypes, WriteLog, Labels, CommitLabels
  <2> QED
    BY <1>2, <2>2, <2>3, Zenon DEF LInv, LTypes, WriteLog
<1>3. CASE Install(p)
  <2>1. tail < Len(lh) /\ dhead = lh /\ Len(dhead) < NLOG
    BY <1>1, <1>3, Zenon DEF LInv, Contents, Install, install_trans
  <2> QED
    BY <1>3, <2>1, InstallTypes, Zenon DEF LInv, Install
<1>4. CASE Erase(p)
  BY <1>4 DEF LInv, LTypes, Erase, Clear, Step, Labels, CommitLabels
<1>5. ASSUME NEW b \in Blocks, Overrun(p, b) PROVE LTypes'
  <2>1. tail < Len(lh) /\ tail + 1 \in 1 .. Len(lh)
    BY <1>1, <1>5 DEF LInv, Contents, Overrun, Step, LTypes
  <2>2. cache[lh[tail + 1]] \in Vals
    BY <2>1 DEF LInv, LTypes
  <2> QED
    BY <1>5, <2>2, Zenon DEF LInv, LTypes, Overrun, Step, Labels
<1> QED
  BY <1>2, <1>3, <1>4, <1>5, Zenon

\* Recovery, eviction and what follows an overrun keep the types.
LEMMA BootTypes ==
  ASSUME LInv, \/ ReadHead \/ Recover \/ RecoverDone \/ Overran
               \/ \E b \in Blocks : Evict(b)
  PROVE  LTypes'
<1>1. CASE Recover
  <2>1. tail < Len(lh) /\ dhead = lh /\ Len(dhead) < NLOG
    BY <1>1, Zenon DEF LInv, Contents, Recover, install_trans
  <2> QED
    BY <1>1, <2>1, InstallTypes, Zenon DEF LInv, Recover
<1>2. CASE ReadHead
  BY <1>2, Zenon DEF LInv, LTypes, ReadHead, diskVars
<1>4. CASE RecoverDone
  BY <1>4 DEF LInv, LTypes, RecoverDone, Clear
<1>5. CASE Overran
  BY <1>5, Zenon DEF LInv, LTypes, Overran, vars, diskVars
<1>3. ASSUME NEW b \in Blocks, Evict(b) PROVE LTypes'
  BY <1>3, Zenon DEF LInv, LTypes, Evict, diskVars
<1> QED
  BY <1>1, <1>2, <1>3, <1>4, <1>5, Zenon

-----------------------------------------------------------------------------
\* Every step keeps Control.  First the steps that leave the set of calls in
\* progress as it is.
LEMMA QuietControl ==
  ASSUME LTypes, Control, NEW p \in Procs,
         \/ Call(p) \/ BeginOpSleeps(p) \/ LogWriteTest(p) \/ LogWrite(p)
         \/ \E b \in Blocks, v \in Vals : Modify(p, b, v)
  PROVE  Control'
<1> USE DEF LTypes, Labels, OpLabels, CommitLabels, Step
<1>1. UNCHANGED <<outstanding, committing, boot>>
  BY Zenon DEF Call, BeginOpSleeps, LogWriteTest, LogWrite, Modify
<1>2. InOp' = InOp
  BY Zenon DEF InOp, Call, BeginOpSleeps, LogWriteTest, LogWrite, Modify
<1>3. \E l \in {"begin", "sleep", "log_write", "log_add", "op"} :
        /\ pc' = [pc EXCEPT ![p] = l]
        /\ l \in {"begin", "sleep"} <=> pc[p] \in {"idle", "begin"}
        /\ l \notin {"begin", "sleep"} => pc[p] \in OpLabels
        /\ l = "begin" => boot = "up"
        /\ l = "sleep" => pc[p] = "begin"
  BY Zenon DEF Call, BeginOpSleeps, LogWriteTest, LogWrite, Modify
<1>4. ASSUME NEW q \in Procs PROVE (buf[q] # None)' <=> pc'[q] \in {"log_write", "log_add"}
  <2>1. CASE Call(p) \/ BeginOpSleeps(p) \/ LogWriteTest(p)
    BY <2>1 DEF Control, Call, BeginOpSleeps, LogWriteTest
  <2>2. CASE LogWrite(p)
    BY <2>2, Zenon DEF Control, LogWrite
  <2>3. ASSUME NEW b \in Blocks, NEW v \in Vals, Modify(p, b, v)
        PROVE  (buf[q] # None)' <=> pc'[q] \in {"log_write", "log_add"}
    BY <2>3, LogAssumption DEF Control, Modify
  <2> QED
    BY <2>1, <2>2, <2>3, Zenon
<1>5. (boot \in {"read_head", "install"})' => ~committing' /\ \A q \in Procs : pc'[q] = "idle"
  BY <1>1, <1>3, Zenon DEF Control
<1>6. \A q \in Procs : /\ pc'[q] \in CommitLabels \cup {"overrun"} => pc'[q] = pc[q]
                       /\ pc'[q] \in OpLabels => pc[q] \in OpLabels
  BY <1>3, Zenon
<1> QED
  BY <1>1, <1>2, <1>4, <1>5, <1>6, Zenon DEF Control

\* begin_op counts its call.
LEMMA BeginControl ==
  ASSUME LTypes, Control, NEW p \in Procs, BeginOp(p)
  PROVE  Control'
<1> USE DEF LTypes, Labels, OpLabels, CommitLabels, Step
<1>1. p \notin InOp /\ InOp' = InOp \cup {p}
  BY Zenon DEF InOp, BeginOp
<1>2. Cardinality(InOp') = Cardinality(InOp) + 1
  BY <1>1, InOpFinite, FS_AddElement, Zenon
<1>3. outstanding' = Cardinality(InOp')
  BY <1>2, Zenon DEF Control, BeginOp
<1>4. boot = "up" /\ ~committing /\ UNCHANGED <<boot, committing, buf>>
  BY Zenon DEF Control, BeginOp
<1>5. pc' = [pc EXCEPT ![p] = "op"] /\ pc[p] = "begin"
  BY Zenon DEF BeginOp
<1> QED
  BY <1>3, <1>4, <1>5 DEF Control

\* end_op takes its call off the count; the last one commits.
LEMMA EndControl ==
  ASSUME LTypes, Control, NEW p \in Procs, EndOp(p) \/ EndLastOp(p)
  PROVE  Control'
<1> USE DEF LTypes, Labels, OpLabels, CommitLabels, Step
<1>1. pc[p] = "op" /\ p \in InOp /\ buf[p] = None
  BY Zenon DEF InOp, EndOp, EndLastOp, Control
<1>2. InOp' = InOp \ {p}
  BY Zenon DEF InOp, EndOp, EndLastOp, Woken
<1>3. Cardinality(InOp') = Cardinality(InOp) - 1
  BY <1>1, <1>2, InOpFinite, FS_RemoveElement, Zenon
<1>4. outstanding' = Cardinality(InOp')
  BY <1>3 DEF Control, EndOp, EndLastOp
<1>5. outstanding # 0 /\ ~committing
  <2>1. Cardinality(InOp) # 0
    BY <1>1, InOpFinite, FS_EmptySet, Zenon
  <2> QED
    BY <2>1, Zenon DEF Control
<1>6. boot = "up" /\ UNCHANGED <<boot, buf>>
  BY <1>1, Zenon DEF Control, EndOp, EndLastOp
<1>7. CASE EndOp(p)
  <2>1. \A q \in Procs : pc'[q] = IF q = p THEN "idle" ELSE IF pc[q] = "sleep" THEN "begin" ELSE pc[q]
    BY <1>7, Zenon DEF EndOp, Woken
  <2> QED
    BY <1>1, <1>4, <1>5, <1>6, <1>7, <2>1, ZenonT(30) DEF Control, EndOp
<1>8. CASE EndLastOp(p)
  <2>1. \A q \in Procs : pc'[q] \in CommitLabels \cup {"overrun"} => q = p
    BY <1>5, <1>8, Zenon DEF Control, EndLastOp
  <2>2. \A q \in Procs : q # p => pc'[q] = pc[q]
    BY <1>8, Zenon DEF EndLastOp
  <2>3. pc'[p] \in CommitLabels /\ committing' /\ outstanding' = 0
    BY <1>8, Zenon DEF EndLastOp
  <2> QED
    BY <1>1, <1>4, <1>6, <2>1, <2>2, <2>3 DEF Control
<1> QED
  BY <1>7, <1>8, Zenon

\* The steps of the commit.
LEMMA CommitControl ==
  ASSUME LTypes, Control, NEW p \in Procs,
         \/ WriteLog(p) \/ WriteHead(p) \/ Install(p) \/ Erase(p) \/ CommitDone(p)
         \/ \E b \in Blocks : Overrun(p, b)
  PROVE  Control'
<1> USE DEF LTypes, Labels, OpLabels, CommitLabels, Step
<1>1. pc[p] \in CommitLabels
  BY Zenon DEF WriteLog, WriteHead, Install, Erase, CommitDone, Overrun
<1>2. committing /\ outstanding = 0 /\ boot = "up" /\ InOp = {}
  BY <1>1, InOpFinite, FS_EmptySet, Zenon DEF Control
<1>3. UNCHANGED <<outstanding, buf>>
  BY Zenon DEF WriteLog, WriteHead, Install, install_trans, Erase, Clear, CommitDone, Overrun
<1>4. \A q \in Procs : q # p => pc[q] \in {"idle", "begin", "sleep"}
  BY <1>1, <1>2, Zenon DEF Control, InOp
<1>5. CASE WriteLog(p) \/ WriteHead(p) \/ Install(p) \/ Erase(p)
  <2>1. UNCHANGED <<committing, boot>> /\ pc'[p] \in CommitLabels /\ \A q \in Procs : q # p => pc'[q] = pc[q]
    BY <1>5, Zenon DEF WriteLog, WriteHead, Install, install_trans, Erase, Clear
  <2>2. InOp' = {}
    BY <1>4, <2>1, Zenon DEF InOp
  <2> QED
    BY <1>1, <1>2, <1>3, <1>4, <2>1, <2>2, Zenon DEF Control
<1>6. CASE CommitDone(p)
  <2>1. \A q \in Procs : pc'[q] \in {"idle", "begin"}
    BY <1>4, <1>6, Zenon DEF CommitDone, Woken
  <2>2. InOp' = {}
    BY <2>1, Zenon DEF InOp
  <2> QED
    BY <1>1, <1>2, <1>3, <1>4, <1>6, <2>1, <2>2, Zenon DEF Control, CommitDone
<1>7. ASSUME NEW b \in Blocks, Overrun(p, b) PROVE Control'
  <2>1. /\ UNCHANGED committing /\ boot' = "overrun" /\ pc'[p] = "overrun"
        /\ \A q \in Procs : q # p => pc'[q] = pc[q]
    BY <1>7, Zenon DEF Overrun
  <2>2. InOp' = {}
    BY <1>4, <2>1, Zenon DEF InOp
  <2> QED
    BY <1>1, <1>2, <1>3, <1>4, <2>1, <2>2, Zenon DEF Control
<1> QED
  BY <1>5, <1>6, <1>7, Zenon

\* A crash leaves no call; recovery ends with the system running.
LEMMA BootControl ==
  ASSUME LTypes, Control,
         \/ ReadHead \/ Recover \/ RecoverDone \/ Overran
         \/ \E b \in Blocks : Evict(b)
         \/ Volatile(disk)
  PROVE  Control'
<1> USE DEF LTypes, Labels, OpLabels, CommitLabels
<1>1. CASE Volatile(disk)
  <2>1. InOp' = {} /\ outstanding' = 0
    BY <1>1, Zenon DEF Volatile, InOp
  <2> QED
    BY <1>1, <2>1, FS_EmptySet, Zenon DEF Volatile, Control
<1>2. CASE Overran \/ \E b \in Blocks : Evict(b)
  <2>1. UNCHANGED <<outstanding, committing, boot, pc, buf>>
    BY <1>2, Zenon DEF Overran, Evict, vars
  <2> QED
    BY <2>1, Zenon DEF Control, InOp
<1>3. CASE ReadHead \/ Recover \/ RecoverDone
  <2>1. UNCHANGED <<outstanding, committing, pc, buf>> /\ boot' \in {"install", "up"}
    BY <1>3, Zenon DEF ReadHead, Recover, install_trans, RecoverDone, Clear
  <2>2. boot \in {"read_head", "install"}
    BY <1>3, Zenon DEF ReadHead, Recover, RecoverDone
  <2>3. InOp' = InOp
    BY <2>1, Zenon DEF InOp
  <2> QED
    BY <2>1, <2>2, <2>3, Zenon DEF Control
<1> QED
  BY <1>1, <1>2, <1>3, Zenon

-----------------------------------------------------------------------------
(* Proofs about the redo log: every step keeps what the invariant says of  *)
(* the contents of disk, log and cache, and the theorems that follow.      *)

\* Steps that touch no contents and no phase of a commit.
LEMMA SameContents ==
  ASSUME Contents, UNCHANGED <<diskVars, cache, dirty, lh, tail, boot, buf>>,
         \A q \in Procs : pc'[q] \in CommitLabels \/ pc[q] \in CommitLabels => pc'[q] = pc[q],
         boot = "up" /\ outstanding' = 0 /\ ~committing' => lh = <<>>
  PROVE  Contents'
<1>1. UNCHANGED <<disk, dlog, dhead, cache, dirty, lh, tail, boot, buf>>
  BY Zenon DEF diskVars
<1>2. \A q \in Procs, l \in CommitLabels : pc'[q] = l <=> pc[q] = l
  BY Zenon
<1> QED
  BY <1>1, <1>2 DEF Contents, CommitLabels, Logged, Installed, Elems, Distinct

\* The steps of a call that modify nothing.
LEMMA CallContents ==
  ASSUME LInv, NEW p \in Procs,
         Call(p) \/ BeginOp(p) \/ BeginOpSleeps(p) \/ LogWriteTest(p) \/ EndOp(p)
  PROVE  Contents'
<1>1. UNCHANGED <<diskVars, cache, dirty, lh, tail, boot, buf>>
  BY Zenon DEF Call, BeginOp, BeginOpSleeps, LogWriteTest, EndOp
<1>2. \A q \in Procs : pc'[q] \in CommitLabels \/ pc[q] \in CommitLabels => pc'[q] = pc[q]
  BY Zenon DEF Call, BeginOp, BeginOpSleeps, LogWriteTest, EndOp, Step, Woken, CommitLabels, LInv, LTypes
<1>3. outstanding' = 0 /\ ~committing' => outstanding = 0 /\ ~committing
  BY DEF Call, BeginOp, BeginOpSleeps, LogWriteTest, EndOp, LInv, LTypes
<1>4. Contents
  BY Zenon DEF LInv
<1>5. boot = "up" /\ outstanding = 0 /\ ~committing => lh = <<>>
  BY <1>4, Zenon DEF Contents
<1> QED
  BY <1>1, <1>2, <1>3, <1>4, <1>5, SameContents, Zenon

\* While a call is in progress there is no commit.
LEMMA OpNoCommit ==
  ASSUME Control, NEW p \in InOp
  PROVE  /\ outstanding # 0 /\ ~committing /\ boot = "up"
         /\ \A q \in Procs : pc[q] \notin CommitLabels
<1>1. InOp # {}
  BY Zenon
<1>2. outstanding # 0
  BY <1>1, InOpFinite, FS_EmptySet, Zenon DEF Control
<1> QED
  BY <1>2, Zenon DEF Control, InOp, OpLabels, CommitLabels

\* A call changes a buffer that it will log.
LEMMA ModifyContents ==
  ASSUME LInv, NEW p \in Procs, NEW b \in Blocks, NEW v \in Vals, Modify(p, b, v)
  PROVE  Contents'
<1>1. p \in InOp /\ pc[p] = "op" /\ buf[p] = None /\ Contents
  BY Zenon DEF Modify, Step, InOp, LInv, Control
<1>2. /\ outstanding # 0 /\ boot = "up"
      /\ \A q \in Procs : pc[q] \notin CommitLabels
  BY <1>1, OpNoCommit, Zenon DEF LInv
<1>3. \A q \in Procs : pc'[q] \notin CommitLabels
  BY <1>2, Zenon DEF Modify, Step, CommitLabels, LInv, LTypes
<1>4. UNCHANGED <<disk, dlog, dhead, dirty, lh, outstanding, boot>>
  BY Zenon DEF Modify, diskVars
<1>5. ASSUME NEW c \in Blocks, c \notin dirty, \A q \in Procs : buf'[q] # c
      PROVE  cache'[c] = disk[c]
  <2>1. buf'[p] = b /\ \A q \in Procs : q # p => buf'[q] = buf[q]
    BY Zenon DEF Modify, LInv, LTypes
  <2>2. c # b /\ \A q \in Procs : buf[q] # c
    BY <1>1, <1>5, <2>1, LogAssumption, Zenon
  <2> QED
    BY <1>1, <1>2, <1>5, <2>2, Zenon DEF Contents, Modify, LInv, LTypes
<1> QED
  BY <1>1, <1>2, <1>3, <1>4, <1>5 DEF Contents, CommitLabels, Distinct, Elems

\* log_write puts the block into log.lh, once.
LEMMA LogWriteContents ==
  ASSUME LInv, NEW p \in Procs, LogWrite(p)
  PROVE  Contents'
<1> DEFINE b == buf[p]
<1>1. p \in InOp /\ Contents /\ b \in Blocks /\ lh \in Seq(Blocks)
  BY LogWriteTypes, Zenon DEF LogWrite, Step, InOp, LInv, LTypes
<1>2. /\ outstanding # 0 /\ boot = "up"
      /\ \A q \in Procs : pc[q] \notin CommitLabels
  BY <1>1, OpNoCommit, Zenon DEF LInv
<1>3. \A q \in Procs : pc'[q] \notin CommitLabels
  BY <1>2, Zenon DEF LogWrite, Step, CommitLabels, LInv, LTypes
<1>4. UNCHANGED <<disk, dlog, dhead, cache, outstanding, boot>>
  BY Zenon DEF LogWrite, diskVars
<1>5. dirty = Elems(lh) /\ dhead = <<>> /\ Distinct(lh)
  BY <1>1, <1>2, Zenon DEF Contents, CommitLabels
<1>6. Distinct(lh') /\ Elems(lh') = Elems(lh) \cup {b}
  <2>1. CASE b \in Elems(lh)
    BY <1>5, <2>1, Zenon DEF LogWrite
  <2>2. CASE b \notin Elems(lh)
    <3>1. lh' = Append(lh, b) /\ Len(lh') = Len(lh) + 1
      BY <1>1, <2>2 DEF LogWrite
    <3>2. \A i \in 1 .. Len(lh') : lh'[i] = IF i = Len(lh) + 1 THEN b ELSE lh[i]
      BY <1>1, <3>1
    <3>3. Distinct(lh')
      BY <1>1, <1>5, <2>2, <3>1, <3>2 DEF Distinct, Elems
    <3>4. Elems(lh') = Elems(lh) \cup {b}
      BY <1>1, <3>1, <3>2 DEF Elems
    <3> QED
      BY <3>3, <3>4, Zenon
  <2> QED
    BY <2>1, <2>2, Zenon
<1>7. dirty' = Elems(lh)'
  BY <1>5, <1>6, Zenon DEF LogWrite, Elems
<1>8. ASSUME NEW c \in Blocks, c \notin dirty', \A q \in Procs : buf'[q] # c
      PROVE  cache[c] = disk[c]
  <2>1. c # b /\ c \notin dirty
    BY <1>8, Zenon DEF LogWrite
  <2>2. \A q \in Procs : buf[q] # c
    BY <1>8, <2>1, Zenon DEF LogWrite, LInv, LTypes
  <2> QED
    BY <1>1, <1>2, <1>8, <2>1, <2>2, Zenon DEF Contents
<1>9. Distinct(lh)'
  BY <1>6, Zenon DEF Distinct
<1> QED
  BY <1>1, <1>2, <1>3, <1>4, <1>5, <1>7, <1>8, <1>9 DEF Contents, CommitLabels, Distinct

\* The last end_op: the log is the cache's modified blocks.
LEMMA EndLastContents ==
  ASSUME LInv, NEW p \in Procs, EndLastOp(p)
  PROVE  Contents'
<1>1. p \in InOp /\ Contents
  BY Zenon DEF EndLastOp, Step, InOp, LInv
<1>2. boot = "up" /\ \A q \in Procs : pc[q] \notin CommitLabels
  BY <1>1, OpNoCommit, Zenon DEF LInv
<1>3. /\ pc'[p] = IF lh # <<>> THEN "write_log" ELSE "done"
      /\ \A q \in Procs : q # p => pc'[q] = pc[q]
  BY Zenon DEF EndLastOp, Step, LInv, LTypes
<1>4. UNCHANGED <<disk, dlog, dhead, cache, dirty, lh, boot, buf>> /\ tail' = 0 /\ committing'
  BY Zenon DEF EndLastOp, diskVars
<1>5. lh # <<>> => 0 < Len(lh)
  BY DEF LInv, LTypes
<1> QED
  BY <1>1, <1>2, <1>3, <1>4, <1>5 DEF Contents, CommitLabels, Distinct, Elems, Logged

\* A step of p's commit: nobody else commits, and no buffer is in use.
LEMMA InCommit ==
  ASSUME Control, NEW p \in Procs, pc[p] \in CommitLabels
  PROVE  /\ boot = "up" /\ committing /\ outstanding = 0 /\ InOp = {}
         /\ \A q \in Procs : buf[q] = None /\ (q # p => pc[q] \notin CommitLabels)
<1>1. boot = "up" /\ committing /\ outstanding = 0
  BY Zenon DEF Control
<1>2. InOp = {}
  BY <1>1, InOpFinite, FS_EmptySet, Zenon DEF Control
<1> QED
  BY <1>1, <1>2, Zenon DEF Control, InOp, CommitLabels

\* write_log copies one block into the log.
LEMMA WriteLogContents ==
  ASSUME LInv, NEW p \in Procs, WriteLog(p)
  PROVE  Contents'
<1>1. pc[p] \in CommitLabels /\ Contents /\ Control /\ LTypes
  BY Zenon DEF WriteLog, CommitLabels, LInv
<1>2. boot = "up" /\ committing /\ \A q \in Procs : q # p => pc[q] \notin CommitLabels
  BY <1>1, InCommit, Zenon
<1>3. UNCHANGED <<disk, dhead, cache, dirty, lh, boot, buf, committing>> /\ \A q \in Procs : q # p => pc'[q] = pc[q]
  BY <1>1, Zenon DEF WriteLog, LTypes
<1>4. tail < Len(lh) /\ Logged(tail) /\ tail + 1 < NLOG /\ tail \in Nat /\ Len(lh) \in Nat
  BY <1>1, <1>2 DEF Contents, WriteLog, LTypes
<1>5. \A i \in 1 .. tail + 1 : i < NLOG /\ dlog'[i] = cache[lh[i]]
  BY <1>1, <1>4, LogAssumption DEF WriteLog, Logged, LTypes
<1>6. CASE tail + 1 < Len(lh)
  <2>1. pc' = pc /\ tail' = tail + 1
    BY <1>6, Zenon DEF WriteLog
  <2> QED
    BY <1>1, <1>2, <1>3, <1>5, <1>6, <2>1 DEF Contents, CommitLabels, Distinct, Elems, Logged, WriteLog
<1>7. CASE ~(tail + 1 < Len(lh))
  <2>1. pc'[p] = "write_head" /\ tail' = 0 /\ Len(lh) = tail + 1
    BY <1>1, <1>4, <1>7 DEF WriteLog, LTypes
  <2> QED
    BY <1>1, <1>2, <1>3, <1>4, <1>5, <2>1 DEF Contents, CommitLabels, Distinct, Elems, Logged, WriteLog
<1> QED
  BY <1>6, <1>7, Zenon

\* write_head makes the log count.
LEMMA WriteHeadContents ==
  ASSUME LInv, NEW p \in Procs, WriteHead(p)
  PROVE  Contents'
<1>1. pc[p] = "write_head" /\ pc[p] \in CommitLabels /\ Contents /\ Control /\ LTypes
  BY Zenon DEF WriteHead, Step, CommitLabels, LInv
<1>2. boot = "up" /\ committing /\ \A q \in Procs : q # p => pc[q] \notin CommitLabels
  BY <1>1, InCommit, Zenon
<1>3. /\ UNCHANGED <<disk, dlog, cache, dirty, lh, boot, buf, committing, tail>> /\ dhead' = lh
      /\ pc'[p] = "install" /\ \A q \in Procs : q # p => pc'[q] = pc[q]
  BY <1>1, Zenon DEF WriteHead, Step, LTypes
<1>4. tail = 0 /\ Len(lh) < NLOG /\ Logged(Len(lh)) /\ Distinct(lh)
  BY <1>1, <1>2, Zenon DEF Contents
<1>5. dirty = {lh[i] : i \in tail + 1 .. Len(lh)}
  BY <1>1, <1>2, <1>4 DEF Contents, CommitLabels, Elems
<1>6. tail <= Len(lh)
  BY <1>1, <1>4 DEF LTypes
<1> QED
  BY <1>1, <1>2, <1>3, <1>4, <1>5, <1>6 DEF Contents, CommitLabels, Distinct, Logged, Installed

\* One step of install_trans, in a commit or in recovery.
LEMMA InstallMore ==
  ASSUME LTypes, Distinct(lh), Len(lh) < NLOG, Installed(tail), install_trans
  PROVE  Installed(tail)' /\ tail' <= Len(lh) /\ tail' = tail + 1 /\ lh' = lh /\ lh[tail + 1] \in Blocks
<1>1. tail + 1 \in 1 .. Len(lh) /\ lh[tail + 1] \in Blocks /\ tail' = tail + 1 /\ lh' = lh /\ dlog' = dlog
  BY DEF LTypes, install_trans
<1>2. ASSUME NEW i \in 1 .. tail + 1 PROVE disk'[lh[i]] = dlog[i]
  <2>1. i \in 1 .. Len(lh) /\ lh[i] \in Blocks
    BY <1>1 DEF LTypes
  <2>2. disk'[lh[i]] = IF lh[i] = lh[tail + 1] THEN dlog[tail + 1] ELSE disk[lh[i]]
    BY <1>1, <2>1, Zenon DEF LTypes, install_trans
  <2>3. CASE i = tail + 1
    BY <2>2, <2>3, Zenon
  <2>4. CASE i # tail + 1
    <3>1. lh[i] # lh[tail + 1] /\ i \in 1 .. tail
      BY <1>1, <2>1, <2>4 DEF Distinct, LTypes
    <3> QED
      BY <2>2, <3>1, Zenon DEF Installed
  <2> QED
    BY <2>3, <2>4, Zenon
<1> QED
  BY <1>1, <1>2 DEF Installed

\* Installing a block in a commit changes nothing in the cache.
LEMMA InstallKeepsCache ==
  ASSUME LInv, NEW p \in Procs, Install(p)
  PROVE  cache' = cache
<1>1. pc[p] = "install" /\ boot = "up" /\ Contents /\ LTypes
  BY Zenon DEF Install, CommitLabels, LInv, Control
<1>2. tail + 1 \in 1 .. Len(lh) /\ Logged(Len(lh))
  BY <1>1 DEF Contents, Install, install_trans, LTypes
<1>3. lh[tail + 1] \in Blocks /\ dlog[tail + 1] = cache[lh[tail + 1]]
  BY <1>1, <1>2 DEF Logged, LTypes
<1> QED
  BY <1>1, <1>3, Zenon DEF Install, install_trans, LTypes

\* install_trans writes one block to its home.
LEMMA InstallContents ==
  ASSUME LInv, NEW p \in Procs, Install(p)
  PROVE  Contents'
<1>1. pc[p] = "install" /\ pc[p] \in CommitLabels /\ Contents /\ Control /\ LTypes
  BY Zenon DEF Install, CommitLabels, LInv
<1>2. boot = "up" /\ committing /\ \A q \in Procs : buf[q] = None /\ (q # p => pc[q] \notin CommitLabels)
  BY <1>1, InCommit, Zenon
<1>3. UNCHANGED <<dlog, dhead, lh, boot, pc, buf, committing>>
  BY Zenon DEF Install, install_trans
<1>4. /\ dhead = lh /\ tail < Len(lh) /\ Logged(Len(lh)) /\ Installed(tail)
      /\ dirty = {lh[i] : i \in tail + 1 .. Len(lh)} /\ Distinct(lh) /\ Len(lh) < NLOG
  BY <1>1, <1>2, Zenon DEF Contents, Install, install_trans
<1>5. Installed(tail)' /\ tail' <= Len(lh) /\ tail' = tail + 1 /\ lh[tail + 1] \in Blocks
  BY <1>1, <1>4, InstallMore, Zenon DEF Install
<1>6. cache' = cache
  BY InstallKeepsCache, Zenon
<1>7. dirty' = {lh[i] : i \in tail' + 1 .. Len(lh)}
  <2>1. dirty' = dirty \ {lh[tail + 1]}
    BY Zenon DEF Install, install_trans
  <2>2. tail \in Nat /\ Len(lh) \in Nat /\ tail + 1 \in 1 .. Len(lh)
    BY <1>1, <1>4 DEF LTypes
  <2>3. \A i \in tail + 1 .. Len(lh) : lh[i] = lh[tail + 1] <=> i = tail + 1
    BY <1>4, <2>2 DEF Distinct
  <2>4. \A i : i \in tail + 1 + 1 .. Len(lh) <=> i \in tail + 1 .. Len(lh) /\ i # tail + 1
    BY <2>2
  <2> QED
    BY <1>4, <1>5, <2>1, <2>3, <2>4, Zenon
<1>8. ASSUME NEW b \in Blocks, b \notin dirty' PROVE cache[b] = disk'[b]
  <2>1. CASE b = lh[tail + 1]
    BY <1>1, <1>4, <1>5, <2>1 DEF Install, install_trans, LTypes, Logged
  <2>2. CASE b # lh[tail + 1]
    <3>1. b \notin dirty /\ disk'[b] = disk[b]
      BY <1>1, <1>8, <2>2, Zenon DEF Install, install_trans, LTypes
    <3>2. \A q \in Procs : buf[q] # b
      BY <1>2, LogAssumption, Zenon
    <3> QED
      BY <1>1, <1>2, <3>1, <3>2, Zenon DEF Contents
  <2> QED
    BY <2>1, <2>2, Zenon
<1>9. Logged(Len(lh))'
  BY <1>3, <1>4, <1>6, Zenon DEF Logged
<1> QED
  BY <1>1, <1>2, <1>3, <1>4, <1>5, <1>6, <1>7, <1>8, <1>9 DEF Contents, CommitLabels, Distinct

\* The end of a commit.
LEMMA FinishContents ==
  ASSUME LInv, NEW p \in Procs, Erase(p) \/ CommitDone(p)
  PROVE  Contents'
<1>1. pc[p] \in CommitLabels /\ Contents /\ Control /\ LTypes
  BY Zenon DEF Erase, CommitDone, Step, CommitLabels, LInv
<1>2. boot = "up" /\ committing /\ \A q \in Procs : buf[q] = None /\ (q # p => pc[q] \notin CommitLabels)
  BY <1>1, InCommit, Zenon
<1>3. CASE Erase(p)
  <2>1. pc[p] = "install" /\ pc'[p] = "done" /\ \A q \in Procs : q # p => pc'[q] = pc[q]
    BY <1>1, <1>3, Zenon DEF Erase, Step, LTypes
  <2>2. /\ UNCHANGED <<disk, cache, dirty, buf, committing, boot>>
        /\ lh' = <<>> /\ dhead' = <<>> /\ tail = Len(lh)
    BY <1>3, Zenon DEF Erase, Clear
  <2>3. dirty = {}
    <3>1. dirty = {lh[i] : i \in tail + 1 .. Len(lh)}
      BY <1>1, <1>2, <2>1, Zenon DEF Contents
    <3>2. tail + 1 .. Len(lh) = {}
      <4>1. tail \in Nat /\ tail = Len(lh)
        BY <1>1, <2>2, Zenon DEF LTypes
      <4> QED
        BY <4>1
    <3> QED
      BY <3>1, <3>2, Zenon
  <2> QED
    BY <1>1, <1>2, <2>1, <2>2, <2>3, LogAssumption DEF Contents, CommitLabels, Distinct, Elems
<1>4. CASE CommitDone(p)
  <2>1. UNCHANGED <<disk, dlog, dhead, cache, dirty, lh, tail, boot, buf>> /\ pc[p] = "done"
    BY <1>4, Zenon DEF CommitDone, diskVars
  <2>2. \A q \in Procs : pc'[q] \notin CommitLabels
    BY <1>1, <1>2, <1>4, Zenon DEF CommitDone, Woken, CommitLabels, LTypes
  <2>3. lh = <<>> /\ dhead = <<>> /\ dirty = Elems(lh)
    BY <1>1, <1>2, <2>1 DEF Contents, CommitLabels
  <2> QED
    BY <1>1, <1>2, <2>1, <2>2, <2>3 DEF Contents, CommitLabels, Distinct, Elems
<1> QED
  BY <1>3, <1>4, Zenon

\* Overrunning, eviction, a crash and recovery.
LEMMA BootContents ==
  ASSUME LInv,
         \/ ReadHead \/ Recover \/ RecoverDone \/ Overran
         \/ \E p \in Procs, b \in Blocks : Overrun(p, b)
         \/ Volatile(disk) /\ UNCHANGED diskVars
  PROVE  Contents'
<1>1. Contents /\ Control /\ LTypes
  BY Zenon DEF LInv
<1>2. CASE ReadHead
  <2>1. boot' = "install" /\ lh' = dhead /\ tail' = 0 /\ UNCHANGED <<disk, dhead, cache, dirty>>
    BY <1>1, <1>2, Zenon DEF ReadHead, diskVars, Contents
  <2> QED
    BY <1>1, <1>2, <2>1 DEF Contents, Distinct, Installed, LTypes, ReadHead
<1>3. CASE Recover
  <2>1. /\ boot = "install" /\ boot' = boot /\ lh = dhead /\ Installed(tail) /\ Distinct(lh) /\ Len(lh) < NLOG
        /\ UNCHANGED dhead /\ cache = disk /\ dirty = {} /\ cache' = disk' /\ dirty' = {}
    BY <1>1, <1>3, Zenon DEF Recover, install_trans, Contents
  <2>2. Installed(tail)' /\ tail' <= Len(lh) /\ lh' = lh
    BY <1>1, <1>3, <2>1, InstallMore DEF Recover
  <2>3. Distinct(lh)' /\ Distinct(dhead)' /\ Len(dhead') < NLOG /\ lh' = dhead' /\ tail' <= Len(lh')
    BY <2>1, <2>2, Zenon
  <2>4. boot' # "up" /\ boot' # "read_head"
    BY <2>1
  <2> QED
    BY <2>1, <2>2, <2>3, <2>4, Zenon DEF Contents
<1>4. CASE RecoverDone
  <2>1. /\ boot' = "up" /\ lh' = <<>> /\ dhead' = <<>> /\ UNCHANGED <<disk, cache, dirty, pc>>
        /\ cache = disk /\ dirty = {} /\ \A q \in Procs : pc[q] = "idle"
    BY <1>1, <1>4, Zenon DEF RecoverDone, Clear, Contents, Control
  <2>2. Distinct(<<>>) /\ Elems(<<>>) = {} /\ Len(<<>>) < NLOG
    BY LogAssumption DEF Distinct, Elems
  <2>3. Distinct(lh)' /\ Distinct(dhead)' /\ Elems(lh)' = {} /\ Len(dhead') < NLOG
    BY <2>1, <2>2, Zenon
  <2>4. \A q \in Procs : pc'[q] \notin CommitLabels /\ pc'[q] = "idle"
    BY <2>1, Zenon DEF CommitLabels
  <2> QED
    BY <2>1, <2>3, <2>4, Zenon DEF Contents, CommitLabels
<1>5. CASE Overran
  BY <1>1, <1>5, Zenon DEF Overran, vars, diskVars, Contents
<1>6. ASSUME NEW p \in Procs, NEW b \in Blocks, Overrun(p, b) PROVE Contents'
  BY <1>1, <1>6, Zenon DEF Overrun, Contents
<1>7. CASE Volatile(disk) /\ UNCHANGED diskVars
  <2>1. boot' = "read_head" /\ lh' = <<>> /\ tail' = 0 /\ dhead' = dhead /\ cache' = disk' /\ dirty' = {}
    BY <1>7, Zenon DEF Volatile, diskVars
  <2>2. Distinct(<<>>)
    BY DEF Distinct
  <2> QED
    BY <1>1, <2>1, <2>2, Zenon DEF Contents
<1> QED
  BY <1>2, <1>3, <1>4, <1>5, <1>6, <1>7

\* Eviction changes nothing: the buffer it drops agrees with the disk.  While
\* the system boots all of them do.
LEMMA EvictKeepsCache ==
  ASSUME LInv, NEW b \in Blocks, Evict(b)
  PROVE  UNCHANGED vars
<1>1. cache[b] = disk[b]
  BY Zenon DEF LInv, LTypes, Contents, Evict
<1>2. cache' = cache
  BY <1>1, Zenon DEF Evict, LInv, LTypes
<1> QED
  BY <1>2, Zenon DEF Evict, vars

\* A stuttering step keeps the invariant.
LEMMA SameLInv == LInv /\ UNCHANGED vars => LInv'
BY DEF LInv, vars, diskVars, LTypes, Control, InOp, Contents, Distinct, Elems, Logged, Installed,
       SleeperHasReason, NoRoom

-----------------------------------------------------------------------------
\* Who goes to sleep for room finds calls in progress: otherwise the log is
\* empty, and one call fits.
LEMMA SleepStep ==
  ASSUME LInv, NEW p \in Procs, BeginOpSleeps(p)
  PROVE  SleeperHasReason'
<1>1. UNCHANGED <<lh, outstanding, committing, boot>> /\ pc[p] = "begin"
  BY Zenon DEF BeginOpSleeps, Step
<1>2. ~committing => NoRoom(p) /\ outstanding > 0
  <2> SUFFICES ASSUME ~committing PROVE NoRoom(p) /\ outstanding > 0
    BY Zenon
  <2>1. NoRoom(p)
    BY Zenon DEF BeginOpSleeps
  <2>2. boot = "up"
    BY <1>1, Zenon DEF LInv, LTypes, Control
  <2>3. outstanding = 0 => lh = <<>>
    BY <2>2, Zenon DEF LInv, Contents
  <2>4. outstanding # 0
    BY <2>1, <2>3, LogAssumption DEF NoRoom
  <2> QED
    BY <2>1, <2>4 DEF LInv, LTypes
<1>3. ASSUME NEW q \in Procs, pc'[q] = "sleep" PROVE (committing \/ (NoRoom(q) /\ outstanding > 0))'
  <2>1. q = p \/ pc[q] = "sleep"
    BY <1>3, Zenon DEF BeginOpSleeps, Step, LInv, LTypes
  <2> QED
    BY <1>1, <1>2, <2>1, Zenon DEF LInv, SleeperHasReason, NoRoom
<1> QED
  BY <1>3, Zenon DEF SleeperHasReason

\* Whatever else happens, a sleeper keeps its reason or is woken up.
LEMMA OtherSleepers ==
  ASSUME LInv, LTypes',
         \/ \E p \in Procs :
              \/ Call(p) \/ BeginOp(p) \/ LogWriteTest(p) \/ LogWrite(p) \/ EndOp(p) \/ EndLastOp(p)
              \/ \E b \in Blocks, v \in Vals : Modify(p, b, v)
              \/ WriteLog(p) \/ WriteHead(p) \/ Install(p) \/ Erase(p) \/ CommitDone(p)
              \/ \E b \in Blocks : Overrun(p, b)
         \/ ReadHead \/ Recover \/ RecoverDone \/ Volatile(disk)
  PROVE  SleeperHasReason'
<1> USE DEF Step
<1>1. SUFFICES ASSUME NEW q \in Procs, pc'[q] = "sleep"
               PROVE  committing' \/ (NoRoom(q)' /\ outstanding' > 0)
  BY Zenon DEF SleeperHasReason
<1>2. ASSUME NEW p \in Procs, EndOp(p) \/ CommitDone(p) PROVE FALSE
  <2>1. pc' = Woken([pc EXCEPT ![p] = "idle"])
    BY <1>2, Zenon DEF EndOp, CommitDone
  <2> QED
    BY <1>1, <2>1, Zenon DEF Woken
<1>3. ASSUME Volatile(disk) PROVE FALSE
  BY <1>1, <1>3, Zenon DEF Volatile
<1>4. ASSUME ReadHead \/ Recover \/ RecoverDone PROVE FALSE
  <2>1. pc' = pc /\ boot \in {"read_head", "install"}
    BY <1>4, Zenon DEF ReadHead, Recover, RecoverDone, install_trans
  <2> QED
    BY <1>1, <2>1, Zenon DEF LInv, Control
<1>5. ASSUME NEW p \in Procs,
             WriteLog(p) \/ WriteHead(p) \/ Install(p) \/ Erase(p) \/ \E b \in Blocks : Overrun(p, b)
      PROVE  committing'
  <2>1. pc[p] \in CommitLabels /\ UNCHANGED committing
    BY <1>5, Zenon DEF WriteLog, WriteHead, Install, install_trans, Erase, Clear, Overrun, CommitLabels
  <2> QED
    BY <2>1, Zenon DEF LInv, Control
<1>6. ASSUME NEW p \in Procs, EndLastOp(p) PROVE committing'
  BY <1>6, Zenon DEF EndLastOp
<1>7. ASSUME NEW p \in Procs,
             \/ Call(p) \/ BeginOp(p) \/ LogWriteTest(p) \/ LogWrite(p)
             \/ \E b \in Blocks, v \in Vals : Modify(p, b, v)
      PROVE  committing' \/ (NoRoom(q)' /\ outstanding' > 0)
  <2>1. pc[q] = "sleep"
    BY <1>1, <1>7, Zenon DEF Call, BeginOp, LogWriteTest, LogWrite, Modify, LInv, LTypes
  <2>2. committing \/ (NoRoom(q) /\ outstanding > 0)
    BY <2>1, Zenon DEF LInv, SleeperHasReason
  <2>3. UNCHANGED committing /\ outstanding' \in {outstanding, outstanding + 1}
    BY <1>7, Zenon DEF Call, BeginOp, LogWriteTest, LogWrite, Modify
  <2>4. Len(lh') >= Len(lh)
    <3>1. lh \in Seq(Blocks)
      BY Zenon DEF LInv, LTypes
    <3>2. CASE LogWrite(p)
      <4>1. buf[p] \in Blocks
        BY <3>2, LogWriteTypes, Zenon DEF LInv
      <4>2. lh' \in {lh, Append(lh, buf[p])}
        BY <3>2, Zenon DEF LogWrite
      <4> QED
        BY <3>1, <4>1, <4>2
    <3>3. CASE lh' = lh
      BY <3>1, <3>3
    <3> QED
      BY <1>7, <3>2, <3>3, Zenon DEF Call, BeginOp, LogWriteTest, Modify
  <2>6. Len(lh) \in Nat /\ Len(lh') \in Nat /\ outstanding \in Nat /\ outstanding' \in Nat
    BY DEF LInv, LTypes
  <2>5. (outstanding' + 1) * MAXOPBLOCKS >= (outstanding + 1) * MAXOPBLOCKS
    <3>1. MAXOPBLOCKS \in Nat
      BY LogAssumption, Zenon
    <3>2. \A o, m \in Nat : (o + 1 + 1) * m >= (o + 1) * m
      OBVIOUS
    <3>3. CASE outstanding' = outstanding
      BY <2>6, <3>1, <3>3
    <3>4. CASE outstanding' = outstanding + 1
      <4>1. (outstanding + 1 + 1) * MAXOPBLOCKS >= (outstanding + 1) * MAXOPBLOCKS
        BY <2>6, <3>1, <3>2, Zenon
      <4> QED
        BY <3>4, <4>1, Zenon
    <3> QED
      BY <2>3, <3>3, <3>4, Zenon
  <2> QED
    BY <2>2, <2>3, <2>4, <2>5, <2>6, LogAssumption DEF NoRoom
<1> QED
  BY <1>2, <1>3, <1>4, <1>5, <1>6, <1>7, Zenon

-----------------------------------------------------------------------------
\* The steps of the calls keep the invariant.
LEMMA ProcStep ==
  ASSUME LInv, NEW p \in Procs,
         \/ Call(p) \/ BeginOp(p) \/ BeginOpSleeps(p)
         \/ \E b \in Blocks, v \in Vals : Modify(p, b, v)
         \/ LogWriteTest(p) \/ LogWrite(p) \/ EndOp(p) \/ EndLastOp(p)
  PROVE  LInv'
<1>1. LTypes /\ Control
  BY Zenon DEF LInv
<1>2. LTypes'
  BY <1>1, CallTypes, LogWriteTypes, EndTypes, Zenon
<1>3. Control'
  BY <1>1, QuietControl, BeginControl, EndControl, Zenon
<1>4. Contents'
  BY CallContents, ModifyContents, LogWriteContents, EndLastContents, Zenon
<1>5. SleeperHasReason'
  BY <1>2, SleepStep, OtherSleepers, Zenon
<1> QED
  BY <1>2, <1>3, <1>4, <1>5, Zenon DEF LInv

\* The steps of a commit keep the invariant.
LEMMA CommitStep ==
  ASSUME LInv, NEW p \in Procs,
         \/ WriteLog(p) \/ WriteHead(p) \/ Install(p) \/ Erase(p) \/ CommitDone(p)
         \/ \E b \in Blocks : Overrun(p, b)
  PROVE  LInv'
<1>1. LTypes /\ Control
  BY Zenon DEF LInv
<1>2. LTypes'
  BY <1>1, CommitTypes, CallTypes, EndTypes
<1>3. Control'
  BY <1>1, CommitControl, Zenon
<1>4. Contents'
  BY WriteLogContents, WriteHeadContents, InstallContents, FinishContents, BootContents, Zenon
<1>5. SleeperHasReason'
  BY <1>2, OtherSleepers, Zenon
<1> QED
  BY <1>2, <1>3, <1>4, <1>5, Zenon DEF LInv

\* A crash or a panic, and recovery.
LEMMA BootStep ==
  ASSUME LInv, ReadHead \/ Recover \/ RecoverDone \/ Crash \/ \E p \in Procs : Panic(p)
  PROVE  LInv'
<1>1. LTypes /\ Control
  BY Zenon DEF LInv
<1>2. ReadHead \/ Recover \/ RecoverDone \/ (Volatile(disk) /\ UNCHANGED diskVars)
  BY Zenon DEF Crash, Panic
<1>3. LTypes'
  BY <1>1, <1>2, BootTypes, VolatileTypes
<1>4. Control'
  BY <1>1, <1>2, BootControl
<1>5. Contents'
  BY <1>2, BootContents, Zenon
<1>6. SleeperHasReason'
  BY <1>2, <1>3, OtherSleepers, Zenon
<1> QED
  BY <1>3, <1>4, <1>5, <1>6 DEF LInv

\* Every step keeps the invariant.
LEMMA NextLInv == LInv /\ [Next]_vars => LInv'
<1> SUFFICES ASSUME LInv, [Next]_vars PROVE LInv'
  BY Zenon
<1>1. CASE UNCHANGED vars
  BY <1>1, SameLInv, Zenon
<1>2. ASSUME NEW b \in Blocks, Evict(b) PROVE LInv'
  BY <1>2, EvictKeepsCache, SameLInv
<1>3. CASE Overran
  BY <1>3, SameLInv, Zenon DEF Overran
<1> QED
  BY <1>1, <1>2, <1>3, ProcStep, CommitStep, BootStep DEF Next

\* The inductive invariant of log.c: outstanding is exact, one commit runs at a
\* time and no call meanwhile, and in every phase of a commit or a recovery the
\* log, its header, the homes and the cache agree as that phase needs it.
THEOREM LogInductive == Spec => []LInv
<1>1. Init => LInv
  BY InitLInv, Zenon
<1>2. LInv /\ [Next]_vars => LInv'
  BY NextLInv, Zenon
<1> QED
  BY <1>1, <1>2, PTL DEF Spec

\* Once the last of the concurrent calls has returned from end_op, all that they
\* wrote survives a crash.
THEOREM LogDurable == Spec => []DurableWhenQuiet
<1>1. LInv => DurableWhenQuiet
  <2> SUFFICES ASSUME LInv, boot = "up", outstanding = 0, ~committing PROVE Recovered = cache
    BY Zenon DEF DurableWhenQuiet
  <2>1. lh = <<>> /\ \A p \in Procs : pc[p] # "install" /\ buf[p] = None
    <3>1. InOp = {}
      BY InOpFinite, FS_EmptySet, Zenon DEF LInv, Control
    <3> QED
      BY <3>1, Zenon DEF LInv, Control, Contents, InOp, CommitLabels
  <2>2. dhead = <<>> /\ dirty = {}
    BY <2>1 DEF LInv, Contents, Elems
  <2>3. \A b \in Blocks : cache[b] = disk[b]
    BY <2>1, <2>2, LogAssumption, Zenon DEF LInv, Contents
  <2> QED
    BY <2>2, <2>3 DEF Recovered, LInv, LTypes
<1> QED
  BY <1>1, LogInductive, PTL

\* A logged block stays in the cache, with B_DIRTY, until its transaction has
\* committed and it is installed, and a buffer that may be evicted agrees with
\* the disk.
THEOREM LogPinned == Spec => []PinnedUntilInstalled
<1>1. LInv => PinnedUntilInstalled
  <2> SUFFICES ASSUME LInv, boot = "up", NEW b \in Blocks
               PROVE  /\ b \notin dirty /\ (\A p \in Procs : buf[p] # b) => cache[b] = disk[b]
                      /\ (\E i \in tail + 1 .. Len(lh) : lh[i] = b) => b \in dirty
    BY Zenon DEF PinnedUntilInstalled
  <2>1. b \notin dirty /\ (\A p \in Procs : buf[p] # b) => cache[b] = disk[b]
    BY Zenon DEF LInv, Contents
  <2>2. ASSUME NEW i \in tail + 1 .. Len(lh), lh[i] = b PROVE b \in dirty
    <3>1. CASE \E p \in Procs : pc[p] = "install"
      BY <2>2, <3>1, Zenon DEF LInv, Contents
    <3>2. CASE \A p \in Procs : pc[p] # "install"
      BY <2>2, <3>2 DEF LInv, LTypes, Contents, Elems
    <3> QED
      BY <3>1, <3>2, Zenon
  <2> QED
    BY <2>1, <2>2, Zenon
<1> QED
  BY <1>1, LogInductive, PTL

\* Nobody sleeps in begin_op without a commit or calls in progress whose end
\* will wake it up.
THEOREM LogSleepers == Spec => []SleeperHasReason
<1>1. LInv => SleeperHasReason
  BY Zenon DEF LInv
<1> QED
  BY <1>1, LogInductive, PTL

-----------------------------------------------------------------------------
\* What a system call reads: the cache, or what boot is about to restore.
Current == IF boot = "up" THEN cache ELSE Recovered

\* Recovery with an empty header changes nothing.
LEMMA RecoveredEmpty ==
  ASSUME LTypes, dhead = <<>>
  PROVE  Recovered = disk
BY DEF Recovered, LTypes

\* When all of the header is installed, recovery changes nothing.
LEMMA RecoveredInstalled ==
  ASSUME LTypes, lh = dhead, tail = Len(lh), Installed(tail)
  PROVE  Recovered = disk
<1>1. ASSUME NEW b \in Blocks PROVE Recovered[b] = disk[b]
  <2>1. CASE \E i \in 1 .. Len(dhead) : dhead[i] = b
    <3> DEFINE i == CHOOSE j \in 1 .. Len(dhead) : dhead[j] = b
    <3>1. i \in 1 .. Len(dhead) /\ dhead[i] = b
      BY <2>1, Zenon
    <3>2. Recovered[b] = dlog[i]
      BY <2>1, Zenon DEF Recovered
    <3>3. disk[dhead[i]] = dlog[i]
      BY <3>1, Zenon DEF Installed
    <3> QED
      BY <3>1, <3>2, <3>3, Zenon
  <2>2. CASE ~\E i \in 1 .. Len(dhead) : dhead[i] = b
    BY <2>2, Zenon DEF Recovered
  <2> QED
    BY <2>1, <2>2, Zenon
<1> QED
  BY <1>1, Zenon DEF Recovered, LTypes

\* Recovered is a function of the disk alone.
LEMMA RecoveredSame == UNCHANGED diskVars => Recovered' = Recovered
BY Zenon DEF Recovered, diskVars

\* Installing a block does not change what recovery leaves.
LEMMA RecoveredInstall ==
  ASSUME LTypes, lh = dhead, install_trans
  PROVE  Recovered' = Recovered
<1>1. /\ tail + 1 \in 1 .. Len(dhead) /\ UNCHANGED <<dlog, dhead>>
      /\ disk' = [disk EXCEPT ![dhead[tail + 1]] = dlog[tail + 1]]
  BY DEF LTypes, install_trans
<1>2. ASSUME NEW b \in Blocks, ~\E i \in 1 .. Len(dhead) : dhead[i] = b PROVE disk'[b] = disk[b]
  BY <1>1, <1>2, Zenon DEF LTypes
<1> QED
  BY <1>1, <1>2, Zenon DEF Recovered

\* The header commits what is in the cache.
LEMMA RecoveredCommits ==
  ASSUME LInv, NEW p \in Procs, WriteHead(p)
  PROVE  Recovered' = cache
<1>1. pc[p] = "write_head" /\ pc[p] \in CommitLabels /\ LTypes /\ Control /\ Contents
  BY Zenon DEF WriteHead, Step, CommitLabels, LInv
<1>2. boot = "up" /\ \A q \in Procs : buf[q] = None /\ (q # p => pc[q] \notin CommitLabels)
  BY <1>1, InCommit, Zenon
<1>3. Logged(Len(lh)) /\ dirty = Elems(lh)
  BY <1>1, <1>2, Zenon DEF Contents, CommitLabels
<1>4. dhead' = lh /\ UNCHANGED <<dlog, disk>>
  BY Zenon DEF WriteHead
<1>5. ASSUME NEW b \in Blocks PROVE Recovered'[b] = cache[b]
  <2>1. CASE \E i \in 1 .. Len(lh) : lh[i] = b
    <3> DEFINE i == CHOOSE j \in 1 .. Len(lh) : lh[j] = b
    <3>1. i \in 1 .. Len(lh) /\ lh[i] = b
      BY <2>1, Zenon
    <3>2. Recovered'[b] = dlog[i]
      BY <1>4, <2>1, Zenon DEF Recovered
    <3> QED
      BY <1>3, <3>1, <3>2 DEF Logged
  <2>2. CASE ~\E i \in 1 .. Len(lh) : lh[i] = b
    <3>1. Recovered'[b] = disk[b]
      BY <1>4, <2>2, Zenon DEF Recovered
    <3>2. b \notin dirty /\ \A q \in Procs : buf[q] # b
      BY <1>2, <1>3, <2>2, LogAssumption, Zenon DEF Elems
    <3> QED
      BY <1>1, <1>2, <3>1, <3>2, Zenon DEF Contents
  <2> QED
    BY <2>1, <2>2, Zenon
<1> QED
  BY <1>1, <1>5, Zenon DEF Recovered, LTypes

-----------------------------------------------------------------------------
\* A step that keeps what AtomicLog is about.
LEMMA Stutters ==
  ASSUME UNCHANGED <<Current, Recovered, InOp>>, boot = "overrun" <=> boot' = "overrun"
  PROVE  UNCHANGED Atomic!avars
BY Zenon DEF Atomic!avars, Current

\* The steps of the calls are steps of AtomicLog.
LEMMA CallRefines ==
  ASSUME LInv, NEW p \in Procs,
         \/ Call(p) \/ BeginOp(p) \/ BeginOpSleeps(p)
         \/ \E b \in Blocks, v \in Vals : Modify(p, b, v)
         \/ LogWriteTest(p) \/ LogWrite(p) \/ EndOp(p) \/ EndLastOp(p)
  PROVE  [Atomic!ANext]_(Atomic!avars)
<1> USE DEF Step
<1>1. UNCHANGED <<diskVars, boot>> /\ Recovered' = Recovered
  BY RecoveredSame, Zenon DEF Call, BeginOp, BeginOpSleeps, Modify, LogWriteTest, LogWrite, EndOp, EndLastOp
<1>2. CASE Call(p) \/ BeginOpSleeps(p) \/ LogWriteTest(p) \/ LogWrite(p)
  <2>1. InOp' = InOp
    BY <1>2, Zenon DEF InOp, Call, BeginOpSleeps, LogWriteTest, LogWrite, LInv, LTypes
  <2>2. cache' = cache
    BY <1>2, Zenon DEF Call, BeginOpSleeps, LogWriteTest, LogWrite
  <2>3. Current' = Current
    BY <1>1, <2>2, Zenon DEF Current
  <2> QED
    BY <1>1, <2>1, <2>3, Stutters
<1>3. CASE BeginOp(p)
  <2>1. p \notin InOp /\ InOp' = InOp \cup {p}
    BY <1>3, Zenon DEF InOp, BeginOp, LInv, LTypes
  <2>2. cache' = cache
    BY <1>3, Zenon DEF BeginOp
  <2>3. Atomic!ABegin(p)
    BY <1>1, <2>1, <2>2, Zenon DEF Atomic!ABegin
  <2> QED
    BY <2>3, Zenon DEF Atomic!ANext
<1>4. ASSUME NEW b \in Blocks, NEW v \in Vals, Modify(p, b, v) PROVE Atomic!ANext
  <2>1. p \in InOp /\ InOp' = InOp
    BY <1>4, Zenon DEF InOp, Modify, LInv, LTypes
  <2>2. boot = "up"
    BY <2>1, OpNoCommit, Zenon DEF LInv
  <2>3. cache' = [cache EXCEPT ![b] = v]
    BY <1>4, Zenon DEF Modify
  <2>4. Atomic!AWrite(p, b, v)
    BY <1>1, <2>1, <2>2, <2>3 DEF Atomic!AWrite
  <2> QED
    BY <2>4, Zenon DEF Atomic!ANext
<1>5. CASE EndOp(p) \/ EndLastOp(p)
  <2>1. p \in InOp /\ InOp' = InOp \ {p}
    BY <1>5, Zenon DEF InOp, EndOp, EndLastOp, Woken, LInv, LTypes
  <2>2. cache' = cache
    BY <1>5, Zenon DEF EndOp, EndLastOp
  <2>3. Atomic!AEnd(p)
    BY <1>1, <2>1, <2>2, Zenon DEF Atomic!AEnd
  <2> QED
    BY <2>3, Zenon DEF Atomic!ANext
<1> QED
  BY <1>2, <1>3, <1>4, <1>5

\* In a commit only the write of the header changes what is durable.
LEMMA CommitRefines ==
  ASSUME LInv, NEW p \in Procs,
         \/ WriteLog(p) \/ WriteHead(p) \/ Install(p) \/ Erase(p) \/ CommitDone(p)
         \/ \E b \in Blocks : Overrun(p, b)
  PROVE  [Atomic!ANext]_(Atomic!avars)
<1> USE DEF Step
<1>1. LTypes /\ Control /\ Contents /\ LTypes' /\ Control'
  BY CommitStep, Zenon DEF LInv
<1>2. pc[p] \in CommitLabels
  BY Zenon DEF WriteLog, WriteHead, Install, Erase, CommitDone, Overrun, CommitLabels
<1>3. boot = "up" /\ InOp = {} /\ \A q \in Procs : q # p => pc[q] \notin CommitLabels
  BY <1>1, <1>2, InCommit, Zenon
<1>4. InOp' = {}
  <2>1. \A q \in Procs : pc'[q] \in OpLabels => pc[q] \in OpLabels
    BY <1>1 DEF WriteLog, WriteHead, Install, install_trans, Erase, CommitDone, Overrun, Woken, OpLabels, LTypes
  <2> QED
    BY <1>3, <2>1 DEF InOp, OpLabels
<1>5. CASE WriteHead(p)
  <2>1. Recovered' = cache /\ UNCHANGED <<cache, boot>>
    BY <1>5, RecoveredCommits, Zenon DEF WriteHead
  <2>2. Atomic!ACommit
    BY <1>3, <1>4, <2>1 DEF Atomic!ACommit
  <2> QED
    BY <2>2, Zenon DEF Atomic!ANext
<1>6. ASSUME NEW b \in Blocks, Overrun(p, b) PROVE Atomic!ANext
  <2>1. Atomic!AOverrun
    BY <1>3, <1>6, Zenon DEF Atomic!AOverrun, Overrun
  <2> QED
    BY <2>1, Zenon DEF Atomic!ANext
<1>7. CASE WriteLog(p) \/ Install(p) \/ Erase(p) \/ CommitDone(p)
  <2>1. Recovered' = Recovered
    <3>1. CASE WriteLog(p)
      <4>1. dhead = <<>> /\ dhead' = <<>> /\ disk' = disk
        BY <1>1, <1>3, <3>1, Zenon DEF WriteLog, Contents, CommitLabels
      <4> QED
        BY <4>1 DEF Recovered
    <3>2. CASE Install(p)
      <4>1. lh = dhead /\ install_trans
        BY <1>1, <1>3, <3>2, Zenon DEF Install, Contents
      <4> QED
        BY <1>1, <4>1, RecoveredInstall, Zenon
    <3>3. CASE Erase(p)
      <4>1. lh = dhead /\ tail = Len(lh) /\ Installed(tail) /\ dhead' = <<>> /\ disk' = disk
        BY <1>1, <1>3, <3>3, Zenon DEF Erase, Clear, Contents
      <4>2. Recovered = disk
        BY <1>1, <4>1, RecoveredInstalled, Zenon
      <4>3. Recovered' = disk'
        BY <1>1, <4>1 DEF Recovered, LTypes
      <4> QED
        BY <4>1, <4>2, <4>3, Zenon
    <3>4. CASE CommitDone(p)
      BY <3>4, RecoveredSame, Zenon DEF CommitDone
    <3> QED
      BY <1>7, <3>1, <3>2, <3>3, <3>4
  <2>2. cache' = cache /\ boot' = boot
    BY <1>7, InstallKeepsCache, Zenon DEF WriteLog, Install, install_trans, Erase, Clear, CommitDone
  <2>3. Current' = Current
    BY <2>1, <2>2, Zenon DEF Current
  <2> QED
    BY <1>3, <1>4, <2>1, <2>2, <2>3, Stutters
<1> QED
  BY <1>5, <1>6, <1>7, Zenon

\* A crash loses what is not committed; recovery changes nothing durable.
LEMMA BootRefines ==
  ASSUME LInv, ReadHead \/ Recover \/ RecoverDone \/ Crash \/ \E p \in Procs : Panic(p)
  PROVE  [Atomic!ANext]_(Atomic!avars)
<1>1. LTypes /\ Control /\ Contents /\ LTypes'
  BY BootStep, Zenon DEF LInv
<1>2. CASE Crash \/ \E p \in Procs : Panic(p)
  <2>1. Volatile(disk) /\ UNCHANGED diskVars
    BY <1>2, Zenon DEF Crash, Panic
  <2>2. Recovered' = Recovered /\ boot' = "read_head" /\ InOp' = {}
    BY <2>1, RecoveredSame, Zenon DEF Volatile, InOp
  <2>3. boot # "overrun"
    BY <1>1, <1>2, Zenon DEF Crash, Panic, Control, OpLabels
  <2>4. Atomic!ACrash
    BY <2>2, <2>3, Zenon DEF Atomic!ACrash
  <2> QED
    BY <2>4, Zenon DEF Atomic!ANext
<1>3. CASE ReadHead \/ Recover \/ RecoverDone
  <2>1. boot \in {"read_head", "install"} /\ boot' \in {"install", "up"} /\ pc' = pc
    BY <1>3, Zenon DEF ReadHead, Recover, install_trans, RecoverDone
  <2>2. InOp' = InOp
    BY <2>1, Zenon DEF InOp
  <2>3. Recovered' = Recovered /\ (boot' = "up" => cache' = Recovered)
    <3>1. CASE ReadHead
      BY <3>1, RecoveredSame, Zenon DEF ReadHead
    <3>2. CASE Recover
      <4>1. lh = dhead /\ install_trans /\ boot' = "install"
        BY <1>1, <3>2 DEF Recover, Contents, install_trans
      <4> QED
        BY <1>1, <4>1, RecoveredInstall, Zenon
    <3>3. CASE RecoverDone
      <4>1. /\ lh = dhead /\ tail = Len(lh) /\ Installed(tail) /\ cache = disk
            /\ dhead' = <<>> /\ UNCHANGED <<disk, cache>>
        BY <1>1, <3>3, Zenon DEF RecoverDone, Clear, Contents
      <4>2. Recovered = disk
        BY <1>1, <4>1, RecoveredInstalled
      <4>3. Recovered' = disk'
        BY <1>1, <4>1 DEF Recovered, LTypes
      <4> QED
        BY <4>1, <4>2, <4>3, Zenon
    <3> QED
      BY <1>3, <3>1, <3>2, <3>3, Zenon
  <2>4. Current' = Current
    BY <2>1, <2>3, Zenon DEF Current
  <2> QED
    BY <2>1, <2>2, <2>3, <2>4, Stutters
<1> QED
  BY <1>2, <1>3, Zenon

\* A stuttering step stutters.
LEMMA SameRefines == UNCHANGED vars => UNCHANGED Atomic!avars
<1> SUFFICES ASSUME UNCHANGED vars PROVE UNCHANGED Atomic!avars
  BY Zenon
<1>1. UNCHANGED <<cache, boot, pc>> /\ UNCHANGED diskVars
  BY Zenon DEF vars
<1>2. UNCHANGED <<Current, Recovered, InOp>>
  BY <1>1, RecoveredSame, Zenon DEF Current, InOp
<1> QED
  BY <1>1, <1>2, Stutters, Zenon

\* The log of log.c implements atomic and durable transactions: whatever the
\* moment of a crash, a panic, an eviction or a second crash during recovery,
\* the contents after recovery are those at a moment when no file-system call
\* was in progress, as long as the log was not overrun.
THEOREM LogIsAtomic == Spec => AtomicSpec
<1>1. Init => Atomic!AInit
  <2> SUFFICES ASSUME Init PROVE Atomic!AInit
    BY Zenon
  <2>1. LTypes /\ dhead = <<>> /\ boot = "read_head"
    BY InitLInv, Zenon DEF LInv, Init
  <2>2. Recovered = disk
    BY <2>1, RecoveredEmpty, Zenon
  <2>3. InOp = {}
    BY Zenon DEF Init, InOp
  <2> QED
    BY <2>1, <2>2, <2>3, Zenon DEF Atomic!AInit, LTypes
<1>2. LInv /\ [Next]_vars => [Atomic!ANext]_(Atomic!avars)
  <2> SUFFICES ASSUME LInv, [Next]_vars PROVE [Atomic!ANext]_(Atomic!avars)
    BY Zenon
  <2>1. CASE UNCHANGED vars
    BY <2>1, SameRefines, Zenon
  <2>2. ASSUME NEW b \in Blocks, Evict(b) PROVE UNCHANGED Atomic!avars
    BY <2>2, EvictKeepsCache, SameRefines, Zenon
  <2>3. CASE Overran
    BY <2>3, SameRefines, Zenon DEF Overran
  <2> QED
    BY <2>1, <2>2, <2>3, CallRefines, CommitRefines, BootRefines, Zenon DEF Next
<1>3. QED
  BY <1>1, <1>2, LogInductive, PTL DEF Spec, AtomicSpec, Atomic!ASpec
=============================================================================
