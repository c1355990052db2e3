----------------------------- MODULE PipeProofs -----------------------------
(***************************************************************************)
(* Proofs about the pipe: for any number of readers and writers, any size  *)
(* of the buffer and any width of the counters it is a bounded FIFO queue, *)
(* also where nread and nwrite wrap around, and no wakeup is lost.         *)
(***************************************************************************)
EXTENDS Pipe, SequenceTheorems, TLAPS

------------------------------------------------------------------------------
(* Remainders: n % S is the only r below S with n = S * a + r.             *)
LEMMA ModOf ==
  ASSUME NEW S \in Nat \ {0}, NEW n \in Nat, NEW a \in Int, NEW r \in 0 .. S - 1, n = S * a + r
  PROVE  n % S = r
<1> DEFINE t == n % S
           k == a - (n \div S)
<1>1. n = S * (n \div S) + t /\ t \in 0 .. S - 1
  OBVIOUS
<1>2. k \in Int /\ S * k = t - r /\ t \in 0 .. S - 1
  BY <1>1
<1> HIDE DEF k, t
<1>3. CASE k <= -1
  <2>1. S * k <= -S
    BY <1>2, <1>3
  <2>2. QED
    BY <1>2, <2>1
<1>4. CASE k >= 1
  <2>1. S * k >= S
    BY <1>2, <1>4
  <2>2. QED
    BY <1>2, <2>1
<1>5. CASE k = 0
  BY <1>2, <1>5 DEF t
<1>6. QED
  BY <1>2, <1>3, <1>4, <1>5

(* A sum of two counters wraps around at most once.                        *)
LEMMA ModWrap ==
  ASSUME NEW S \in Nat \ {0}, NEW n \in 0 .. 2 * S - 1
  PROVE  n % S = (IF n < S THEN n ELSE n - S)
<1>1. CASE n < S
  <2>1. n \in 0 .. S - 1 /\ n = S * 0 + n
    BY <1>1
  <2>2. QED
    BY <1>1, <2>1, ModOf
<1>2. CASE n >= S
  <2>1. n - S \in 0 .. S - 1 /\ n = S * 1 + (n - S) /\ n \in Nat
    BY <1>2
  <2>2. n % S = n - S
    BY <2>1, ModOf
  <2>3. QED
    BY <1>2, <2>2
<1>3. QED
  BY <1>1, <1>2

(* A multiple of S does not change the remainder.                          *)
LEMMA ModShift ==
  ASSUME NEW S \in Nat \ {0}, NEW U \in Nat, U % S = 0, NEW n \in Nat
  PROVE  (n + U) % S = n % S
<1> DEFINE r == n % S
           a == (n \div S) + (U \div S)
<1>1. n = S * (n \div S) + r /\ U = S * (U \div S) + 0 /\ r \in 0 .. S - 1
  OBVIOUS
<1>2. a \in Int /\ n + U = S * a + r /\ n + U \in Nat
  BY <1>1
<1> HIDE DEF a, r
<1>3. (n + U) % S = r
  BY <1>1, <1>2, ModOf, Zenon
<1>4. QED
  BY <1>3, Zenon DEF r

(* Numbers less than S apart have different remainders.                    *)
LEMMA ModDiffer ==
  ASSUME NEW S \in Nat \ {0}, NEW a \in Nat, NEW b \in Nat, a < b, b < a + S
  PROVE  a % S # b % S
<1>1. SUFFICES ASSUME a % S = b % S PROVE FALSE
  BY Zenon
<1>2. a = S * (a \div S) + (a % S) /\ b = S * (b \div S) + (b % S)
  OBVIOUS
<1> DEFINE k == (b \div S) - (a \div S)
<1>3. k \in Int /\ b - a = S * k
  BY <1>1, <1>2
<1> HIDE DEF k
<1>4. CASE k <= 0
  <2>1. S * k <= 0
    BY <1>3, <1>4
  <2>2. QED
    BY <1>3, <2>1
<1>5. CASE k >= 1
  <2>1. S * k >= S
    BY <1>3, <1>5
  <2>2. QED
    BY <1>3, <2>1
<1>6. QED
  BY <1>3, <1>4, <1>5

------------------------------------------------------------------------------
(* The counters.  They are below UINT, and never more than PIPESIZE apart. *)
Counters == nread \in 0 .. UINT - 1 /\ nwrite \in 0 .. UINT - 1 /\ Count <= PIPESIZE

(* What the unsigned difference of two counters is.                        *)
LEMMA Distance ==
  ASSUME NEW a \in 0 .. UINT - 1, NEW b \in 0 .. UINT - 1
  PROVE  (a + UINT - b) % UINT = (IF a < b THEN a + UINT - b ELSE a - b)
<1>1. UINT \in Nat \ {0} /\ a + UINT - b \in 0 .. 2 * UINT - 1
  BY PipeAssumption
<1>2. (a + UINT - b) % UINT = (IF a + UINT - b < UINT THEN a + UINT - b ELSE (a + UINT - b) - UINT)
  BY <1>1, ModWrap, Zenon
<1>3. QED
  BY <1>1, <1>2

(* Advancing nwrite or nread, also across UINT.                            *)
LEMMA Advance ==
  ASSUME NEW a \in 0 .. UINT - 1, NEW k \in 0 .. PIPESIZE
  PROVE  /\ (a + k) % UINT = (IF a + k < UINT THEN a + k ELSE a + k - UINT)
         /\ (a + k) % UINT \in 0 .. UINT - 1
<1>1. UINT \in Nat \ {0} /\ a + k \in 0 .. 2 * UINT - 1
  BY PipeAssumption
<1>2. (a + k) % UINT = (IF a + k < UINT THEN a + k ELSE (a + k) - UINT)
  BY <1>1, ModWrap, Zenon
<1>3. QED
  BY <1>1, <1>2

(* nwrite == nread + PIPESIZE and nread == nwrite test what they mean.     *)
LEMMA Tests ==
  ASSUME Counters
  PROVE  /\ Count \in 0 .. PIPESIZE
         /\ Count = (IF nwrite < nread THEN nwrite + UINT - nread ELSE nwrite - nread)
         /\ Empty <=> Count = 0
         /\ Full <=> Count = PIPESIZE
<1>1. Count = (IF nwrite < nread THEN nwrite + UINT - nread ELSE nwrite - nread)
  BY Distance, Zenon DEF Counters, Count
<1>2. UINT \in Nat /\ PIPESIZE \in Nat /\ UINT > PIPESIZE /\ UINT \in Nat \ {0}
  BY PipeAssumption
<1>3. nread \in 0 .. UINT - 1 /\ PIPESIZE \in 0 .. PIPESIZE
  BY <1>2 DEF Counters
<1>4. (nread + PIPESIZE) % UINT = (IF nread + PIPESIZE < UINT THEN nread + PIPESIZE
                                                              ELSE nread + PIPESIZE - UINT)
  BY <1>3, Advance, Zenon
<1> HIDE DEF Count
<1>5. nread \in 0 .. UINT - 1 /\ nwrite \in 0 .. UINT - 1 /\ Count <= PIPESIZE
  BY Zenon DEF Counters
<1>6. Count \in 0 .. PIPESIZE /\ (nread = nwrite <=> Count = 0)
  BY <1>1, <1>2, <1>5
<1>7. nwrite = (nread + PIPESIZE) % UINT <=> Count = PIPESIZE
  BY <1>1, <1>2, <1>4, <1>5
<1>8. QED
  BY <1>1, <1>6, <1>7, Zenon DEF Empty, Full

\* The test of pipewrite, as an implication.
LEMMA FullTest == Counters => (Full <=> Count = PIPESIZE)
BY Tests, Zenon

(* Advancing nwrite by what fits, and nread by what there is.              *)
LEMMA AdvanceWrite ==
  ASSUME Counters, NEW k \in 0 .. PIPESIZE - Count, nwrite' = (nwrite + k) % UINT, nread' = nread
  PROVE  Counters' /\ Count' = Count + k
<1>1. /\ Count \in 0 .. PIPESIZE /\ k \in 0 .. PIPESIZE
      /\ Count = (IF nwrite < nread THEN nwrite + UINT - nread ELSE nwrite - nread)
  BY Tests, PipeAssumption
<1>2. /\ nwrite' = (IF nwrite + k < UINT THEN nwrite + k ELSE nwrite + k - UINT)
      /\ nwrite' \in 0 .. UINT - 1
  BY <1>1, Advance, Zenon DEF Counters
<1>3. Count' = (IF nwrite' < nread THEN nwrite' + UINT - nread ELSE nwrite' - nread)
  BY <1>2, Distance, Zenon DEF Counters, Count
<1>4. Count' = Count + k
  BY <1>1, <1>2, <1>3, PipeAssumption DEF Counters
<1>5. QED
  BY <1>1, <1>2, <1>4, PipeAssumption DEF Counters

\* Reading what there is.
LEMMA AdvanceRead ==
  ASSUME Counters, NEW k \in 0 .. Count, nread' = (nread + k) % UINT, nwrite' = nwrite
  PROVE  Counters' /\ Count' = Count - k
<1>1. /\ Count \in 0 .. PIPESIZE /\ k \in 0 .. PIPESIZE
      /\ Count = (IF nwrite < nread THEN nwrite + UINT - nread ELSE nwrite - nread)
  BY Tests, PipeAssumption
<1>2. /\ nread' = (IF nread + k < UINT THEN nread + k ELSE nread + k - UINT)
      /\ nread' \in 0 .. UINT - 1
  BY <1>1, Advance, Zenon DEF Counters
<1>3. Count' = (IF nwrite < nread' THEN nwrite + UINT - nread' ELSE nwrite - nread')
  BY <1>2, Distance, Zenon DEF Counters, Count
<1>4. Count' = Count - k
  BY <1>1, <1>2, <1>3, PipeAssumption DEF Counters
<1>5. QED
  BY <1>1, <1>2, <1>4, PipeAssumption DEF Counters

(* The place of the next byte to write, counted from nread.                *)
LEMMA Place ==
  ASSUME Counters, NEW i \in Nat
  PROVE  (nwrite + i) % PIPESIZE = (nread + Count + i) % PIPESIZE
<1>1. nread + Count = nwrite \/ nread + Count = nwrite + UINT
  BY Tests, PipeAssumption DEF Counters
<1>2. nwrite + i \in Nat /\ PIPESIZE \in Nat \ {0} /\ UINT \in Nat /\ UINT % PIPESIZE = 0
  BY PipeAssumption DEF Counters
<1>3. ((nwrite + i) + UINT) % PIPESIZE = (nwrite + i) % PIPESIZE
  BY <1>2, ModShift, Zenon
<1>4. (nwrite + i) + UINT = nwrite + UINT + i
  BY <1>2 DEF Counters
<1>5. QED
  BY <1>1, <1>3, <1>4, Zenon

------------------------------------------------------------------------------
(* The inductive invariant.                                                *)

Labels == {"user", "call", "presleep", "sleep", "dead"}

PTypes ==
  /\ data \in [0 .. PIPESIZE - 1 -> Bytes]
  /\ Counters
  /\ pc \in [Procs -> Labels]
  /\ addr \in [Writers -> Seq(Bytes)] /\ len \in [Readers -> Nat] /\ DOMAIN killed = Procs

\* A closed end has no process any more.
Ends == /\ ~readopen => \A p \in Readers : pc[p] = "dead"
        /\ ~writeopen => \A p \in Writers : pc[p] = "dead"

\* What a sleeping process waits for has not happened.  That is so from its
\* test on, while it still holds p->lock.
HasReason(p) == IF p \in Readers THEN Empty /\ writeopen ELSE Full /\ readopen
WakeInv ==
  (\A p \in Procs : ~killed[p]) =>
    \A p \in Procs : pc[p] \in {"presleep", "sleep"} => HasReason(p)

PInv == PTypes /\ Ends /\ WakeInv

(* Storing k bytes that fit.                                               *)
LEMMA StoreTypes ==
  ASSUME PTypes, NEW p \in Writers, NEW k \in 0 .. PIPESIZE - Count, k <= Len(addr[p]), Store(p, k)
  PROVE  data' \in [0 .. PIPESIZE - 1 -> Bytes] /\ Counters' /\ Count' = Count + k
<1>1. nwrite' = (nwrite + k) % UINT /\ nread' = nread /\ Counters
  BY Zenon DEF Store, PTypes
<1>2. Counters' /\ Count' = Count + k
  BY <1>1, AdvanceWrite, Zenon
<1>3. DOMAIN data = 0 .. PIPESIZE - 1 /\ \A j \in 0 .. PIPESIZE - 1 : data[j] \in Bytes
  BY Zenon DEF PTypes
<1>4. \A i \in 1 .. k : addr[p][i] \in Bytes
  <2>1. addr[p] \in Seq(Bytes)
    BY Zenon DEF PTypes
  <2>2. \A i \in 1 .. Len(addr[p]) : addr[p][i] \in Bytes
    BY <2>1
  <2>3. Len(addr[p]) \in Nat /\ k \in Int
    BY <2>1
  <2>4. QED
    BY <2>2, <2>3
<1>5. ASSUME NEW j \in 0 .. PIPESIZE - 1
      PROVE  (IF \E i \in 1 .. k : (nwrite + i - 1) % PIPESIZE = j
                THEN addr[p][CHOOSE i \in 1 .. k : (nwrite + i - 1) % PIPESIZE = j]
                ELSE data[j]) \in Bytes
  BY <1>3, <1>4, Zenon
<1>6. QED
  BY <1>2, <1>3, <1>5, Zenon DEF Store

(* wakeup().                                                               *)
LEMMA WokenOf ==
  ASSUME NEW f \in [Procs -> Labels], NEW Q
  PROVE  /\ Woken(f, Q) \in [Procs -> Labels]
         /\ \A p \in Procs : Woken(f, Q)[p] = (IF p \in Q /\ f[p] = "sleep" THEN "call" ELSE f[p])
BY Zenon DEF Woken, Labels

(* How much pipewrite stores.                                              *)
LEMMA WriteAmount ==
  ASSUME PTypes, NEW p \in Writers
  PROVE  /\ Count \in 0 .. PIPESIZE /\ PIPESIZE \in Nat /\ Len(addr[p]) \in Nat
         /\ Len(addr[p]) <= PIPESIZE - Count => Len(addr[p]) \in 0 .. PIPESIZE - Count
         /\ PIPESIZE - Count \in 0 .. PIPESIZE - Count
<1>1. Count \in 0 .. PIPESIZE /\ PIPESIZE \in Nat
  BY Tests, PipeAssumption, Zenon DEF PTypes
<1>2. Len(addr[p]) \in Nat
  BY DEF PTypes
<1>3. QED
  BY <1>1, <1>2

(* What WriteAll and WriteFull do to the buffer: k bytes that fit, from    *)
(* the front of addr[p].                                                   *)
LEMMA WriteEffect ==
  ASSUME PTypes, NEW p \in Writers, WriteAll(p) \/ WriteFull(p)
  PROVE  \E k \in 0 .. PIPESIZE - Count : k <= Len(addr[p]) /\ Store(p, k)
<1>1. CASE WriteAll(p)
  BY <1>1, WriteAmount DEF WriteAll
<1>2. CASE WriteFull(p)
  <2>1. Len(addr[p]) > PIPESIZE - Count /\ Store(p, PIPESIZE - Count)
    BY <1>2, Zenon DEF WriteFull
  <2>2. QED
    BY <2>1, WriteAmount
<1>3. QED
  BY <1>1, <1>2, Zenon

(* How much piperead copies.                                               *)
LEMMA ReadEffect ==
  ASSUME PTypes, NEW p \in Readers, ReadSome(p)
  PROVE  /\ Minimum(len[p], Count) \in 0 .. Count
         /\ Counters' /\ Count' = Count - Minimum(len[p], Count)
<1>1. Count \in 0 .. PIPESIZE /\ PIPESIZE \in Nat /\ len[p] \in Nat /\ Counters
  BY Tests, PipeAssumption, Zenon DEF PTypes
<1>2. Minimum(len[p], Count) \in 0 .. Count
  BY <1>1 DEF Minimum
<1>3. nread' = (nread + Minimum(len[p], Count)) % UINT /\ nwrite' = nwrite
  BY Zenon DEF ReadSome
<1>4. QED
  BY <1>1, <1>2, <1>3, AdvanceRead, Zenon

(* Every step keeps the types and the counters.                            *)
LEMMA TypeStep ==
  ASSUME PTypes, Next
  PROVE  PTypes'
<1>1. ASSUME UNCHANGED <<nread, nwrite>> PROVE Counters'
  BY <1>1, Zenon DEF PTypes, Counters, Count
<1>2. ASSUME NEW p \in Procs, NEW l \in Labels PROVE [pc EXCEPT ![p] = l] \in [Procs -> Labels]
  BY Zenon DEF PTypes
<1>3. \A l : l \in Labels <=> l \in {"user", "call", "presleep", "sleep", "dead"}
  BY Zenon DEF Labels
<1>4. ASSUME NEW p \in Writers, SysWrite(p) PROVE PTypes'
  <2>1. PICK n \in 1 .. MaxN : \E t \in [1 .. n -> Bytes] : addr' = [addr EXCEPT ![p] = t]
    BY <1>4, Zenon DEF SysWrite
  <2>2. PICK t \in [1 .. n -> Bytes] : addr' = [addr EXCEPT ![p] = t]
    BY <2>1, Zenon
  <2>3. t \in Seq(Bytes)
    BY PipeAssumption
  <2>4. addr' \in [Writers -> Seq(Bytes)]
    BY <2>2, <2>3, Zenon DEF PTypes
  <2>5. pc' \in [Procs -> Labels] /\ Counters' /\ UNCHANGED <<data, killed, len>>
    BY <1>1, <1>2, <1>3, <1>4, Zenon DEF SysWrite, pipeVars, openVars, Procs
  <2>6. QED
    BY <2>4, <2>5, Zenon DEF PTypes
<1>5. ASSUME NEW p \in Writers, WriteAll(p) \/ WriteFull(p) PROVE PTypes'
  <2>1. PICK k \in 0 .. PIPESIZE - Count : k <= Len(addr[p]) /\ Store(p, k)
    BY <1>5, WriteEffect, Zenon
  <2>2. data' \in [0 .. PIPESIZE - 1 -> Bytes] /\ Counters' /\ UNCHANGED <<killed, len>>
    BY <2>1, StoreTypes, Zenon DEF Store
  <2>3. addr' \in [Writers -> Seq(Bytes)]
    <3>1. <<>> \in Seq(Bytes) /\ addr[p] \in Seq(Bytes)
      BY DEF PTypes
    <3>2. CASE WriteAll(p)
      BY <3>1, <3>2, Zenon DEF WriteAll, PTypes
    <3>3. CASE WriteFull(p)
      <4>1. SubSeq(addr[p], PIPESIZE - Count + 1, Len(addr[p])) \in Seq(Bytes)
        BY <3>1, WriteAmount
      <4>2. QED
        BY <3>1, <3>3, <4>1, Zenon DEF WriteFull, PTypes
    <3>4. QED
      BY <1>5, <3>2, <3>3, Zenon
  <2>4. pc' \in [Procs -> Labels]
    <3>1. /\ [pc EXCEPT ![p] = "user"] \in [Procs -> Labels]
          /\ [pc EXCEPT ![p] = "presleep"] \in [Procs -> Labels]
      BY <1>2, <1>3, Zenon DEF Procs
    <3>2. /\ Woken([pc EXCEPT ![p] = "user"], Readers) \in [Procs -> Labels]
          /\ Woken([pc EXCEPT ![p] = "presleep"], Readers) \in [Procs -> Labels]
      BY <3>1, WokenOf, Zenon
    <3>3. QED
      BY <1>5, <3>1, <3>2, Zenon DEF WriteAll, WriteFull
  <2>5. QED
    BY <2>2, <2>3, <2>4, Zenon DEF PTypes
<1>6. ASSUME NEW p \in Readers, SysRead(p) \/ ReadEmpty(p) PROVE PTypes'
  <2>1. pc' \in [Procs -> Labels]
    BY <1>2, <1>3, <1>6 DEF SysRead, ReadEmpty, Procs
  <2>2. len' \in [Readers -> Nat]
    BY <1>6, PipeAssumption DEF SysRead, ReadEmpty, PTypes
  <2>3. Counters' /\ UNCHANGED <<data, killed, addr>>
    BY <1>1, <1>6, Zenon DEF SysRead, ReadEmpty, pipeVars
  <2>4. QED
    BY <2>1, <2>2, <2>3, Zenon DEF PTypes
<1>7. ASSUME NEW p \in Readers, ReadSome(p) PROVE PTypes'
  <2>1. pc' \in [Procs -> Labels]
    <3>1. [pc EXCEPT ![p] = "user"] \in [Procs -> Labels]
      BY <1>2, <1>3, Zenon DEF Procs
    <3>2. QED
      BY <1>7, <3>1, WokenOf, Zenon DEF ReadSome
  <2>2. Counters'
    BY <1>7, ReadEffect, Zenon
  <2>3. len' \in [Readers -> Nat] /\ UNCHANGED <<data, killed, addr>>
    BY <1>7, Zenon DEF ReadSome, PTypes
  <2>4. QED
    BY <2>1, <2>2, <2>3, Zenon DEF PTypes
<1>8. ASSUME NEW p \in Procs, Sleep(p) \/ Kill(p) \/ Exit(p) PROVE PTypes'
  <2>1. Counters' /\ UNCHANGED <<data, addr, len>>
    BY <1>1, <1>8, Zenon DEF Sleep, Kill, Exit, pipeVars
  <2>2. DOMAIN killed' = Procs
    BY <1>8, Zenon DEF Sleep, Kill, Exit, PTypes
  <2>3. pc' \in [Procs -> Labels]
    <3>1. /\ [pc EXCEPT ![p] = "sleep"] \in [Procs -> Labels]
          /\ [pc EXCEPT ![p] = "dead"] \in [Procs -> Labels]
          /\ pc \in [Procs -> Labels]
      BY <1>2, <1>3, Zenon DEF PTypes
    <3>2. CASE Sleep(p)
      BY <3>1, <3>2, Zenon DEF Sleep
    <3>3. CASE Kill(p)
      BY <3>1, <3>3, WokenOf, Zenon DEF Kill
    <3>4. CASE Exit(p)
      BY <3>1, <3>4, WokenOf, Zenon DEF Exit
    <3>5. QED
      BY <1>8, <3>2, <3>3, <3>4, Zenon
  <2>4. QED
    BY <2>1, <2>2, <2>3, Zenon DEF PTypes
<1>9. QED
  BY <1>4, <1>5, <1>6, <1>7, <1>8, Zenon DEF Next

(* pc after a step of p that wakes Q.                                      *)
LEMMA Moved ==
  ASSUME PTypes, NEW p \in Procs, NEW l \in Labels, NEW Q, pc' = Woken([pc EXCEPT ![p] = l], Q)
  PROVE  /\ l # "sleep" => pc'[p] = l
         /\ \A q \in Procs \ {p} : pc'[q] = (IF q \in Q /\ pc[q] = "sleep" THEN "call" ELSE pc[q])
<1>1. [pc EXCEPT ![p] = l] \in [Procs -> Labels]
  BY Zenon DEF PTypes
<1>2. \A q \in Procs : pc'[q] = (IF q \in Q /\ [pc EXCEPT ![p] = l][q] = "sleep" THEN "call"
                                  ELSE [pc EXCEPT ![p] = l][q])
  BY <1>1, WokenOf, Zenon
<1>3. QED
  BY <1>2, Zenon DEF PTypes

(* A process that has closed its end does nothing more.                    *)
LEMMA DeadStays ==
  ASSUME PTypes, Next, NEW q \in Procs, pc[q] = "dead"
  PROVE  pc'[q] = "dead"
<1> USE DEF Labels
<1>1. ASSUME NEW p \in Procs, pc[p] # "dead", NEW l \in Labels, pc' = [pc EXCEPT ![p] = l]
      PROVE  pc'[q] = "dead"
  BY <1>1, Zenon DEF PTypes
<1>2. ASSUME NEW p \in Procs, pc[p] # "dead", NEW l \in Labels, NEW Q,
             pc' = Woken([pc EXCEPT ![p] = l], Q)
      PROVE  pc'[q] = "dead"
  BY <1>2, Moved, Zenon
<1>3. ASSUME NEW p \in Writers, SysWrite(p) \/ WriteAll(p) \/ WriteFull(p) PROVE pc'[q] = "dead"
  <2>1. CASE SysWrite(p)
    BY <1>1, <2>1, Zenon DEF SysWrite, Procs
  <2>2. CASE WriteAll(p)
    BY <1>2, <2>2, Zenon DEF WriteAll, Procs
  <2>3. CASE WriteFull(p)
    BY <1>1, <1>2, <2>3, Zenon DEF WriteFull, Procs
  <2>4. QED
    BY <1>3, <2>1, <2>2, <2>3, Zenon
<1>4. ASSUME NEW p \in Readers, SysRead(p) \/ ReadEmpty(p) \/ ReadSome(p) PROVE pc'[q] = "dead"
  <2>1. CASE SysRead(p)
    BY <1>1, <2>1, Zenon DEF SysRead, Procs
  <2>2. CASE ReadEmpty(p)
    BY <1>1, <2>2, Zenon DEF ReadEmpty, Procs
  <2>3. CASE ReadSome(p)
    BY <1>2, <2>3, Zenon DEF ReadSome, Procs
  <2>4. QED
    BY <1>4, <2>1, <2>2, <2>3, Zenon
<1>5. ASSUME NEW p \in Procs, Sleep(p) \/ Kill(p) \/ Exit(p) PROVE pc'[q] = "dead"
  <2>1. CASE Sleep(p)
    BY <1>1, <2>1, Zenon DEF Sleep
  <2>2. CASE Kill(p)
    BY <2>2, WokenOf DEF Kill, PTypes
  <2>3. CASE Exit(p)
    BY <1>2, <2>3, Zenon DEF Exit
  <2>4. QED
    BY <1>5, <2>1, <2>2, <2>3, Zenon
<1>6. QED
  BY <1>3, <1>4, <1>5, Zenon DEF Next

(* pipeclose closes an end for the last of its processes.                  *)
LEMMA EndsStep ==
  ASSUME PTypes, Ends, Next
  PROVE  Ends'
<1>1. ASSUME UNCHANGED openVars PROVE Ends'
  BY <1>1, DeadStays, Zenon DEF openVars, Ends, Procs
<1>2. ASSUME NEW p \in Procs, Exit(p) PROVE Ends'
  <2> DEFINE mine == IF p \in Writers THEN Writers ELSE Readers
             last == \A r \in mine \ {p} : pc[r] = "dead"
  <2>1. /\ writeopen' = (writeopen /\ ~(last /\ p \in Writers))
        /\ readopen' = (readopen /\ ~(last /\ p \in Readers))
        /\ pc' = Woken([pc EXCEPT ![p] = "dead"], IF last THEN Procs \ mine ELSE {})
    BY <1>2, Zenon DEF Exit
  <2>2. pc'[p] = "dead"
    BY <2>1, Moved, Zenon DEF Labels
  <2>3. ASSUME ~readopen', NEW r \in Readers PROVE pc'[r] = "dead"
    <3>1. CASE ~readopen
      BY <3>1, DeadStays, Zenon DEF Ends, Procs
    <3>2. CASE last /\ p \in Readers
      <4>1. mine = Readers
        BY <3>2, PipeAssumption, Zenon
      <4>2. r = p \/ pc[r] = "dead"
        BY <3>2, <4>1, Zenon
      <4>3. QED
        BY <2>2, <4>2, DeadStays, Zenon DEF Procs
    <3>3. QED
      BY <2>1, <2>3, <3>1, <3>2, Zenon
  <2>4. ASSUME ~writeopen', NEW r \in Writers PROVE pc'[r] = "dead"
    <3>1. CASE ~writeopen
      BY <3>1, DeadStays, Zenon DEF Ends, Procs
    <3>2. CASE last /\ p \in Writers
      <4>1. r = p \/ pc[r] = "dead"
        BY <3>2, Zenon
      <4>2. QED
        BY <2>2, <4>1, DeadStays, Zenon DEF Procs
    <3>3. QED
      BY <2>1, <2>4, <3>1, <3>2, Zenon
  <2>5. QED
    BY <2>3, <2>4, Zenon DEF Ends
<1>3. ASSUME NEW p \in Writers, SysWrite(p) \/ WriteAll(p) \/ WriteFull(p) PROVE UNCHANGED openVars
  BY <1>3, Zenon DEF SysWrite, WriteAll, WriteFull, Store
<1>4. ASSUME NEW p \in Readers, SysRead(p) \/ ReadEmpty(p) \/ ReadSome(p) PROVE UNCHANGED openVars
  BY <1>4, Zenon DEF SysRead, ReadEmpty, ReadSome
<1>5. ASSUME NEW p \in Procs, Sleep(p) \/ Kill(p) PROVE UNCHANGED openVars
  BY <1>5, Zenon DEF Sleep, Kill
<1>6. QED
  BY <1>1, <1>2, <1>3, <1>4, <1>5, Zenon DEF Next

(* No wakeup is lost: whoever changes what a sleeper waits for wakes it    *)
(* up, and nobody changes it between the sleeper's test and its sleep.     *)
LEMMA WakeStep ==
  ASSUME PInv, Next
  PROVE  WakeInv'
<1> SUFFICES ASSUME \A p \in Procs : ~killed'[p], NEW q \in Procs, pc'[q] \in {"presleep", "sleep"}
             PROVE  HasReason(q)'
  BY Zenon DEF WakeInv
<1>0. PTypes /\ Ends /\ WakeInv /\ Counters
  BY Zenon DEF PInv, PTypes
<1>1. UNCHANGED killed \/ \E p \in Procs : Kill(p)
  BY Zenon DEF Next, SysWrite, WriteAll, WriteFull, Store, SysRead, ReadEmpty, ReadSome, Sleep, Exit
<1>2. ASSUME NEW p \in Procs, Kill(p) PROVE FALSE
  BY <1>0, <1>2, Zenon DEF Kill, PTypes
<1>3. \A p \in Procs : ~killed[p]
  BY <1>1, <1>2, Zenon
<1>4. pc[q] \in {"presleep", "sleep"} => HasReason(q)
  BY <1>0, <1>3, Zenon DEF WakeInv
<1>5. ASSUME UNCHANGED <<nread, nwrite, openVars>>, HasReason(q) PROVE HasReason(q)'
  BY <1>5, Zenon DEF HasReason, Empty, Full, openVars
<1>6. ASSUME NEW p \in Procs, NEW l \in {"user", "call"}, pc' = [pc EXCEPT ![p] = l],
             UNCHANGED <<nread, nwrite, openVars>>
      PROVE  HasReason(q)'
  BY <1>0, <1>4, <1>5, <1>6, Zenon DEF PTypes
<1>7. ASSUME NEW p \in Writers, WriteAll(p) \/ WriteFull(p) PROVE HasReason(q)'
  <2> DEFINE fails == ~readopen \/ killed[p]
  <2>1. PICK k \in 0 .. PIPESIZE - Count : k <= Len(addr[p]) /\ Store(p, k)
    BY <1>0, <1>7, WriteEffect, Zenon
  <2>2. /\ Count' = Count + k /\ Count \in 0 .. PIPESIZE /\ Counters' /\ UNCHANGED openVars
        /\ PIPESIZE \in Nat
    BY <1>0, <2>1, StoreTypes, Tests, PipeAssumption, Zenon DEF Store
  <2>3. Lock
    BY <1>7, Zenon DEF WriteAll, WriteFull
  <2>4. p \in Procs /\ p \notin Readers
    BY PipeAssumption, Zenon DEF Procs
  <2>5. CASE q \in Readers
    <3>1. q # p /\ pc[q] # "dead"
      BY <1>0, <2>4, <2>5, DeadStays, Zenon
    <3>2. readopen
      BY <1>0, <2>5, <3>1, Zenon DEF Ends
    <3>3. PICK l \in {"user", "presleep"} : pc' = Woken([pc EXCEPT ![p] = l], Readers)
      BY <1>3, <1>7, <2>4, <3>2, Zenon DEF WriteAll, WriteFull
    <3>4. pc'[q] = (IF pc[q] = "sleep" THEN "call" ELSE pc[q])
      <4>1. l \in Labels
        BY Zenon DEF Labels
      <4>2. \A r \in Procs \ {p} : pc'[r] = (IF r \in Readers /\ pc[r] = "sleep" THEN "call" ELSE pc[r])
        BY <1>0, <2>4, <3>3, <4>1, Moved, Zenon
      <4>3. QED
        BY <2>5, <3>1, <4>2, Zenon
    <3>5. QED
      BY <2>3, <3>4, Zenon DEF Lock
  <2>6. CASE q \notin Readers /\ q # p
    <3>1. pc'[q] = pc[q]
      <4>1. \/ pc' = Woken([pc EXCEPT ![p] = "user"], Readers)
            \/ pc' = Woken([pc EXCEPT ![p] = "presleep"], Readers)
            \/ pc' = [pc EXCEPT ![p] = "user"]
        BY <1>7, Zenon DEF WriteAll, WriteFull
      <4>2. "user" \in Labels /\ "presleep" \in Labels
        BY Zenon DEF Labels
      <4>3. CASE pc' = [pc EXCEPT ![p] = "user"]
        BY <1>0, <2>4, <2>6, <4>3, Zenon DEF PTypes
      <4>4. QED
        BY <1>0, <2>4, <2>6, <4>1, <4>2, <4>3, Moved, ZenonT(30)
    <3>2. Count = PIPESIZE /\ readopen
      BY <1>0, <1>4, <2>6, <3>1, Tests, Zenon DEF HasReason
    <3>3. Count' = PIPESIZE
      BY <2>2, <3>2
    <3>4. Full'
      <4>1. (Counters => (Full <=> Count = PIPESIZE))'
        BY FullTest, PTL
      <4>2. QED
        BY <2>2, <3>3, <4>1, PipeAssumption, Zenon
    <3>5. QED
      BY <2>2, <2>6, <3>2, <3>4, Zenon DEF HasReason, openVars
  <2>7. CASE q = p
    <3>1. /\ WriteFull(p) /\ ~fails
      <4>1. pc' # [pc EXCEPT ![p] = "user"]
        BY <1>0, <2>4, <2>7, Zenon DEF PTypes
      <4>2. pc' # Woken([pc EXCEPT ![p] = "user"], Readers)
        BY <1>0, <2>4, <2>7, Moved, Zenon DEF Labels
      <4>3. QED
        BY <1>7, <4>1, <4>2, Zenon DEF WriteAll, WriteFull
    <3>2. nwrite' = (nwrite + (PIPESIZE - Count)) % UINT /\ nread' = nread
      BY <3>1, Zenon DEF WriteFull, Store
    <3>3. PIPESIZE - Count \in 0 .. PIPESIZE - Count
      BY <2>2
    <3>4. Count' = Count + (PIPESIZE - Count)
      BY <1>0, <3>2, <3>3, AdvanceWrite, Zenon
    <3>5. Count' = PIPESIZE
      BY <2>2, <3>4
    <3>6. Full'
      <4>1. (Counters => (Full <=> Count = PIPESIZE))'
        BY FullTest, PTL
      <4>2. QED
        BY <2>2, <3>5, <4>1, PipeAssumption, Zenon
    <3>7. QED
      BY <2>2, <2>4, <2>7, <3>1, <3>6, Zenon DEF HasReason, openVars
  <2>8. QED
    BY <2>5, <2>6, <2>7, Zenon
<1>8. ASSUME NEW p \in Readers, ReadEmpty(p) PROVE HasReason(q)'
  <2>1. UNCHANGED <<nread, nwrite, openVars>>
    BY <1>8, Zenon DEF ReadEmpty, pipeVars
  <2>2. CASE q = p
    BY <1>5, <1>8, <2>1, <2>2, Zenon DEF ReadEmpty, HasReason
  <2>3. CASE q # p
    BY <1>0, <1>4, <1>5, <1>8, <2>1, <2>3, Zenon DEF ReadEmpty, PTypes, Procs
  <2>4. QED
    BY <2>2, <2>3, Zenon
<1>9. ASSUME NEW p \in Readers, ReadSome(p) PROVE HasReason(q)'
  <2>1. pc' = Woken([pc EXCEPT ![p] = "user"], Writers) /\ Lock /\ ~(Empty /\ writeopen)
    BY <1>9, Zenon DEF ReadSome
  <2>2. q # p /\ pc'[q] = (IF q \in Writers /\ pc[q] = "sleep" THEN "call" ELSE pc[q])
    <3>1. p \in Procs /\ "user" \in Labels
      BY Zenon DEF Labels, Procs
    <3>2. /\ pc'[p] = "user"
          /\ \A r \in Procs \ {p} : pc'[r] = (IF r \in Writers /\ pc[r] = "sleep" THEN "call" ELSE pc[r])
      BY <1>0, <2>1, <3>1, Moved, Zenon
    <3>3. QED
      BY <3>2, Zenon
  <2>3. q \in Readers /\ pc[q] = "sleep"
    BY <2>1, <2>2, Zenon DEF Lock, Procs
  <2>4. QED
    BY <1>4, <2>1, <2>3, Zenon DEF HasReason
<1>10. ASSUME NEW p \in Procs, Sleep(p) PROVE HasReason(q)'
  <2>1. UNCHANGED <<nread, nwrite, openVars>> /\ pc[p] = "presleep" /\ pc' = [pc EXCEPT ![p] = "sleep"]
    BY <1>10, Zenon DEF Sleep, pipeVars
  <2>2. pc[q] \in {"presleep", "sleep"}
    BY <1>0, <2>1, Zenon DEF PTypes
  <2>3. QED
    BY <1>4, <1>5, <2>1, <2>2, Zenon
<1>11. ASSUME NEW p \in Procs, Exit(p) PROVE HasReason(q)'
  <2> DEFINE mine == IF p \in Writers THEN Writers ELSE Readers
             last == \A r \in mine \ {p} : pc[r] = "dead"
  <2>1. /\ writeopen' = (writeopen /\ ~(last /\ p \in Writers))
        /\ readopen' = (readopen /\ ~(last /\ p \in Readers))
        /\ pc' = Woken([pc EXCEPT ![p] = "dead"], IF last THEN Procs \ mine ELSE {})
        /\ last => Lock
        /\ UNCHANGED <<nread, nwrite>>
    BY <1>11, Zenon DEF Exit, pipeVars
  <2>2. /\ pc'[p] = "dead"
        /\ \A r \in Procs \ {p} : pc'[r] = (IF r \in (IF last THEN Procs \ mine ELSE {}) /\ pc[r] = "sleep"
                                              THEN "call" ELSE pc[r])
    <3>1. "dead" \in Labels
      BY Zenon DEF Labels
    <3> DEFINE Q == IF last THEN Procs \ mine ELSE {}
    <3>2. pc' = Woken([pc EXCEPT ![p] = "dead"], Q)
      BY <2>1, Zenon
    <3> HIDE DEF Q
    <3>3. /\ pc'[p] = "dead"
          /\ \A r \in Procs \ {p} : pc'[r] = (IF r \in Q /\ pc[r] = "sleep" THEN "call" ELSE pc[r])
      BY <1>0, <3>1, <3>2, Moved, Zenon
    <3>4. QED
      BY <3>3, Zenon DEF Q
  <2>3. q # p /\ pc[q] = pc'[q] /\ HasReason(q)
    BY <1>4, <2>2, Zenon
  <2>4. ~last
    <3>1. ASSUME last PROVE FALSE
      <4>1. pc[q] = "sleep"
        BY <2>1, <2>3, <3>1, Zenon DEF Lock
      <4>2. q \in mine
        BY <2>2, <2>3, <3>1, <4>1, Zenon
      <4>3. QED
        BY <2>3, <3>1, <4>1, <4>2
    <3>2. QED
      BY <3>1, Zenon
  <2>5. QED
    BY <2>1, <2>3, <2>4, Zenon DEF HasReason, Empty, Full
<1>12. ASSUME NEW p \in Writers, SysWrite(p) PROVE HasReason(q)'
  BY <1>6, <1>12, Zenon DEF SysWrite, pipeVars, Procs
<1>13. ASSUME NEW p \in Readers, SysRead(p) PROVE HasReason(q)'
  BY <1>6, <1>13, Zenon DEF SysRead, pipeVars, Procs
<1>14. QED
  BY <1>2, <1>7, <1>8, <1>9, <1>10, <1>11, <1>12, <1>13, Zenon DEF Next

(* The pipe is in the inductive invariant for ever.                        *)
THEOREM PipeInductive == Spec => []PInv
<1>1. Init => PInv
  <2> SUFFICES ASSUME Init PROVE PInv
    BY Zenon
  <2>1. Counters
    <3>1. 0 \in 0 .. UINT - 1 /\ PIPESIZE \in Nat
      BY PipeAssumption
    <3>2. (0 + UINT - 0) % UINT = 0
      BY <3>1, Distance
    <3>3. QED
      BY <3>1, <3>2 DEF Init, Counters, Count
  <2>2. PTypes
    BY <2>1 DEF Init, PTypes, Labels
  <2>3. Ends /\ WakeInv
    BY Zenon DEF Init, Ends, WakeInv
  <2>4. QED
    BY <2>2, <2>3, Zenon DEF PInv
<1>2. PInv /\ [Next]_vars => PInv'
  <2> SUFFICES ASSUME PInv, [Next]_vars PROVE PInv'
    BY Zenon
  <2>1. CASE Next
    BY <2>1, TypeStep, EndsStep, WakeStep, Zenon DEF PInv
  <2>2. CASE UNCHANGED vars
    <3>1. UNCHANGED <<data, nread, nwrite, readopen, writeopen, pc, killed, addr, len>>
      BY <2>2, Zenon DEF vars, pipeVars, openVars
    <3>2. PTypes' /\ Ends'
      BY <3>1, Zenon DEF PInv, PTypes, Counters, Count, Ends
    <3>3. WakeInv'
      BY <3>1, Zenon DEF PInv, WakeInv, HasReason, Empty, Full
    <3>4. QED
      BY <3>2, <3>3, Zenon DEF PInv
  <2>3. QED
    BY <2>1, <2>2, Zenon
<1>3. QED
  BY <1>1, <1>2, PTL DEF Spec

(* While no process is killed, a reader sleeps only while the pipe is      *)
(* empty and open for writing, and a writer only while it is full and open *)
(* for reading.                                                            *)
THEOREM NoneLost == Spec => []NoLostWakeup
<1>1. PInv => NoLostWakeup
  BY Zenon DEF PInv, WakeInv, HasReason, NoLostWakeup
<1>2. QED
  BY <1>1, PipeInductive, PTL

------------------------------------------------------------------------------
(* A sequence that has the elements of s and then those of t.              *)
LEMMA ConcatIs ==
  ASSUME NEW S, NEW s \in Seq(S), NEW t \in Seq(S), NEW f,
         f = [i \in 1 .. Len(s) + Len(t) |-> f[i]],
         \A i \in 1 .. Len(s) + Len(t) : f[i] = (IF i <= Len(s) THEN s[i] ELSE t[i - Len(s)])
  PROVE  f = s \o t
<1>1. \A i \in 1 .. Len(s) + Len(t) : f[i] \in S
  BY Z3
<1>2. f \in Seq(S) /\ Len(f) = Len(s) + Len(t)
  BY <1>1
<1>3. /\ s \o t \in Seq(S) /\ Len(s \o t) = Len(s) + Len(t)
      /\ \A i \in 1 .. Len(s) + Len(t) : (s \o t)[i] = (IF i <= Len(s) THEN s[i] ELSE t[i - Len(s)])
  BY ConcatProperties, Zenon
<1>4. \A i \in 1 .. Len(f) : f[i] = (s \o t)[i]
  BY <1>2, <1>3, Zenon
<1>5. QED
  BY <1>2, <1>3, <1>4, SeqEqual, Zenon

(* The bytes in the buffer, oldest first.                                  *)
Ring == [i \in 1 .. Count |-> data[(nread + i - 1) % PIPESIZE]]

\* They are as many bytes as the counters say.
LEMMA RingType ==
  ASSUME PTypes
  PROVE  Ring \in Seq(Bytes) /\ Len(Ring) = Count /\ Count \in Nat /\ Count <= PIPESIZE
<1>1. Count \in 0 .. PIPESIZE /\ PIPESIZE \in Nat \ {0}
  BY Tests, PipeAssumption, Zenon DEF PTypes
<1>2. ASSUME NEW i \in 1 .. Count PROVE data[(nread + i - 1) % PIPESIZE] \in Bytes
  <2>1. nread + i - 1 \in Nat
    BY <1>1 DEF PTypes, Counters
  <2>2. (nread + i - 1) % PIPESIZE \in 0 .. PIPESIZE - 1
    BY <1>1, <2>1
  <2>3. QED
    BY <2>2, Zenon DEF PTypes
<1>3. Ring \in [1 .. Count -> Bytes]
  BY <1>2, Zenon DEF Ring
<1>4. QED
  BY <1>1, <1>3

(* Writing k bytes appends them.                                           *)
LEMMA StoreAppends ==
  ASSUME PTypes, NEW p \in Writers, NEW k \in 0 .. PIPESIZE - Count, k <= Len(addr[p]), Store(p, k)
  PROVE  Ring' = Ring \o SubSeq(addr[p], 1, k)
<1> DEFINE P == PIPESIZE
           t == SubSeq(addr[p], 1, k)
<1>1. Count \in 0 .. P /\ P \in Nat \ {0} /\ nread \in Nat /\ nwrite \in Nat /\ k \in Nat /\ Count + k <= P
  BY Tests, PipeAssumption DEF PTypes, Counters
<1>2. Count' = Count + k /\ nread' = nread
  BY StoreTypes, Zenon DEF Store
<1>3. addr[p] \in Seq(Bytes) /\ t \in Seq(Bytes) /\ Len(t) = k /\ \A j \in 1 .. k : t[j] = addr[p][j]
  BY <1>1 DEF PTypes
<1>4. \A j \in 1 .. k : (nwrite + j - 1) % P = (nread + Count + j - 1) % P
  <2>1. ASSUME NEW j \in 1 .. k PROVE (nwrite + j - 1) % P = (nread + Count + j - 1) % P
    <3>1. j - 1 \in Nat
      BY <1>1
    <3>2. (nwrite + (j - 1)) % P = (nread + Count + (j - 1)) % P
      BY <3>1, Place, Zenon DEF PTypes
    <3>3. nwrite + (j - 1) = nwrite + j - 1 /\ nread + Count + (j - 1) = nread + Count + j - 1
      BY <1>1, Zenon
    <3>4. QED
      BY <3>2, <3>3, Zenon
  <2>2. QED
    BY <2>1, Zenon
<1>5. ASSUME NEW m \in 0 .. P - 1
      PROVE  data'[m] = (IF \E j \in 1 .. k : (nread + Count + j - 1) % P = m
                           THEN addr[p][CHOOSE j \in 1 .. k : (nread + Count + j - 1) % P = m]
                           ELSE data[m])
  <2>1. data'[m] = (IF \E j \in 1 .. k : (nwrite + j - 1) % P = m
                      THEN addr[p][CHOOSE j \in 1 .. k : (nwrite + j - 1) % P = m]
                      ELSE data[m])
    BY Zenon DEF Store, PTypes
  <2>2. (\E j \in 1 .. k : (nwrite + j - 1) % P = m) <=> \E j \in 1 .. k : (nread + Count + j - 1) % P = m
    BY <1>4, Zenon
  <2>3. (CHOOSE j \in 1 .. k : (nwrite + j - 1) % P = m) = CHOOSE j \in 1 .. k : (nread + Count + j - 1) % P = m
    BY <1>4, Zenon
  <2>4. QED
    BY <2>1, <2>2, <2>3, Zenon
<1>6. ASSUME NEW i \in 1 .. Count PROVE data'[(nread + i - 1) % P] = data[(nread + i - 1) % P]
  <2>1. nread + i - 1 \in Nat /\ (nread + i - 1) % P \in 0 .. P - 1
    BY <1>1
  <2>2. ASSUME NEW j \in 1 .. k PROVE (nread + Count + j - 1) % P # (nread + i - 1) % P
    <3>1. /\ nread + Count + j - 1 \in Nat /\ nread + i - 1 < nread + Count + j - 1
          /\ nread + Count + j - 1 < (nread + i - 1) + P
      BY <1>1
    <3>2. QED
      BY <1>1, <2>1, <3>1, ModDiffer, Zenon
  <2>3. QED
    BY <1>5, <2>1, <2>2, Zenon
<1>7. ASSUME NEW j \in 1 .. k PROVE data'[(nread + Count + j - 1) % P] = addr[p][j]
  <2> DEFINE m == (nread + Count + j - 1) % P
             c == CHOOSE h \in 1 .. k : (nread + Count + h - 1) % P = m
  <2>1. nread + Count + j - 1 \in Nat /\ m \in 0 .. P - 1
    BY <1>1
  <2>2. c \in 1 .. k /\ (nread + Count + c - 1) % P = m
    BY Zenon
  <2>3. data'[m] = addr[p][c]
    BY <1>5, <2>1, Zenon
  <2> HIDE DEF c
  <2>4. c = j
    <3>1. ASSUME c < j PROVE FALSE
      <4>1. /\ nread + Count + c - 1 \in Nat /\ nread + Count + c - 1 < nread + Count + j - 1
            /\ nread + Count + j - 1 < (nread + Count + c - 1) + P
        BY <1>1, <2>2, <3>1
      <4>2. QED
        BY <1>1, <2>1, <2>2, <4>1, ModDiffer, Zenon
    <3>2. ASSUME j < c PROVE FALSE
      <4>1. /\ nread + Count + c - 1 \in Nat /\ nread + Count + j - 1 < nread + Count + c - 1
            /\ nread + Count + c - 1 < (nread + Count + j - 1) + P
        BY <1>1, <2>2, <3>2
      <4>2. QED
        BY <1>1, <2>1, <2>2, <4>1, ModDiffer, Zenon
    <3>3. QED
      BY <1>1, <2>2, <3>1, <3>2
  <2>5. QED
    BY <2>3, <2>4, Zenon
<1>8. Ring' = [i \in 1 .. Count + k |-> data'[(nread + i - 1) % P]]
  BY <1>2, Zenon DEF Ring
<1>9. ASSUME NEW i \in 1 .. Count + k
      PROVE  data'[(nread + i - 1) % P] = (IF i <= Count THEN Ring[i] ELSE t[i - Count])
  <2>1. CASE i <= Count
    BY <1>1, <1>6, <2>1 DEF Ring
  <2>2. CASE ~(i <= Count)
    <3>1. i - Count \in 1 .. k /\ nread + Count + (i - Count) - 1 = nread + i - 1
      BY <1>1, <2>2
    <3>2. QED
      BY <1>3, <1>7, <2>2, <3>1, Zenon
  <2>3. QED
    BY <2>1, <2>2, Zenon
<1>10. \A i \in 1 .. Count + k : Ring'[i] = (IF i <= Count THEN Ring[i] ELSE t[i - Count])
  BY <1>8, <1>9, Zenon
<1> HIDE DEF t
<1>11. DOMAIN Ring' = 1 .. Count + k /\ Ring' = [i \in 1 .. Count + k |-> Ring'[i]]
  BY <1>8, Zenon
<1>12. Ring \in Seq(Bytes) /\ Len(Ring) = Count
  BY RingType, Zenon
<1> DEFINE r == Ring
           f == Ring'
<1>13. r \in Seq(Bytes) /\ t \in Seq(Bytes) /\ Len(r) = Count /\ Len(t) = k
  BY <1>3, <1>12, Zenon
<1>14. \A i \in 1 .. Len(r) + Len(t) : f[i] = (IF i <= Len(r) THEN r[i] ELSE t[i - Len(r)])
  BY <1>10, <1>13, Zenon
<1>15. f = [i \in 1 .. Len(r) + Len(t) |-> f[i]]
  BY <1>11, <1>13, Zenon
<1>16. f = r \o t
  <2> HIDE DEF f, r
  <2>1. QED
    BY <1>13, <1>14, <1>15, ConcatIs, Zenon
<1>17. QED
  BY <1>16, Zenon DEF t

(* nread advanced by k reaches the same slots, also across UINT.           *)
LEMMA PlaceRead ==
  ASSUME NEW n \in 0 .. UINT - 1, NEW k \in 0 .. PIPESIZE, NEW i \in Nat
  PROVE  (((n + k) % UINT) + i) % PIPESIZE = (n + k + i) % PIPESIZE
<1> DEFINE m == (n + k) % UINT
<1>1. m = (IF n + k < UINT THEN n + k ELSE n + k - UINT) /\ m \in 0 .. UINT - 1
  BY Advance, Zenon
<1> HIDE DEF m
<1>2. m + i \in Nat /\ PIPESIZE \in Nat \ {0} /\ UINT \in Nat /\ UINT % PIPESIZE = 0
  BY <1>1, PipeAssumption
<1>3. ((m + i) + UINT) % PIPESIZE = (m + i) % PIPESIZE
  BY <1>2, ModShift, Zenon
<1>4. n + k + i = m + i \/ n + k + i = (m + i) + UINT
  BY <1>1, <1>2
<1>5. (m + i) % PIPESIZE = (n + k + i) % PIPESIZE
  BY <1>3, <1>4, Zenon
<1>6. QED
  BY <1>5, Zenon DEF m

(* Reading takes the oldest bytes, and leaves the rest in order.           *)
LEMMA ReadTakes ==
  ASSUME PTypes, NEW k \in 0 .. Count,
         got' = [i \in 1 .. k |-> data[(nread + i - 1) % PIPESIZE]],
         nread' = (nread + k) % UINT, UNCHANGED <<data, nwrite>>
  PROVE  got' = SubSeq(Ring, 1, k) /\ Ring' = SubSeq(Ring, k + 1, Len(Ring))
<1>1. /\ Ring \in Seq(Bytes) /\ Len(Ring) = Count /\ Count \in 0 .. PIPESIZE /\ PIPESIZE \in Nat \ {0}
      /\ k \in 0 .. PIPESIZE /\ nread \in 0 .. UINT - 1 /\ nread \in Nat
  BY RingType, PipeAssumption DEF PTypes, Counters
<1>2. Count' = Count - k
  BY AdvanceRead, Zenon DEF PTypes
<1>3. \A i \in 1 .. Count : Ring[i] = data[(nread + i - 1) % PIPESIZE]
  BY Zenon DEF Ring
<1>4. got' = SubSeq(Ring, 1, k)
  <2>1. SubSeq(Ring, 1, k) = [i \in 1 .. k |-> Ring[i]]
    BY <1>1
  <2>2. \A i \in 1 .. k : Ring[i] = data[(nread + i - 1) % PIPESIZE]
    BY <1>1, <1>3
  <2>3. QED
    BY <2>1, <2>2, Zenon
<1>5. Ring' = [i \in 1 .. Count - k |-> data[(nread' + i - 1) % PIPESIZE]]
  BY <1>2, Zenon DEF Ring
<1>6. ASSUME NEW i \in 1 .. Count - k
      PROVE  data[(nread' + i - 1) % PIPESIZE] = Ring[k + i]
  <2>1. i - 1 \in Nat /\ k + i \in 1 .. Count
    BY <1>1
  <2>2. (((nread + k) % UINT) + (i - 1)) % PIPESIZE = (nread + k + (i - 1)) % PIPESIZE
    BY <1>1, <2>1, PlaceRead, Zenon
  <2>3. nread' \in Nat /\ nread' + (i - 1) = nread' + i - 1 /\ nread + k + (i - 1) = nread + (k + i) - 1
    BY <1>1, Advance
  <2>4. QED
    BY <1>3, <2>1, <2>2, <2>3, Zenon
<1>7. SubSeq(Ring, k + 1, Count) = [i \in 1 .. Count - k |-> Ring[k + i]]
  BY <1>1
<1>8. Ring' = SubSeq(Ring, k + 1, Len(Ring))
  BY <1>1, <1>5, <1>6, <1>7, Zenon
<1>9. QED
  BY <1>4, <1>8, Zenon

(* What pipewrite takes from the front of addr[p], and what it leaves.     *)
LEMMA WriteTakes ==
  ASSUME PTypes, NEW p \in Writers, WriteAll(p) \/ WriteFull(p)
  PROVE  \E k \in 0 .. PIPESIZE - Count :
           /\ k <= Len(addr[p]) /\ Store(p, k)
           /\ \/ addr' = [addr EXCEPT ![p] = SubSeq(addr[p], k + 1, Len(addr[p]))]
              \/ /\ k = PIPESIZE - Count /\ k < Len(addr[p])
                 /\ addr' = [addr EXCEPT ![p] = <<>>]
<1>1. addr[p] \in Seq(Bytes)
  BY Zenon DEF PTypes
<1>2. CASE WriteAll(p)
  <2>1. SubSeq(addr[p], Len(addr[p]) + 1, Len(addr[p])) = <<>>
    BY <1>1
  <2>2. /\ Len(addr[p]) \in 0 .. PIPESIZE - Count /\ Len(addr[p]) <= Len(addr[p])
        /\ Store(p, Len(addr[p])) /\ addr' = [addr EXCEPT ![p] = <<>>]
    BY <1>2, WriteAmount DEF WriteAll
  <2>3. QED
    BY <2>1, <2>2, Zenon
<1>3. CASE WriteFull(p)
  <2> DEFINE k == PIPESIZE - Count
  <2>1. /\ Len(addr[p]) > k /\ Store(p, k)
        /\ \/ addr' = [addr EXCEPT ![p] = <<>>]
           \/ addr' = [addr EXCEPT ![p] = SubSeq(addr[p], k + 1, Len(addr[p]))]
    BY <1>3, Zenon DEF WriteFull
  <2>2. k \in 0 .. PIPESIZE - Count /\ k \in Int /\ Len(addr[p]) \in Nat
    BY WriteAmount
  <2> HIDE DEF k
  <2>3. k <= Len(addr[p]) /\ k < Len(addr[p])
    BY <2>1, <2>2
  <2>4. QED
    BY <2>1, <2>2, <2>3, Zenon DEF k
<1>4. QED
  BY <1>2, <1>3, Zenon

(* A process that is not in pipewrite has nothing left to write.           *)
Idle == \A p \in Writers : pc[p] \in {"user", "dead"} => addr[p] = <<>>

(* pipewrite returns with all its bytes stored, or having failed.          *)
LEMMA IdleStep ==
  ASSUME PTypes, Idle, [Next]_vars
  PROVE  Idle'
<1> USE DEF PTypes
<1>1. SUFFICES ASSUME NEW w \in Writers, pc'[w] \in {"user", "dead"} PROVE addr'[w] = <<>>
  BY Zenon DEF Idle
<1>2. w \in Procs /\ (pc[w] \in {"user", "dead"} => addr[w] = <<>>)
  BY Zenon DEF Idle, Procs
<1>3. ASSUME NEW p \in Writers, SysWrite(p) PROVE addr'[w] = <<>>
  <2>1. w # p
    BY <1>1, <1>2, <1>3, Zenon DEF SysWrite
  <2>2. addr'[w] = addr[w] /\ pc'[w] = pc[w]
    BY <1>2, <1>3, <2>1, Zenon DEF SysWrite
  <2>3. QED
    BY <1>1, <1>2, <2>2, Zenon
<1>4. ASSUME NEW p \in Writers, WriteAll(p) PROVE addr'[w] = <<>>
  <2>1. addr' = [addr EXCEPT ![p] = <<>>] /\ p \in Procs
        /\ pc' = Woken([pc EXCEPT ![p] = "user"], Readers)
    BY <1>4, Zenon DEF WriteAll, Procs
  <2>2. CASE w = p
    BY <2>1, <2>2, Zenon
  <2>3. CASE w # p
    <3>1. addr'[w] = addr[w] /\ [pc EXCEPT ![p] = "user"][w] = pc[w]
      BY <1>2, <2>1, <2>3, Zenon
    <3>2. pc'[w] = pc[w]
      BY <1>1, <1>2, <2>1, <3>1, Zenon DEF Woken
    <3>3. QED
      BY <1>1, <1>2, <3>1, <3>2, Zenon
  <2>4. QED
    BY <2>2, <2>3, Zenon
<1>5. ASSUME NEW p \in Writers, WriteFull(p) PROVE addr'[w] = <<>>
  <2>1. \/ addr' = [addr EXCEPT ![p] = <<>>] /\ pc' = [pc EXCEPT ![p] = "user"]
        \/ /\ addr' = [addr EXCEPT ![p] = SubSeq(addr[p], PIPESIZE - Count + 1, Len(addr[p]))]
           /\ pc' = Woken([pc EXCEPT ![p] = "presleep"], Readers)
    BY <1>5, Zenon DEF WriteFull
  <2>2. CASE w = p
    <3>1. [pc EXCEPT ![p] = "presleep"][w] = "presleep"
      BY <1>2, <2>2, Zenon
    <3>2. pc' # Woken([pc EXCEPT ![p] = "presleep"], Readers)
      BY <1>1, <1>2, <3>1, Zenon DEF Woken
    <3>3. QED
      BY <2>1, <2>2, <3>2, Zenon
  <2>3. CASE w # p
    <3>1. addr'[w] = addr[w] /\ [pc EXCEPT ![p] = "user"][w] = pc[w]
          /\ [pc EXCEPT ![p] = "presleep"][w] = pc[w]
      BY <1>2, <2>1, <2>3, Zenon
    <3>2. pc'[w] = pc[w]
      BY <1>1, <1>2, <2>1, <3>1, Zenon DEF Woken
    <3>3. QED
      BY <1>1, <1>2, <3>1, <3>2, Zenon
  <2>4. QED
    BY <2>2, <2>3, Zenon
<1>6. ASSUME NEW p \in Readers, SysRead(p) \/ ReadEmpty(p) \/ ReadSome(p) PROVE addr'[w] = <<>>
  <2>1. p # w /\ addr' = addr
    BY <1>6, PipeAssumption, Zenon DEF SysRead, ReadEmpty, ReadSome
  <2>2. \A l : [pc EXCEPT ![p] = l][w] = pc[w]
    BY <1>2, <2>1, Zenon
  <2>3. pc'[w] = pc[w] \/ pc'[w] = "call"
    BY <1>2, <1>6, <2>2, Zenon DEF SysRead, ReadEmpty, ReadSome, Woken
  <2>4. QED
    BY <1>1, <1>2, <2>1, <2>3, Zenon
<1>7. ASSUME NEW p \in Procs, Sleep(p) \/ Kill(p) \/ Exit(p) PROVE addr'[w] = <<>>
  <2>1. addr' = addr
    BY <1>7, Zenon DEF Sleep, Kill, Exit
  <2>2. pc'[w] \in {"user", "dead"} => pc[w] \in {"user", "dead"}
    <3>1. CASE Sleep(p)
      BY <1>2, <3>1, Zenon DEF Sleep
    <3>2. CASE Kill(p)
      BY <1>2, <3>2, Zenon DEF Kill, Woken
    <3>3. CASE Exit(p)
      <4>1. pc[p] = "user" /\ \E Q : pc' = Woken([pc EXCEPT ![p] = "dead"], Q)
        BY <3>3, Zenon DEF Exit
      <4>2. PICK Q : pc' = Woken([pc EXCEPT ![p] = "dead"], Q)
        BY <4>1, Zenon
      <4>3. w # p => [pc EXCEPT ![p] = "dead"][w] = pc[w]
        BY <1>2, Zenon
      <4>4. QED
        BY <1>2, <4>1, <4>2, <4>3, Zenon DEF Woken
    <3>4. QED
      BY <1>7, <3>1, <3>2, <3>3, Zenon
  <2>3. QED
    BY <1>1, <1>2, <2>1, <2>2, Zenon
<1>8. CASE UNCHANGED vars
  BY <1>1, <1>2, <1>8, Zenon DEF vars
<1>9. QED
  BY <1>3, <1>4, <1>5, <1>6, <1>7, <1>8, Zenon DEF Next

(* Every step is a step of the queue, or leaves it alone.                  *)
LEMMA FifoStep ==
  ASSUME PInv, Idle, [Next]_vars
  PROVE  [Queue!FNext]_<<addr, Ring, got>>
<1>1. PTypes
  BY Zenon DEF PInv
<1>2. ASSUME UNCHANGED <<data, nread, nwrite, got>> PROVE UNCHANGED <<Ring, got>>
  BY <1>2, Zenon DEF Ring, Count
<1>3. ASSUME NEW p \in Writers, WriteAll(p) \/ WriteFull(p) PROVE Queue!FNext
  <2>1. PICK k \in 0 .. PIPESIZE - Count :
           /\ k <= Len(addr[p]) /\ Store(p, k)
           /\ \/ addr' = [addr EXCEPT ![p] = SubSeq(addr[p], k + 1, Len(addr[p]))]
              \/ /\ k = PIPESIZE - Count /\ k < Len(addr[p])
                 /\ addr' = [addr EXCEPT ![p] = <<>>]
    BY <1>1, <1>3, WriteTakes, Zenon
  <2>2. Ring' = Ring \o SubSeq(addr[p], 1, k) /\ got' = got
    BY <1>1, <2>1, StoreAppends, Zenon DEF Store
  <2>3. Len(Ring) = Count /\ Count \in Nat /\ Count <= PIPESIZE /\ PIPESIZE \in Nat
    BY <1>1, RingType, PipeAssumption, Zenon
  <2>4. Len(addr[p]) \in Nat
    BY <1>1, WriteAmount, Zenon
  <2>5. k \in 0 .. Len(addr[p]) /\ Len(Ring) + k <= PIPESIZE
    BY <2>1, <2>3, <2>4
  <2>6. CASE addr' = [addr EXCEPT ![p] = SubSeq(addr[p], k + 1, Len(addr[p]))]
    <3>1. Queue!Put(p, k)
      BY <2>2, <2>5, <2>6, Zenon DEF Queue!Put, Ring
    <3>2. QED
      BY <2>5, <3>1, Zenon DEF Queue!FNext
  <2>7. CASE k = PIPESIZE - Count /\ k < Len(addr[p]) /\ addr' = [addr EXCEPT ![p] = <<>>]
    <3>1. Queue!Fail(p)
      BY <2>2, <2>3, <2>7, Zenon DEF Queue!Fail, Ring
    <3>2. QED
      BY <3>1, Zenon DEF Queue!FNext
  <2>8. QED
    BY <2>1, <2>6, <2>7, Zenon
<1>4. ASSUME NEW p \in Readers, ReadSome(p) PROVE Queue!FNext
  <2> DEFINE k == Minimum(len[p], Count)
  <2>1. k \in 0 .. Count
    BY <1>1, <1>4, ReadEffect, Zenon
  <2>2. /\ got' = [i \in 1 .. k |-> data[(nread + i - 1) % PIPESIZE]]
        /\ nread' = (nread + k) % UINT /\ UNCHANGED <<data, nwrite>> /\ UNCHANGED addr
    BY <1>4, Zenon DEF ReadSome
  <2> HIDE DEF k
  <2>3. got' = SubSeq(Ring, 1, k) /\ Ring' = SubSeq(Ring, k + 1, Len(Ring)) /\ Len(Ring) = Count
    BY <1>1, <2>1, <2>2, ReadTakes, RingType, Zenon
  <2>4. \E x \in 0 .. Len(Ring) : got' = SubSeq(Ring, 1, x) /\ Ring' = SubSeq(Ring, x + 1, Len(Ring))
    BY <2>1, <2>3, Zenon
  <2>5. QED
    BY <2>2, <2>4, Zenon DEF Queue!FNext, Queue!Get, Ring
<1>5. ASSUME NEW p \in Writers, SysWrite(p) PROVE Queue!FNext
  <2>1. addr[p] = <<>>
    BY <1>5, Zenon DEF Idle, SysWrite
  <2>2. PICK n \in 1 .. MaxN : \E s \in [1 .. n -> Bytes] : addr' = [addr EXCEPT ![p] = s]
    BY <1>5, Zenon DEF SysWrite
  <2>3. PICK s \in [1 .. n -> Bytes] : addr' = [addr EXCEPT ![p] = s]
    BY <2>2, Zenon
  <2>4. n \in Nat
    BY <2>2, PipeAssumption
  <2>5. s \in Seq(Bytes)
    BY <2>3, <2>4
  <2>6. addr'[p] = s
    BY <1>1, <2>3, Zenon DEF PTypes
  <2>7. UNCHANGED <<Ring, got>>
    BY <1>2, <1>5, Zenon DEF SysWrite, pipeVars
  <2>8. Queue!Begin(p)
    BY <2>1, <2>3, <2>5, <2>6, <2>7, Zenon DEF Queue!Begin, Ring
  <2>9. QED
    BY <2>8, Zenon DEF Queue!FNext
<1>6. CASE Next
  <2>1. CASE \E p \in Writers : SysWrite(p) \/ WriteAll(p) \/ WriteFull(p)
    BY <1>3, <1>5, <2>1, Zenon
  <2>2. CASE \E p \in Readers : ReadSome(p)
    BY <1>4, <2>2, Zenon
  <2>3. CASE \E p \in Procs : SysRead(p) \/ ReadEmpty(p) \/ Sleep(p) \/ Kill(p) \/ Exit(p)
    <3>1. UNCHANGED <<data, nread, nwrite, got>> /\ UNCHANGED addr
      BY <2>3, Zenon DEF SysRead, ReadEmpty, Sleep, Kill, Exit, pipeVars
    <3>2. QED
      BY <1>2, <3>1, Zenon
  <2>4. QED
    BY <1>6, <2>1, <2>2, <2>3, Zenon DEF Next, Procs
<1>7. CASE UNCHANGED vars
  BY <1>2, <1>7, Zenon DEF vars, pipeVars
<1>8. QED
  BY <1>6, <1>7, Zenon

(* The ring buffer implements a bounded FIFO queue of the writers' bytes:  *)
(* pipewrite appends each byte it was given once and in order, also when   *)
(* it sleeps in the middle, and drops bytes only when it fails on a full   *)
(* pipe; piperead returns the oldest bytes, in order and each once,        *)
(* whatever the number of processes and wherever the counters wrap around. *)
THEOREM ImplementsFifo == Spec => IsFifo
<1>1. Init => Queue!FInit /\ Idle
  <2> SUFFICES ASSUME Init PROVE addr = [w \in Writers |-> <<>>] /\ Ring = <<>> /\ got = <<>>
    BY Zenon DEF Queue!FInit, Ring, Idle
  <2>1. Count = 0
    <3>1. 0 \in 0 .. UINT - 1
      BY PipeAssumption
    <3>2. (0 + UINT - 0) % UINT = 0
      BY <3>1, Distance
    <3>3. QED
      BY <3>2, Zenon DEF Init, Count
  <2>2. QED
    BY <2>1 DEF Ring, Init
<1>2. PInv /\ Idle /\ [Next]_vars => Idle'
  BY IdleStep, Zenon DEF PInv
<1>3. PInv /\ Idle /\ [Next]_vars => [Queue!FNext]_<<addr, Ring, got>>
  BY FifoStep, Zenon
<1>4. [][Queue!FNext]_<<addr, Ring, got>> /\ Queue!FInit => IsFifo
  BY PTL DEF IsFifo, Queue!FSpec, Queue!fvars, Ring
<1>5. QED
  BY <1>1, <1>2, <1>3, <1>4, PipeInductive, PTL DEF Spec
=============================================================================
