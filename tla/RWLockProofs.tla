---------------------------- MODULE RWLockProofs ----------------------------
(***************************************************************************)
(* Proofs about the readers-writer lock, for any number of threads: until  *)
(* one is killed, exclusion and the count of readers; after a killed       *)
(* thread's exit(), nobody enters.  First the sleepers of the two          *)
(* semaphores, as long as no thread is killed.                             *)
(***************************************************************************)
EXTENDS RWLock, FiniteSetTheorems, TLAPS

\* Threads asleep on an element of the array of s, found by its address.
InArray(c, s) == Base[s] <= c /\ c < Base[s] + SIZE
Sleepers(s) == {p \in Procs : pstate[p] = "SLEEPING" /\ InArray(chan[p], s)}

\* The tickets from dcount to count are one each with the sleepers.
QueueInv(s) ==
  /\ dcount[s] <= count[s]
  /\ value[s] < 0 => count[s] - dcount[s] = -value[s]
  /\ value[s] >= 0 => count[s] = dcount[s]
  /\ Cardinality(Sleepers(s)) = count[s] - dcount[s]
  /\ \A p \in Sleepers(s) : \E t \in dcount[s] .. count[s] - 1 : chan[p] = Slot(s, t)
  /\ \A t \in dcount[s] .. count[s] - 1 : \E p \in Sleepers(s) : chan[p] = Slot(s, t)
  /\ \A p, q \in Sleepers(s) : chan[p] = chan[q] => p = q

-----------------------------------------------------------------------------
(* Two tickets less than SIZE apart that share an element of arr are the   *)
(* same ticket.                                                            *)
LEMMA ModUnique ==
  ASSUME NEW S \in Nat \ {0}, NEW a \in Nat, NEW b \in Nat,
         a % S = b % S, a <= b, b < a + S
  PROVE  a = b
<1>1. a = S * (a \div S) + (a % S) /\ b = S * (b \div S) + (b % S)
  OBVIOUS
<1> DEFINE k == (b \div S) - (a \div S)
<1>2. k \in Int /\ b - a = S * k
  BY <1>1
<1> HIDE DEF k
<1>3. CASE k <= 0
  <2>1. S * k <= 0
    BY <1>2, <1>3
  <2>2. QED
    BY <1>2, <2>1
<1>4. CASE k >= 1
  <2>1. S * k >= S
    BY <1>2, <1>4
  <2>2. QED
    BY <1>2, <2>1
<1>5. QED
  BY <1>2, <1>3, <1>4

(* An element of arr is inside its own array.                              *)
LEMMA SlotRange ==
  ASSUME NEW s \in Sems, NEW n \in Nat
  PROVE  Slot(s, n) \in Nat \ {0} /\ InArray(Slot(s, n), s)
<1>1. n % SIZE \in 0 .. SIZE - 1 /\ Base[s] \in Nat \ {0}
  BY SemAssumption
<1>2. QED
  BY <1>1, SemAssumption DEF Slot, InArray

(* Different tickets less than SIZE apart have different elements.         *)
LEMMA SlotsDiffer ==
  ASSUME NEW s \in Sems, NEW a \in Nat, NEW b \in Nat, a < b, b < a + SIZE
  PROVE  Slot(s, a) # Slot(s, b)
<1>1. SIZE \in Nat \ {0} /\ Base[s] \in Nat
  BY SemAssumption, Zenon
<1>2. (a % SIZE) \in Int /\ (b % SIZE) \in Int
  BY <1>1
<1>3. ASSUME (a % SIZE) = (b % SIZE) PROVE FALSE
  <2>1. a <= b
    OBVIOUS
  <2>2. a = b
    BY ONLY <1>1, <1>3, <2>1, b < a + SIZE, a \in Nat, b \in Nat, ModUnique, Zenon
  <2>3. QED
    BY <2>2
<1>4. QED
  BY <1>1, <1>2, <1>3 DEF Slot

(* No address is in both arrays.                                           *)
LEMMA ArraysDiffer ==
  ASSUME NEW s \in Sems, NEW r \in Sems, s # r, NEW c \in Nat, InArray(c, s)
  PROVE  ~InArray(c, r)
<1>1. Base[s] \in Nat /\ Base[r] \in Nat /\ SIZE \in Nat
  BY SemAssumption, Zenon
<1>2. Base[s] + SIZE <= Base[r] \/ Base[r] + SIZE <= Base[s]
  BY RWAssumption
<1>3. QED
  BY <1>1, <1>2 DEF InArray

(* Every set of threads is finite and no larger than arr.                  *)
LEMMA FinProcs ==
  ASSUME NEW T \in SUBSET Procs
  PROVE  /\ IsFiniteSet(T)
         /\ Cardinality(T) \in Nat
         /\ Cardinality(T) <= SIZE
         /\ T # Procs => Cardinality(T) < SIZE
<1>1. IsFiniteSet(T) /\ Cardinality(T) <= Cardinality(Procs)
  BY FS_Subset, SemAssumption, Zenon
<1>2. Cardinality(T) \in Nat /\ Cardinality(Procs) \in Nat
  BY <1>1, FS_CardinalityType, SemAssumption, Zenon
<1>3. T # Procs => Cardinality(T) < Cardinality(Procs)
  BY <1>1, <1>2, FS_Subset, SemAssumption
<1>4. QED
  BY <1>1, <1>2, <1>3, SemAssumption

(* Adding or removing one thread changes a cardinality by one.             *)
LEMMA CardOne ==
  ASSUME NEW S \in SUBSET Procs, NEW x
  PROVE  /\ x \notin S => Cardinality(S \cup {x}) = Cardinality(S) + 1
         /\ x \in S => Cardinality(S \ {x}) = Cardinality(S) - 1
<1>1. IsFiniteSet(S)
  BY FinProcs, Zenon
<1>2. QED
  BY <1>1, FS_AddElement, FS_RemoveElement, Zenon

-----------------------------------------------------------------------------
(* A step that leaves the counters and the sleepers of s alone keeps its   *)
(* queue.                                                                  *)
LEMMA QueueFrame ==
  ASSUME NEW s \in Sems, QueueInv(s), Sleepers(s)' = Sleepers(s),
         value'[s] = value[s], count'[s] = count[s], dcount'[s] = dcount[s],
         \A p \in Sleepers(s) : chan'[p] = chan[p]
  PROVE  QueueInv(s)'
BY DEF QueueInv, Slot

(* xem_wait that takes a free permit: nobody sleeps, before and after.     *)
LEMMA TakeQueue ==
  ASSUME SemType, \A s \in Sems : QueueInv(s), NEW p \in Procs, NEW s \in Sems, XemTake(p, s)
  PROVE  \A r \in Sems : QueueInv(r)' /\ Sleepers(r)' = Sleepers(r)
<1>1. /\ value[s] > 0 /\ value' = [value EXCEPT ![s] = @ - 1]
      /\ UNCHANGED <<count, dcount, pstate, chan>>
  BY Zenon DEF XemTake
<1>2. \A r \in Sems : Sleepers(r)' = Sleepers(r)
  BY <1>1, Zenon DEF Sleepers, InArray
<1>3. QueueInv(s)'
  <2>1. value'[s] = value[s] - 1 /\ value'[s] >= 0
    BY <1>1 DEF SemType
  <2>2. QED
    BY <1>1, <1>2, <2>1 DEF QueueInv, SemType, Slot
<1>4. ASSUME NEW r \in Sems, r # s
      PROVE  QueueInv(r)'
  BY <1>1, <1>2, <1>4, QueueFrame, Zenon DEF SemType
<1>5. QED
  BY <1>2, <1>3, <1>4, Zenon

(* xem_wait that sleeps: the thread draws the ticket count, whose element  *)
(* nobody else sleeps on.                                                  *)
LEMMA SleepQueue ==
  ASSUME SemType, SemType', \A s \in Sems : QueueInv(s), NEW p \in Procs, NEW s \in Sems,
         pstate[p] = "RUNNABLE", XemSleep(p, s)
  PROVE  /\ \A r \in Sems : QueueInv(r)'
         /\ Sleepers(s)' = Sleepers(s) \cup {p} /\ p \notin Sleepers(s)
         /\ \A r \in Sems \ {s} : Sleepers(r)' = Sleepers(r)
<1> DEFINE c == count[s]
<1>1. /\ value[s] <= 0 /\ value' = [value EXCEPT ![s] = @ - 1]
      /\ count' = [count EXCEPT ![s] = @ + 1]
      /\ pstate' = [pstate EXCEPT ![p] = "SLEEPING"]
      /\ chan' = [chan EXCEPT ![p] = Slot(s, c)]
      /\ UNCHANGED dcount
  BY Zenon DEF XemSleep
<1>2. c \in Nat /\ Slot(s, c) \in Nat /\ InArray(Slot(s, c), s)
  BY SlotRange, Zenon DEF SemType
<1>3. \A r \in Sems \ {s} : ~InArray(Slot(s, c), r)
  BY <1>2, ArraysDiffer, Zenon
<1>4. Sleepers(s)' = Sleepers(s) \cup {p} /\ p \notin Sleepers(s)
  BY <1>1, <1>2 DEF Sleepers, InArray, SemType
<1>5. ASSUME NEW r \in Sems \ {s}
      PROVE  Sleepers(r)' = Sleepers(r) /\ p \notin Sleepers(r)
  BY <1>1, <1>3, Zenon DEF Sleepers, InArray, SemType
<1>6. QueueInv(s)'
  <2>1. QueueInv(s) /\ dcount[s] \in Nat /\ value[s] \in Int
    BY Zenon DEF SemType
  <2>2. /\ value'[s] = value[s] - 1 /\ count'[s] = c + 1 /\ dcount'[s] = dcount[s]
    BY <1>1, Zenon DEF SemType
  <2>3. Sleepers(s) \in SUBSET Procs /\ Sleepers(s) # Procs
    BY <1>4, Zenon DEF Sleepers
  <2>4. /\ Cardinality(Sleepers(s)) \in Nat /\ Cardinality(Sleepers(s)) < SIZE
        /\ Cardinality(Sleepers(s)') = Cardinality(Sleepers(s)) + 1
    BY <1>4, <2>3, FinProcs, CardOne, Zenon
  <2>5. c - dcount[s] = -value[s] /\ c - dcount[s] < SIZE /\ dcount[s] <= c
    BY <1>1, <1>2, <2>1, <2>4 DEF QueueInv
  <2>6. \A q \in Sleepers(s) : q \in Procs /\ q # p /\ chan'[q] = chan[q]
    BY <1>1, <1>4 DEF Sleepers, SemType
  <2>7. chan'[p] = Slot(s, c)
    BY <1>1, Zenon DEF SemType
  <2>8. \A t \in dcount[s] .. c - 1 : Slot(s, t) # Slot(s, c)
    BY <1>2, <2>1, <2>5, SlotsDiffer, SemAssumption
  <2>9. \A q \in Sleepers(s) : chan[q] # Slot(s, c)
    BY <2>1, <2>8 DEF QueueInv
  <2>10. \A q \in Sleepers(s)' : \E t \in dcount'[s] .. count'[s] - 1 : chan'[q] = Slot(s, t)
    <3>1. \A t \in dcount[s] .. c - 1 : t \in dcount'[s] .. count'[s] - 1
      BY <1>2, <2>1, <2>2
    <3>2. c \in dcount'[s] .. count'[s] - 1
      BY <1>2, <2>1, <2>2, <2>5
    <3>3. \A q \in Sleepers(s) : \E t \in dcount[s] .. c - 1 : chan[q] = Slot(s, t)
      BY <2>1, Zenon DEF QueueInv
    <3>4. QED
      BY <1>4, <2>6, <2>7, <3>1, <3>2, <3>3, Zenon
  <2>11. \A t \in dcount'[s] .. count'[s] - 1 : \E q \in Sleepers(s)' : chan'[q] = Slot(s, t)
    <3>1. ASSUME NEW t \in dcount'[s] .. count'[s] - 1
          PROVE  \E q \in Sleepers(s)' : chan'[q] = Slot(s, t)
      <4>1. CASE t = c
        BY <1>4, <2>7, <4>1, Zenon
      <4>2. CASE t # c
        <5>1. t \in dcount[s] .. c - 1
          BY <1>2, <2>1, <2>2, <4>2
        <5>2. QED
          BY <1>4, <2>1, <2>6, <5>1, ZenonT(30) DEF QueueInv
      <4>3. QED
        BY <4>1, <4>2, Zenon
    <3>2. QED
      BY <3>1, Zenon
  <2>12. \A a, b \in Sleepers(s)' : chan'[a] = chan'[b] => a = b
    BY <1>4, <2>1, <2>6, <2>7, <2>9 DEF QueueInv
  <2>13. /\ dcount'[s] <= count'[s] /\ value'[s] < 0 /\ count'[s] - dcount'[s] = -value'[s]
         /\ Cardinality(Sleepers(s)') = count'[s] - dcount'[s]
    BY <1>1, <1>2, <2>1, <2>2, <2>4, <2>5 DEF QueueInv
  <2>14. QED
    BY <2>1, <2>2, <2>10, <2>11, <2>12, <2>13 DEF QueueInv, Slot
<1>7. ASSUME NEW r \in Sems \ {s}
      PROVE  QueueInv(r)'
  <2>1. \A q \in Sleepers(r) : chan'[q] = chan[q]
    BY <1>1, <1>5 DEF Sleepers, SemType
  <2>2. QED
    BY <1>1, <1>5, <2>1, QueueFrame, Zenon DEF SemType
<1>8. QED
  BY <1>4, <1>5, <1>6, <1>7, Zenon

(* sleep() returns: the thread was woken before.                           *)
LEMMA ResumeQueue ==
  ASSUME SemType, \A s \in Sems : QueueInv(s), NEW p \in Procs, NEW s \in Sems, XemResume(p, s)
  PROVE  \A r \in Sems : QueueInv(r)' /\ Sleepers(r)' = Sleepers(r)
<1>1. /\ pstate[p] = "RUNNABLE" /\ chan' = [chan EXCEPT ![p] = 0]
      /\ UNCHANGED <<value, count, dcount, pstate>>
  BY Zenon DEF XemResume
<1>2. ASSUME NEW r \in Sems
      PROVE  Sleepers(r)' = Sleepers(r) /\ \A q \in Sleepers(r) : chan'[q] = chan[q]
  BY <1>1, Zenon DEF Sleepers, SemType, InArray
<1>3. QED
  BY <1>1, <1>2, QueueFrame, Zenon

(* xem_unlock: when threads sleep, exactly the one that drew the ticket    *)
(* dcount is woken.                                                        *)
LEMMA UnlockQueue ==
  ASSUME SemType, SemType', \A s \in Sems : QueueInv(s), NEW p \in Procs, NEW s \in Sems, XemUnlock(p, s)
  PROVE  /\ \A r \in Sems : QueueInv(r)'
         /\ \A r \in Sems : Sleepers(r)' \subseteq Sleepers(r)
<1> DEFINE d == dcount[s]
<1>0. QueueInv(s) /\ d \in Nat /\ count[s] \in Nat /\ value[s] \in Int
  BY Zenon DEF SemType
<1>1. CASE value[s] + 1 <= 0
  <2>1. /\ value' = [value EXCEPT ![s] = @ + 1]
        /\ dcount' = [dcount EXCEPT ![s] = @ + 1]
        /\ Wakeup(Slot(s, d))
        /\ UNCHANGED <<count, chan>>
    BY <1>1, Zenon DEF XemUnlock
  <2>2. value'[s] = value[s] + 1 /\ dcount'[s] = d + 1 /\ count'[s] = count[s]
    BY <2>1, Zenon DEF SemType
  <2>3. d < count[s] /\ count[s] - d = -value[s] /\ d \in d .. count[s] - 1
    BY <1>0, <1>1 DEF QueueInv
  <2>4. PICK w \in Sleepers(s) : chan[w] = Slot(s, d)
    BY <1>0, <2>3, Zenon DEF QueueInv
  <2>5. Slot(s, d) \in Nat /\ InArray(Slot(s, d), s) /\ w \in Procs
    BY <1>0, <2>4, SlotRange, Zenon DEF Sleepers
  <2>6. Sleepers(s)' = Sleepers(s) \ {w}
    <3>1. \A q \in Sleepers(s) : chan[q] = Slot(s, d) => q = w
      BY <1>0, <2>4, Zenon DEF QueueInv
    <3>2. QED
      BY <2>1, <2>4, <3>1, Zenon DEF Sleepers, InArray, Wakeup, SemType
  <2>7. ASSUME NEW r \in Sems \ {s}
        PROVE  Sleepers(r)' = Sleepers(r)
    <3>1. \A q \in Sleepers(r) : chan[q] # Slot(s, d)
      BY <2>5, ArraysDiffer, Zenon DEF Sleepers
    <3>2. QED
      BY <2>1, <3>1, Zenon DEF Sleepers, InArray, Wakeup, SemType
  <2>8. QueueInv(s)'
    <3>1. Sleepers(s) \in SUBSET Procs
      BY Zenon DEF Sleepers
    <3>2. /\ Cardinality(Sleepers(s)) \in Nat /\ Cardinality(Sleepers(s)) <= SIZE
          /\ Cardinality(Sleepers(s)') = Cardinality(Sleepers(s)) - 1
      BY <2>4, <2>6, <3>1, FinProcs, CardOne, Zenon
    <3>3. count[s] - d <= SIZE
      BY <1>0, <3>2, Zenon DEF QueueInv
    <3>4. \A t \in d + 1 .. count[s] - 1 : Slot(s, d) # Slot(s, t)
      BY <1>0, <3>3, SlotsDiffer, SemAssumption
    <3>5. \A q \in Sleepers(s)' : \E t \in dcount'[s] .. count'[s] - 1 : chan'[q] = Slot(s, t)
      <4>1. ASSUME NEW q \in Sleepers(s)'
            PROVE  \E t \in d + 1 .. count[s] - 1 : chan[q] = Slot(s, t)
        <5>1. PICK t \in d .. count[s] - 1 : chan[q] = Slot(s, t)
          BY <1>0, <2>6, Zenon DEF QueueInv
        <5>2. chan[q] # chan[w]
          BY <1>0, <2>6, Zenon DEF QueueInv
        <5>3. QED
          BY <1>0, <2>4, <5>1, <5>2
      <4>2. QED
        BY <2>1, <2>2, <4>1, Zenon
    <3>6. \A t \in dcount'[s] .. count'[s] - 1 : \E q \in Sleepers(s)' : chan'[q] = Slot(s, t)
      <4>1. ASSUME NEW t \in d + 1 .. count[s] - 1
            PROVE  \E q \in Sleepers(s)' : chan[q] = Slot(s, t)
        <5>1. t \in d .. count[s] - 1
          BY <1>0
        <5>2. PICK q \in Sleepers(s) : chan[q] = Slot(s, t)
          BY <1>0, <5>1, Zenon DEF QueueInv
        <5>3. QED
          BY <2>4, <2>6, <3>4, <5>2, Zenon
      <4>2. QED
        BY <2>1, <2>2, <4>1, Zenon
    <3>7. \A a, b \in Sleepers(s)' : chan'[a] = chan'[b] => a = b
      BY <1>0, <2>1, <2>6, Zenon DEF QueueInv
    <3>8. /\ dcount'[s] <= count'[s]
          /\ value'[s] < 0 => count'[s] - dcount'[s] = -value'[s]
          /\ value'[s] >= 0 => count'[s] = dcount'[s]
          /\ Cardinality(Sleepers(s)') = count'[s] - dcount'[s]
      <4>1. Cardinality(Sleepers(s)) = count[s] - d
        BY <1>0, Zenon DEF QueueInv
      <4>2. QED
        BY <1>0, <1>1, <2>2, <2>3, <3>2, <4>1
    <3>9. QED
      BY <3>5, <3>6, <3>7, <3>8, Zenon DEF QueueInv, Slot
  <2>9. ASSUME NEW r \in Sems \ {s}
        PROVE  QueueInv(r)'
    BY <2>1, <2>7, QueueFrame, Zenon DEF SemType
  <2>10. QED
    BY <2>6, <2>7, <2>8, <2>9, Zenon
<1>2. CASE ~(value[s] + 1 <= 0)
  <2>1. value' = [value EXCEPT ![s] = @ + 1] /\ UNCHANGED <<count, dcount, pstate, chan>>
    BY <1>2, Zenon DEF XemUnlock
  <2>2. \A r \in Sems : Sleepers(r)' = Sleepers(r)
    BY <2>1, Zenon DEF Sleepers, InArray
  <2>3. QueueInv(s)'
    <3>1. value'[s] = value[s] + 1 /\ value[s] >= 0 /\ value'[s] >= 0
      BY <1>0, <1>2, <2>1 DEF SemType
    <3>2. QED
      BY <1>0, <2>1, <2>2, <3>1 DEF QueueInv, Slot
  <2>4. ASSUME NEW r \in Sems \ {s}
        PROVE  QueueInv(r)'
    BY <2>1, <2>2, QueueFrame, Zenon DEF SemType
  <2>5. QED
    BY <2>2, <2>3, <2>4, Zenon
<1>3. QED
  BY <1>1, <1>2, Zenon

-----------------------------------------------------------------------------
Labels == {"user", "aLk", "aInc", "aWl", "aUnlk", "aRet", "reading", "dLk", "dDec", "dWl",
           "dUnlk", "wWl", "wRet", "writing", "wPost", "dead"}

TypeOK ==
  /\ SemType
  /\ readers \in Int
  /\ pc \in [Procs -> Labels]

\* A thread with a channel is inside an xem_wait, on an element of its array.
ChanInv(p) ==
  /\ chan[p] # 0 => \/ pc[p] \in {"aLk", "dLk"} /\ InArray(chan[p], "lk")
                    \/ pc[p] \in {"aWl", "wWl"} /\ InArray(chan[p], "writelock")
  /\ chan[p] = 0 => pstate[p] = "RUNNABLE"

\* Threads that took a permit of lk and did not give it back, or queue for it.
LkClaims ==
  {p \in Procs : \/ pc[p] \in {"aInc", "aWl", "aUnlk", "dDec", "dWl", "dUnlk"}
                 \/ pc[p] \in {"aLk", "dLk"} /\ chan[p] # 0}

\* The same for writelock, but for the permit the readers hold together.
WlClaims ==
  {p \in Procs : \/ pc[p] \in {"wRet", "writing", "wPost"}
                 \/ pc[p] \in {"aWl", "wWl"} /\ chan[p] # 0}

\* The threads readers counts.
Inside == At({"aWl", "aUnlk", "aRet", "reading", "dLk", "dDec"})

\* The readers on whose behalf writelock is held.
Group == At({"aUnlk", "aRet", "reading", "dLk", "dDec", "dWl"})

Permits ==
  /\ value["lk"] = 1 - Cardinality(LkClaims)
  /\ value["writelock"] = 1 - Cardinality(WlClaims) - (IF Group = {} THEN 0 ELSE 1)
  /\ readers = Cardinality(Inside)
  /\ \A p \in At({"aWl"}) : Inside = {p}
  /\ At({"dWl"}) # {} => Inside = {}

RWInv ==
  /\ \A s \in Sems : QueueInv(s)
  /\ \A p \in Procs : ChanInv(p)
  /\ Permits

(* A thread outside every xem_wait has no channel and can run.             *)
LEMMA NoChan ==
  ASSUME RWInv, NEW p \in Procs, pc[p] \notin {"aLk", "dLk", "aWl", "wWl"}
  PROVE  chan[p] = 0 /\ pstate[p] = "RUNNABLE"
BY Zenon DEF RWInv, ChanInv

(* Removing the sleepers of s from a set that holds them all leaves at     *)
(* most one thread, when value accounts for the whole set.                 *)
LEMMA FewAwake ==
  ASSUME SemType, NEW s \in Sems, QueueInv(s), NEW C \in SUBSET Procs,
         Sleepers(s) \subseteq C, NEW g \in {0, 1},
         value[s] = 1 - Cardinality(C) - g
  PROVE  /\ \A p, q \in C \ Sleepers(s) : p = q
         /\ C \ Sleepers(s) # {} => g = 0
<1> DEFINE A == C \ Sleepers(s)
<1>1. /\ Cardinality(C) \in Nat /\ Cardinality(Sleepers(s)) \in Nat /\ Cardinality(A) \in Nat
      /\ IsFiniteSet(C) /\ IsFiniteSet(A) /\ IsFiniteSet(Sleepers(s))
  BY FinProcs, Zenon
<1>2. Cardinality(A) = Cardinality(C) - Cardinality(C \cap Sleepers(s))
  BY <1>1, FS_Difference, Zenon
<1>3. C \cap Sleepers(s) = Sleepers(s)
  BY Zenon
<1>4. Cardinality(A) = Cardinality(C) - Cardinality(Sleepers(s))
  BY <1>2, <1>3, Zenon
<1>5. /\ value[s] \in Int /\ dcount[s] \in Nat /\ count[s] \in Nat
      /\ value[s] < 0 => count[s] - dcount[s] = -value[s]
      /\ value[s] >= 0 => count[s] = dcount[s]
      /\ Cardinality(Sleepers(s)) = count[s] - dcount[s]
  BY Zenon DEF SemType, QueueInv
<1>6. Cardinality(A) <= 1 - g
  BY <1>1, <1>4, <1>5
<1>7. ASSUME NEW p \in A
      PROVE  A = {p} /\ g = 0
  <2>1. Cardinality(A \ {p}) = Cardinality(A) - 1 /\ Cardinality(A \ {p}) \in Nat /\ IsFiniteSet(A \ {p})
    BY <1>1, <1>7, CardOne, FinProcs, SMTT(30)
  <2>2. Cardinality(A \ {p}) = 0 /\ g = 0
    BY <1>1, <1>6, <2>1
  <2>3. A \ {p} = {}
    BY <2>1, <2>2, FS_EmptySet, Zenon
  <2>4. QED
    BY <1>7, <2>2, <2>3, Zenon
<1>8. QED
  BY <1>7, Zenon

(* At most one thread holds lk.                                            *)
LEMMA LkAlone ==
  ASSUME TypeOK, RWInv
  PROVE  \A p, q \in InLk : p = q
<1>1. Sleepers("lk") \subseteq LkClaims
  <2>1. ASSUME NEW p \in Sleepers("lk")
        PROVE  p \in LkClaims
    <3>1. p \in Procs /\ pstate[p] = "SLEEPING" /\ InArray(chan[p], "lk") /\ chan[p] \in Nat
      BY Zenon DEF Sleepers, TypeOK, SemType
    <3>2. ~InArray(chan[p], "writelock")
      BY <3>1, ArraysDiffer, RWAssumption, Zenon
    <3>3. QED
      BY <3>1, <3>2, Zenon DEF RWInv, ChanInv, LkClaims
  <2>2. QED
    BY <2>1, Zenon
<1>2. \A p \in InLk : p \in LkClaims \ Sleepers("lk")
  <2>1. ASSUME NEW p \in InLk
        PROVE  p \in LkClaims \ Sleepers("lk")
    <3>1. p \in Procs /\ pc[p] \in {"aInc", "aWl", "aUnlk", "dDec", "dWl", "dUnlk"}
      BY Zenon DEF InLk, At
    <3>2. p \in LkClaims
      BY <3>1, Zenon DEF LkClaims
    <3>3. p \notin Sleepers("lk")
      <4>1. CASE chan[p] = 0
        BY <3>1, <4>1, Zenon DEF RWInv, ChanInv, Sleepers
      <4>2. CASE chan[p] # 0
        <5>1. InArray(chan[p], "writelock") /\ chan[p] \in Nat
          BY <3>1, <4>2, Zenon DEF RWInv, ChanInv, TypeOK, SemType
        <5>2. QED
          BY <5>1, ArraysDiffer, RWAssumption, Zenon DEF Sleepers
      <4>3. QED
        BY <4>1, <4>2, Zenon
    <3>4. QED
      BY <3>2, <3>3, Zenon
  <2>2. QED
    BY <2>1, Zenon
<1>3. \A p, q \in LkClaims \ Sleepers("lk") : p = q
  <2>1. "lk" \in Sems /\ LkClaims \in SUBSET Procs
    BY RWAssumption, Zenon DEF LkClaims
  <2>2. QueueInv("lk") /\ value["lk"] = 1 - Cardinality(LkClaims)
    BY <2>1, Zenon DEF RWInv, Permits
  <2>3. Cardinality(LkClaims) \in Nat
    BY <2>1, FinProcs, Zenon
  <2>4. value["lk"] = 1 - Cardinality(LkClaims) - 0
    BY <2>2, <2>3
  <2>5. QED
    BY <1>1, <2>1, <2>2, <2>4, FewAwake, Zenon DEF TypeOK
<1>4. QED
  BY <1>2, <1>3, Zenon

(* At most one thread holds writelock for itself, and none while the       *)
(* readers hold it.                                                        *)
LEMMA WlAlone ==
  ASSUME TypeOK, RWInv
  PROVE  /\ \A p, q \in WlClaims \ Sleepers("writelock") : p = q
         /\ WlClaims \ Sleepers("writelock") # {} => Group = {}
<1>1. Sleepers("writelock") \subseteq WlClaims
  <2>1. ASSUME NEW p \in Sleepers("writelock")
        PROVE  p \in WlClaims
    <3>1. p \in Procs /\ pstate[p] = "SLEEPING" /\ InArray(chan[p], "writelock") /\ chan[p] \in Nat
      BY Zenon DEF Sleepers, TypeOK, SemType
    <3>2. ~InArray(chan[p], "lk")
      BY <3>1, ArraysDiffer, RWAssumption, Zenon
    <3>3. QED
      BY <3>1, <3>2, Zenon DEF RWInv, ChanInv, WlClaims
  <2>2. QED
    BY <2>1, Zenon
<1> DEFINE g == IF Group = {} THEN 0 ELSE 1
<1>2. "writelock" \in Sems /\ WlClaims \in SUBSET Procs /\ g \in {0, 1}
  BY RWAssumption, Zenon DEF WlClaims
<1>3. QueueInv("writelock") /\ value["writelock"] = 1 - Cardinality(WlClaims) - g
  BY <1>2, Zenon DEF RWInv, Permits
<1>4. g = 0 => Group = {}
  OBVIOUS
<1> HIDE DEF g
<1>5. QED
  BY <1>1, <1>2, <1>3, <1>4, FewAwake, Zenon DEF TypeOK

-----------------------------------------------------------------------------
(* The steps of the semaphores keep the types.                             *)
LEMMA SemTypeStep ==
  ASSUME SemType, NEW p \in Procs, NEW s \in Sems,
         \/ XemTake(p, s) \/ XemSleep(p, s) \/ XemResume(p, s) \/ XemUnlock(p, s) \/ KillWakes(p)
  PROVE  SemType'
<1>1. CASE XemTake(p, s)
  BY <1>1 DEF SemType, XemTake
<1>2. CASE XemSleep(p, s)
  <2>1. Slot(s, count[s]) \in Nat
    BY SlotRange, Zenon DEF SemType
  <2>2. QED
    BY <1>2, <2>1 DEF SemType, XemSleep
<1>3. CASE XemResume(p, s)
  BY <1>3 DEF SemType, XemResume
<1>4. CASE XemUnlock(p, s)
  BY <1>4 DEF SemType, XemUnlock, Wakeup
<1>5. CASE KillWakes(p)
  BY <1>5, Zenon DEF SemType, KillWakes
<1>6. QED
  BY <1>1, <1>2, <1>3, <1>4, <1>5, Zenon

(* Every step keeps the types.                                             *)
LEMMA TypeStep ==
  ASSUME TypeOK, [Next]_vars
  PROVE  TypeOK'
<1>0. "lk" \in Sems /\ "writelock" \in Sems
  BY RWAssumption, Zenon
<1>1. CASE UNCHANGED vars
  BY <1>1, Zenon DEF TypeOK, SemType, vars, semVars
<1>2. ASSUME NEW p \in Procs, SysAcquire(p) \/ SysRelease(p) \/ Return(p)
      PROVE  TypeOK'
  BY <1>2, Zenon DEF TypeOK, SemType, SysAcquire, SysRelease, Return, Syscall, Goto, semVars, Labels
<1>3. ASSUME NEW p \in Procs, NEW s \in Sems, NEW from, NEW to \in Labels, Wait(p, s, from, to)
      PROVE  TypeOK'
  <2>1. SemType'
    BY <1>3, SemTypeStep, Zenon DEF TypeOK, Wait
  <2>2. QED
    BY <1>3, <2>1, Zenon DEF TypeOK, Wait, Goto
<1>4. ASSUME NEW p \in Procs, NEW s \in Sems, NEW from, NEW to \in Labels, Post(p, s, from, to)
      PROVE  TypeOK'
  <2>1. SemType'
    BY <1>4, SemTypeStep, Zenon DEF TypeOK, Post
  <2>2. QED
    BY <1>4, <2>1, Zenon DEF TypeOK, Post, Goto
<1>5. ASSUME NEW p \in Procs, AcquireReadInc(p) \/ ReleaseReadDec(p)
      PROVE  TypeOK'
  BY <1>5 DEF TypeOK, SemType, AcquireReadInc, ReleaseReadDec, semVars, Labels
<1>6. ASSUME NEW p \in Procs, ExitKilled(p)
      PROVE  TypeOK'
  BY <1>6, Zenon DEF TypeOK, SemType, ExitKilled, semVars, Labels
<1>7. ASSUME NEW p \in Procs, Kill(p)
      PROVE  TypeOK'
  <2>1. SemType'
    BY <1>0, <1>7, SemTypeStep, Zenon DEF TypeOK, Kill
  <2>2. QED
    BY <1>7, <2>1, Zenon DEF TypeOK, Kill
<1>8. {"aInc", "aUnlk", "aRet", "dDec", "dUnlk", "user", "wRet"} \subseteq Labels
  BY Zenon DEF Labels
<1>9. QED
  BY <1>0, <1>1, <1>2, <1>3, <1>4, <1>5, <1>6, <1>7, <1>8, Zenon
  DEF Next, Progress, rwlock_acquire_readlock, rwlock_acquire_writelock,
      rwlock_release_readlock, rwlock_release_writelock

-----------------------------------------------------------------------------
(* A step between two labels that mean the same to the lock changes no     *)
(* claim.                                                                  *)
LEMMA SilentStep ==
  ASSUME TypeOK, RWInv, NEW p \in Procs, SysAcquire(p) \/ SysRelease(p) \/ Return(p)
  PROVE  RWInv'
<1>1. PICK from, to : /\ <<from, to>> \in {<<"user", "aLk">>, <<"user", "wWl">>, <<"reading", "dLk">>,
                             <<"writing", "wPost">>, <<"aRet", "reading">>, <<"wRet", "writing">>}
                      /\ pc[p] = from /\ pc' = [pc EXCEPT ![p] = to] /\ UNCHANGED <<semVars, readers>>
  BY DEF SysAcquire, SysRelease, Return, Syscall, Goto
<1>2. /\ chan[p] = 0 /\ UNCHANGED <<value, count, dcount, pstate, chan>>
  BY <1>1, NoChan, Zenon DEF semVars
<1>3. /\ LkClaims' = LkClaims /\ WlClaims' = WlClaims /\ Inside' = Inside /\ Group' = Group
      /\ At({"aWl"})' = At({"aWl"}) /\ At({"dWl"})' = At({"dWl"})
  BY <1>1, <1>2, Zenon DEF LkClaims, WlClaims, Inside, Group, At, TypeOK
<1>4. \A s \in Sems : QueueInv(s)'
  BY <1>2, QueueFrame, Zenon DEF RWInv, Sleepers, InArray
<1>5. \A q \in Procs : ChanInv(q)'
  BY <1>1, <1>2, Zenon DEF RWInv, ChanInv, InArray, TypeOK
<1>6. Permits'
  BY <1>1, <1>2, <1>3, Zenon DEF RWInv, Permits
<1>7. QED
  BY <1>4, <1>5, <1>6, Zenon DEF RWInv

(* readers++: the thread is counted from here on, and the first reader has *)
(* to get writelock.                                                       *)
LEMMA IncStep ==
  ASSUME TypeOK, RWInv, NEW p \in Procs, AcquireReadInc(p)
  PROVE  RWInv'
<1>1. /\ pc[p] = "aInc" /\ readers' = readers + 1
      /\ pc' = [pc EXCEPT ![p] = IF readers' = 1 THEN "aWl" ELSE "aUnlk"]
      /\ UNCHANGED <<value, count, dcount, pstate, chan>>
  BY Zenon DEF AcquireReadInc, semVars
<1>2. chan[p] = 0
  BY <1>1, NoChan, Zenon
<1>3. \A q \in Procs : q # p => pc[q] \notin {"aInc", "aWl", "aUnlk", "dDec", "dWl", "dUnlk"}
  BY <1>1, LkAlone, Zenon DEF InLk, At
<1>4. LkClaims' = LkClaims /\ WlClaims' = WlClaims /\ Inside' = Inside \cup {p} /\ p \notin Inside
  BY <1>1, <1>2, Zenon DEF LkClaims, WlClaims, Inside, At, TypeOK
<1>5. Inside \in SUBSET Procs /\ IsFiniteSet(Inside) /\ Cardinality(Inside) \in Nat
  BY FinProcs, Zenon DEF Inside, At
<1>6. readers = Cardinality(Inside) /\ readers' = Cardinality(Inside')
  BY <1>1, <1>4, <1>5, CardOne, Zenon DEF RWInv, Permits
<1>7. Group = Inside /\ At({"dWl"})' = {}
  BY <1>1, <1>3, Zenon DEF Group, Inside, At, TypeOK
<1>8. ASSUME readers' = 1 PROVE Permits'
  <2>1. Inside = {}
    BY <1>1, <1>5, <1>6, <1>8, FS_EmptySet DEF TypeOK
  <2>2. At({"aWl"})' = {p}
    BY <1>1, <1>3, <1>8, Zenon DEF At, TypeOK
  <2>3. Group' = {}
    BY <1>1, <1>3, <1>7, <1>8, <2>1, Zenon DEF Group, At, TypeOK
  <2>4. QED
    BY <1>1, <1>4, <1>6, <1>7, <2>1, <2>2, <2>3, Zenon DEF RWInv, Permits
<1>9. ASSUME readers' # 1 PROVE Permits'
  <2>1. Inside # {}
    BY <1>1, <1>6, <1>9, FS_EmptySet
  <2>2. At({"aWl"})' = {} /\ Group' = Inside \cup {p}
    BY <1>1, <1>3, <1>7, <1>9, Zenon DEF At, Group, TypeOK
  <2>3. QED
    BY <1>1, <1>4, <1>6, <1>7, <2>1, <2>2, Zenon DEF RWInv, Permits
<1>10. \A s \in Sems : QueueInv(s)'
  BY <1>1, QueueFrame, Zenon DEF RWInv, Sleepers, InArray
<1>11. \A q \in Procs : ChanInv(q)'
  BY <1>1, <1>2, Zenon DEF RWInv, ChanInv, InArray, TypeOK
<1>12. QED
  BY <1>8, <1>9, <1>10, <1>11, Zenon DEF RWInv

(* readers--: the last reader has to give writelock back.                  *)
LEMMA DecStep ==
  ASSUME TypeOK, RWInv, NEW p \in Procs, ReleaseReadDec(p)
  PROVE  RWInv'
<1>1. /\ pc[p] = "dDec" /\ readers' = readers - 1
      /\ pc' = [pc EXCEPT ![p] = IF readers' = 0 THEN "dWl" ELSE "dUnlk"]
      /\ UNCHANGED <<value, count, dcount, pstate, chan>>
  BY Zenon DEF ReleaseReadDec, semVars
<1>2. chan[p] = 0
  BY <1>1, NoChan, Zenon
<1>3. \A q \in Procs : q # p => pc[q] \notin {"aInc", "aWl", "aUnlk", "dDec", "dWl", "dUnlk"}
  BY <1>1, LkAlone, Zenon DEF InLk, At
<1>4. LkClaims' = LkClaims /\ WlClaims' = WlClaims /\ Inside' = Inside \ {p} /\ p \in Inside
  BY <1>1, <1>2, Zenon DEF LkClaims, WlClaims, Inside, At, TypeOK
<1>5. /\ Inside \in SUBSET Procs /\ Inside' \in SUBSET Procs
      /\ IsFiniteSet(Inside') /\ Cardinality(Inside) \in Nat
  BY <1>4, FinProcs, Zenon DEF Inside, At
<1>6. readers = Cardinality(Inside) /\ readers' = Cardinality(Inside')
  BY <1>1, <1>4, <1>5, CardOne, Zenon DEF RWInv, Permits
<1>7. Group # {} /\ At({"aWl"})' = {}
  BY <1>1, <1>3, Zenon DEF Group, At, TypeOK
<1>8. ASSUME readers' = 0 PROVE Permits'
  <2>1. Inside' = {}
    BY <1>5, <1>6, <1>8, FS_EmptySet, Zenon
  <2>2. Group' # {}
    BY <1>1, <1>8, Zenon DEF At, Group, TypeOK
  <2>3. QED
    BY <1>1, <1>4, <1>6, <1>7, <2>1, <2>2, Zenon DEF RWInv, Permits
<1>9. ASSUME readers' # 0 PROVE Permits'
  <2>1. Inside' # {}
    BY <1>6, <1>9, FS_EmptySet, Zenon
  <2>2. At({"dWl"})' = {}
    BY <1>1, <1>3, <1>9, Zenon DEF At, TypeOK
  <2>3. Inside' \subseteq Group'
    BY <1>7, Zenon DEF Inside, Group, At
  <2>4. QED
    BY <1>1, <1>4, <1>6, <1>7, <2>1, <2>2, <2>3, Zenon DEF RWInv, Permits
<1>10. \A s \in Sems : QueueInv(s)'
  BY <1>1, QueueFrame, Zenon DEF RWInv, Sleepers, InArray
<1>11. \A q \in Procs : ChanInv(q)'
  BY <1>1, <1>2, Zenon DEF RWInv, ChanInv, InArray, TypeOK
<1>12. QED
  BY <1>8, <1>9, <1>10, <1>11, Zenon DEF RWInv

(* xem_wait(&lk): the caller, whether it takes the permit or queues for    *)
(* it, claims lk from then on.                                             *)
LEMMA WaitLkStep ==
  ASSUME TypeOK, TypeOK', RWInv, NEW p \in Procs,
         Wait(p, "lk", "aLk", "aInc") \/ Wait(p, "lk", "dLk", "dDec")
  PROVE  RWInv'
<1>0. "lk" \in Sems /\ SemType /\ SemType' /\ LkClaims \in SUBSET Procs
  BY RWAssumption, Zenon DEF TypeOK, LkClaims
<1>1. PICK from, to : /\ <<from, to>> \in {<<"aLk", "aInc">>, <<"dLk", "dDec">>}
                      /\ pc[p] = from
                      /\ \/ chan[p] = 0 /\ XemTake(p, "lk") /\ pc' = [pc EXCEPT ![p] = to]
                         \/ chan[p] = 0 /\ XemSleep(p, "lk") /\ pc' = pc
                         \/ chan[p] # 0 /\ XemResume(p, "lk") /\ pc' = [pc EXCEPT ![p] = to]
                      /\ readers' = readers
  BY DEF Wait, Goto, TypeOK
<1>2. \A q \in Procs : q # p => pc'[q] = pc[q] /\ chan'[q] = chan[q]
  BY <1>1 DEF XemTake, XemSleep, XemResume, TypeOK, SemType
<1>3. /\ pc[p] \in {"aLk", "dLk"} /\ pc'[p] \in {"aLk", "dLk", "aInc", "dDec"}
      /\ pc[p] \in {"dLk", "dDec"} <=> pc'[p] \in {"dLk", "dDec"}
  BY <1>1, Zenon DEF TypeOK
<1>4. /\ WlClaims' = WlClaims /\ Inside' = Inside /\ Group' = Group
      /\ At({"aWl"})' = At({"aWl"}) /\ At({"dWl"})' = At({"dWl"})
  BY <1>2, <1>3, Zenon DEF WlClaims, Inside, Group, At
<1>5. Slot("lk", count["lk"]) # 0 /\ InArray(Slot("lk", count["lk"]), "lk")
  BY <1>0, SlotRange, Zenon DEF SemType
<1>6. ASSUME value'["lk"] = 1 - Cardinality(LkClaims'), value'["writelock"] = value["writelock"]
      PROVE  Permits'
  BY <1>1, <1>4, <1>6, Zenon DEF RWInv, Permits
<1>7. CASE chan[p] = 0 /\ XemTake(p, "lk")
  <2>1. pc'[p] \in {"aInc", "dDec"} /\ chan'[p] = 0 /\ pstate' = pstate
    BY <1>0, <1>1, <1>7 DEF TypeOK, SemType, XemTake, XemSleep, XemResume
  <2>2. LkClaims' = LkClaims \cup {p} /\ p \notin LkClaims
    BY <1>2, <1>3, <1>7, <2>1, Zenon DEF LkClaims
  <2>3. value'["lk"] = value["lk"] - 1 /\ value'["writelock"] = value["writelock"]
    BY <1>0, <1>7 DEF XemTake, SemType
  <2>4. Permits'
    BY <1>0, <1>6, <2>2, <2>3, CardOne, FinProcs DEF RWInv, Permits
  <2>5. \A q \in Procs : ChanInv(q)'
    BY <1>2, <1>7, <2>1, Zenon DEF RWInv, ChanInv, InArray
  <2>6. QED
    BY <1>0, <1>7, <2>4, <2>5, TakeQueue, Zenon DEF RWInv
<1>8. CASE chan[p] = 0 /\ XemSleep(p, "lk")
  <2>1. pc' = pc /\ chan'[p] = Slot("lk", count["lk"]) /\ pstate' = [pstate EXCEPT ![p] = "SLEEPING"]
    BY <1>0, <1>1, <1>8 DEF XemSleep, XemTake, XemResume, SemType
  <2>2. LkClaims' = LkClaims \cup {p} /\ p \notin LkClaims
    BY <1>2, <1>3, <1>5, <1>8, <2>1, Zenon DEF LkClaims
  <2>3. value'["lk"] = value["lk"] - 1 /\ value'["writelock"] = value["writelock"]
    BY <1>0, <1>8 DEF XemSleep, SemType
  <2>4. Permits'
    BY <1>0, <1>6, <2>2, <2>3, CardOne, FinProcs DEF RWInv, Permits
  <2>5. \A q \in Procs : ChanInv(q)'
    BY <1>0, <1>2, <1>3, <1>5, <1>8, <2>1 DEF RWInv, ChanInv, InArray, SemType
  <2>6. pstate[p] = "RUNNABLE"
    BY <1>8, Zenon DEF RWInv, ChanInv
  <2>7. QED
    BY <1>0, <1>8, <2>4, <2>5, <2>6, SleepQueue, Zenon DEF RWInv
<1>9. CASE chan[p] # 0 /\ XemResume(p, "lk")
  <2>1. pc'[p] \in {"aInc", "dDec"} /\ chan'[p] = 0 /\ pstate' = pstate /\ pstate[p] = "RUNNABLE"
    BY <1>0, <1>1, <1>9 DEF TypeOK, SemType, XemResume
  <2>2. LkClaims' = LkClaims
    BY <1>2, <1>3, <1>9, <2>1, Zenon DEF LkClaims
  <2>3. value' = value
    BY <1>9, Zenon DEF XemResume
  <2>4. Permits'
    BY <1>6, <2>2, <2>3, Zenon DEF RWInv, Permits
  <2>5. \A q \in Procs : ChanInv(q)'
    BY <1>2, <1>9, <2>1, Zenon DEF RWInv, ChanInv, InArray
  <2>6. QED
    BY <1>0, <1>9, <2>4, <2>5, ResumeQueue, Zenon DEF RWInv
<1>10. QED
  BY <1>1, <1>7, <1>8, <1>9, Zenon

(* xem_wait(&writelock) by the first reader: it asks on behalf of all the  *)
(* readers, so the permit it gets is the group's.                          *)
LEMMA WaitFirstStep ==
  ASSUME TypeOK, TypeOK', RWInv, NEW p \in Procs, Wait(p, "writelock", "aWl", "aUnlk")
  PROVE  RWInv'
<1>0. "writelock" \in Sems /\ SemType /\ SemType' /\ WlClaims \in SUBSET Procs
  BY RWAssumption, Zenon DEF TypeOK, WlClaims
<1>1. /\ pc[p] = "aWl" /\ readers' = readers
      /\ \/ chan[p] = 0 /\ XemTake(p, "writelock") /\ pc' = [pc EXCEPT ![p] = "aUnlk"]
         \/ chan[p] = 0 /\ XemSleep(p, "writelock") /\ pc' = pc
         \/ chan[p] # 0 /\ XemResume(p, "writelock") /\ pc' = [pc EXCEPT ![p] = "aUnlk"]
  BY Zenon DEF Wait, Goto, TypeOK
<1>2. \A q \in Procs : q # p => pc'[q] = pc[q] /\ chan'[q] = chan[q]
  BY <1>1 DEF XemTake, XemSleep, XemResume, TypeOK, SemType
<1>3. \A q \in Procs : q # p => pc[q] \notin {"aInc", "aWl", "aUnlk", "dDec", "dWl", "dUnlk"}
  BY <1>1, LkAlone, Zenon DEF InLk, At
<1>4. Inside = {p}
  BY <1>1, Zenon DEF RWInv, Permits, At
<1>5. pc'[p] \in {"aWl", "aUnlk"}
  BY <1>1, Zenon DEF TypeOK
<1>6. /\ LkClaims' = LkClaims /\ Inside' = Inside /\ Group = {}
      /\ At({"dWl"})' = {} /\ \A q \in At({"aWl"})' : q = p
  BY <1>1, <1>2, <1>3, <1>4, <1>5 DEF LkClaims, Inside, Group, At
<1>7. Slot("writelock", count["writelock"]) # 0 /\ InArray(Slot("writelock", count["writelock"]), "writelock")
  BY <1>0, SlotRange, Zenon DEF SemType
<1>8. ASSUME value'["lk"] = value["lk"],
             value'["writelock"] = 1 - Cardinality(WlClaims') - (IF Group' = {} THEN 0 ELSE 1)
      PROVE  Permits'
  BY <1>1, <1>4, <1>6, <1>8, Zenon DEF RWInv, Permits
<1>9. CASE chan[p] = 0 /\ XemTake(p, "writelock")
  <2>1. pc'[p] = "aUnlk" /\ chan' = chan /\ pstate' = pstate
    BY <1>0, <1>1, <1>9 DEF TypeOK, SemType, XemTake, XemSleep, XemResume
  <2>2. WlClaims' = WlClaims /\ Group' # {}
    BY <1>1, <1>2, <1>9, <2>1, Zenon DEF WlClaims, Group, At
  <2>3. value'["writelock"] = value["writelock"] - 1 /\ value'["lk"] = value["lk"]
    BY <1>0, <1>9 DEF XemTake, SemType
  <2>4. Permits'
    BY <1>0, <1>6, <1>8, <2>2, <2>3, FinProcs DEF RWInv, Permits
  <2>5. \A q \in Procs : ChanInv(q)'
    BY <1>2, <1>9, <2>1, Zenon DEF RWInv, ChanInv, InArray
  <2>6. QED
    BY <1>0, <1>9, <2>4, <2>5, TakeQueue, Zenon DEF RWInv
<1>10. CASE chan[p] = 0 /\ XemSleep(p, "writelock")
  <2>1. /\ pc' = pc /\ chan'[p] = Slot("writelock", count["writelock"])
        /\ pstate' = [pstate EXCEPT ![p] = "SLEEPING"]
    BY <1>0, <1>1, <1>10 DEF XemSleep, XemTake, XemResume, SemType
  <2>2. WlClaims' = WlClaims \cup {p} /\ p \notin WlClaims /\ Group' = Group
    BY <1>1, <1>2, <1>7, <1>10, <2>1, Zenon DEF WlClaims, Group, At
  <2>3. value'["writelock"] = value["writelock"] - 1 /\ value'["lk"] = value["lk"]
    BY <1>0, <1>10 DEF XemSleep, SemType
  <2>4. Permits'
    BY <1>0, <1>6, <1>8, <2>2, <2>3, CardOne, FinProcs DEF RWInv, Permits
  <2>5. \A q \in Procs : ChanInv(q)'
    BY <1>0, <1>1, <1>2, <1>7, <1>10, <2>1 DEF RWInv, ChanInv, InArray, SemType
  <2>6. pstate[p] = "RUNNABLE"
    BY <1>10, Zenon DEF RWInv, ChanInv
  <2>7. QED
    BY <1>0, <1>10, <2>4, <2>5, <2>6, SleepQueue, Zenon DEF RWInv
<1>11. CASE chan[p] # 0 /\ XemResume(p, "writelock")
  <2>1. pc'[p] = "aUnlk" /\ chan'[p] = 0 /\ pstate' = pstate /\ pstate[p] = "RUNNABLE"
    BY <1>0, <1>1, <1>11, SMTT(30) DEF TypeOK, SemType, XemResume
  <2>2. WlClaims' = WlClaims \ {p} /\ p \in WlClaims /\ Group' # {}
    BY <1>1, <1>2, <1>11, <2>1, Zenon DEF WlClaims, Group, At
  <2>3. value' = value
    BY <1>11, Zenon DEF XemResume
  <2>4. Permits'
    BY <1>0, <1>6, <1>8, <2>2, <2>3, CardOne, FinProcs, SMTT(30) DEF RWInv, Permits
  <2>5. \A q \in Procs : ChanInv(q)'
    BY <1>2, <1>11, <2>1 DEF RWInv, ChanInv, InArray
  <2>6. QED
    BY <1>0, <1>11, <2>4, <2>5, ResumeQueue, Zenon DEF RWInv
<1>12. QED
  BY <1>1, <1>9, <1>10, <1>11, Zenon

(* xem_wait(&writelock) by a writer.                                       *)
LEMMA WaitWriterStep ==
  ASSUME TypeOK, TypeOK', RWInv, NEW p \in Procs, Wait(p, "writelock", "wWl", "wRet")
  PROVE  RWInv'
<1>0. "writelock" \in Sems /\ SemType /\ SemType' /\ WlClaims \in SUBSET Procs
  BY RWAssumption, Zenon DEF TypeOK, WlClaims
<1>1. /\ pc[p] = "wWl" /\ readers' = readers
      /\ \/ chan[p] = 0 /\ XemTake(p, "writelock") /\ pc' = [pc EXCEPT ![p] = "wRet"]
         \/ chan[p] = 0 /\ XemSleep(p, "writelock") /\ pc' = pc
         \/ chan[p] # 0 /\ XemResume(p, "writelock") /\ pc' = [pc EXCEPT ![p] = "wRet"]
  BY Zenon DEF Wait, Goto, TypeOK
<1>2. \A q \in Procs : q # p => pc'[q] = pc[q] /\ chan'[q] = chan[q]
  BY <1>1 DEF XemTake, XemSleep, XemResume, TypeOK, SemType
<1>3. pc'[p] \in {"wWl", "wRet"}
  BY <1>1, Zenon DEF TypeOK
<1>4. /\ LkClaims' = LkClaims /\ Inside' = Inside /\ Group' = Group
      /\ At({"aWl"})' = At({"aWl"}) /\ At({"dWl"})' = At({"dWl"})
  BY <1>1, <1>2, <1>3, Zenon DEF LkClaims, Inside, Group, At
<1>5. Slot("writelock", count["writelock"]) # 0 /\ InArray(Slot("writelock", count["writelock"]), "writelock")
  BY <1>0, SlotRange, Zenon DEF SemType
<1>6. ASSUME value'["lk"] = value["lk"],
             value'["writelock"] = 1 - Cardinality(WlClaims') - (IF Group = {} THEN 0 ELSE 1)
      PROVE  Permits'
  BY <1>1, <1>4, <1>6, Zenon DEF RWInv, Permits
<1>7. CASE chan[p] = 0 /\ XemTake(p, "writelock")
  <2>1. pc'[p] = "wRet" /\ chan' = chan /\ pstate' = pstate
    BY <1>0, <1>1, <1>7 DEF TypeOK, SemType, XemTake, XemSleep, XemResume
  <2>2. WlClaims' = WlClaims \cup {p} /\ p \notin WlClaims
    BY <1>1, <1>2, <1>7, <2>1, Zenon DEF WlClaims
  <2>3. value'["writelock"] = value["writelock"] - 1 /\ value'["lk"] = value["lk"]
    BY <1>0, <1>7 DEF XemTake, SemType
  <2>4. Permits'
    BY <1>0, <1>6, <2>2, <2>3, CardOne, FinProcs DEF RWInv, Permits
  <2>5. \A q \in Procs : ChanInv(q)'
    BY <1>2, <1>7, <2>1, Zenon DEF RWInv, ChanInv, InArray
  <2>6. QED
    BY <1>0, <1>7, <2>4, <2>5, TakeQueue, Zenon DEF RWInv
<1>8. CASE chan[p] = 0 /\ XemSleep(p, "writelock")
  <2>1. /\ pc' = pc /\ chan'[p] = Slot("writelock", count["writelock"])
        /\ pstate' = [pstate EXCEPT ![p] = "SLEEPING"]
    BY <1>0, <1>1, <1>8, SMTT(30) DEF XemSleep, XemTake, XemResume, SemType
  <2>2. WlClaims' = WlClaims \cup {p} /\ p \notin WlClaims
    BY <1>1, <1>2, <1>5, <1>8, <2>1, Zenon DEF WlClaims
  <2>3. value'["writelock"] = value["writelock"] - 1 /\ value'["lk"] = value["lk"]
    BY <1>0, <1>8 DEF XemSleep, SemType
  <2>4. Permits'
    BY <1>0, <1>6, <2>2, <2>3, CardOne, FinProcs DEF RWInv, Permits
  <2>5. \A q \in Procs : ChanInv(q)'
    BY <1>0, <1>1, <1>2, <1>5, <1>8, <2>1 DEF RWInv, ChanInv, InArray, SemType
  <2>6. pstate[p] = "RUNNABLE"
    BY <1>8, Zenon DEF RWInv, ChanInv
  <2>7. QED
    BY <1>0, <1>8, <2>4, <2>5, <2>6, SleepQueue, Zenon DEF RWInv
<1>9. CASE chan[p] # 0 /\ XemResume(p, "writelock")
  <2>1. pc'[p] = "wRet" /\ chan'[p] = 0 /\ pstate' = pstate /\ pstate[p] = "RUNNABLE"
    BY <1>0, <1>1, <1>9 DEF TypeOK, SemType, XemResume
  <2>2. WlClaims' = WlClaims
    BY <1>1, <1>2, <1>9, <2>1, Zenon DEF WlClaims
  <2>3. value' = value
    BY <1>9, Zenon DEF XemResume
  <2>4. Permits'
    BY <1>6, <2>2, <2>3, SMTT(30) DEF RWInv, Permits
  <2>5. \A q \in Procs : ChanInv(q)'
    BY <1>2, <1>9, <2>1, Zenon DEF RWInv, ChanInv, InArray
  <2>6. QED
    BY <1>0, <1>9, <2>4, <2>5, ResumeQueue, Zenon DEF RWInv
<1>10. QED
  BY <1>1, <1>7, <1>8, <1>9, Zenon

(* xem_unlock of either semaphore by the thread that holds it.             *)
LEMMA PostStep ==
  ASSUME TypeOK, TypeOK', RWInv, NEW p \in Procs,
         \/ Post(p, "lk", "aUnlk", "aRet") \/ Post(p, "lk", "dUnlk", "user")
         \/ Post(p, "writelock", "dWl", "dUnlk") \/ Post(p, "writelock", "wPost", "user")
  PROVE  RWInv'
<1>0. /\ "lk" \in Sems /\ "writelock" \in Sems /\ SemType /\ SemType'
      /\ LkClaims \in SUBSET Procs /\ WlClaims \in SUBSET Procs
  BY RWAssumption, Zenon DEF TypeOK, LkClaims, WlClaims
<1>1. PICK s, from, to :
        /\ <<s, from, to>> \in {<<"lk", "aUnlk", "aRet">>, <<"lk", "dUnlk", "user">>,
                                 <<"writelock", "dWl", "dUnlk">>, <<"writelock", "wPost", "user">>}
        /\ XemUnlock(p, s) /\ pc[p] = from /\ pc' = [pc EXCEPT ![p] = to] /\ readers' = readers
  BY DEF Post, Goto
<1>2. s \in Sems /\ chan[p] = 0 /\ chan' = chan /\ pc'[p] = to
  BY <1>0, <1>1, NoChan, Zenon DEF XemUnlock, TypeOK
<1>3. \A q \in Procs : q # p => pc'[q] = pc[q]
  BY <1>1, Zenon DEF TypeOK
<1>4. /\ \A r \in Sems : QueueInv(r)'
      /\ value'[s] = value[s] + 1 /\ \A r \in Sems : r # s => value'[r] = value[r]
  BY <1>0, <1>1, <1>2, UnlockQueue, Zenon DEF RWInv, XemUnlock, SemType
<1>5. \A q \in Procs : ChanInv(q)'
  <2>1. \A q \in Procs : pstate[q] = "RUNNABLE" => pstate'[q] = "RUNNABLE"
    BY <1>0, <1>1, SMTT(30) DEF XemUnlock, Wakeup, SemType
  <2>2. QED
    BY <1>2, <1>3, <2>1, Zenon DEF RWInv, ChanInv, InArray
<1>6. CASE s = "lk"
  <2>1. /\ LkClaims' = LkClaims \ {p} /\ p \in LkClaims
        /\ WlClaims' = WlClaims /\ Inside' = Inside /\ Group' = Group
        /\ At({"aWl"})' = At({"aWl"}) /\ At({"dWl"})' = At({"dWl"})
    BY <1>1, <1>2, <1>3, <1>6, Zenon DEF LkClaims, WlClaims, Inside, Group, At
  <2>2. value'["lk"] = value["lk"] + 1 /\ value'["writelock"] = value["writelock"]
    BY <1>0, <1>4, <1>6, Zenon
  <2>3. Permits'
    BY <1>0, <1>1, <2>1, <2>2, CardOne, FinProcs DEF RWInv, Permits
  <2>4. QED
    BY <1>4, <1>5, <2>3, ZenonT(30) DEF RWInv
<1>7. CASE s = "writelock" /\ from = "dWl"
  <2>1. \A q \in Procs : q # p => pc[q] \notin {"aInc", "aWl", "aUnlk", "dDec", "dWl", "dUnlk"}
    BY <1>1, <1>7, LkAlone, Zenon DEF InLk, At
  <2>2. Inside = {}
    BY <1>1, <1>7, Zenon DEF RWInv, Permits, At
  <2>3. /\ LkClaims' = LkClaims /\ WlClaims' = WlClaims /\ Inside' = Inside
        /\ Group # {} /\ At({"aWl"})' = {} /\ At({"dWl"})' = {}
    BY <1>1, <1>2, <1>3, <1>7, <2>1 DEF LkClaims, WlClaims, Inside, Group, At
  <2>4. Group' = {}
    BY <2>2, <2>3, Zenon DEF Inside, Group, At
  <2>5. value'["writelock"] = value["writelock"] + 1 /\ value'["lk"] = value["lk"]
    BY <1>0, <1>4, <1>7, Zenon
  <2>6. Permits'
    BY <1>0, <1>1, <2>3, <2>4, <2>5, FinProcs, SMTT(30) DEF RWInv, Permits
  <2>7. QED
    BY <1>4, <1>5, <2>6, Zenon DEF RWInv
<1>8. CASE s = "writelock" /\ from = "wPost"
  <2>1. /\ WlClaims' = WlClaims \ {p} /\ p \in WlClaims
        /\ LkClaims' = LkClaims /\ Inside' = Inside /\ Group' = Group
        /\ At({"aWl"})' = At({"aWl"}) /\ At({"dWl"})' = At({"dWl"})
    BY <1>1, <1>2, <1>3, <1>8, Zenon DEF LkClaims, WlClaims, Inside, Group, At
  <2>2. value'["writelock"] = value["writelock"] + 1 /\ value'["lk"] = value["lk"]
    BY <1>0, <1>4, <1>8, Zenon
  <2>3. Permits'
    BY <1>0, <1>1, <2>1, <2>2, CardOne, FinProcs, SMTT(30) DEF RWInv, Permits
  <2>4. QED
    BY <1>4, <1>5, <2>3, Zenon DEF RWInv
<1>9. QED
  BY <1>1, <1>6, <1>7, <1>8, Zenon

-----------------------------------------------------------------------------
\* killed stays out of TypeOK: its Boolean values are reasoned about apart.
KilledInv ==
  /\ killed \in [Procs -> BOOLEAN]
  /\ At({"dead"}) # {} => \A q \in Procs : killed[q]

(* exit() of a killed thread leaves its whole group killed, and no step    *)
(* takes a kill back.                                                      *)
LEMMA KilledStep ==
  ASSUME TypeOK, KilledInv, [Next]_vars
  PROVE  KilledInv' /\ \A q \in Procs : killed[q] => killed'[q]
<1>1. ASSUME NEW p \in Procs, ExitKilled(p)
      PROVE  KilledInv' /\ \A q \in Procs : killed[q] => killed'[q]
  BY <1>1, Zenon DEF KilledInv, ExitKilled
<1>2. ASSUME NEW p \in Procs, Kill(p)
      PROVE  KilledInv' /\ \A q \in Procs : killed[q] => killed'[q]
  <2>1. killed' = [killed EXCEPT ![p] = TRUE] /\ pc' = pc
    BY <1>2, Zenon DEF Kill
  <2>2. killed' \in [Procs -> BOOLEAN] /\ \A q \in Procs : killed[q] => killed'[q]
    BY <2>1, Zenon DEF KilledInv
  <2>3. QED
    BY <2>1, <2>2, Zenon DEF KilledInv, At
<1>3. CASE killed' = killed /\ \A q \in Procs : pc'[q] = "dead" => pc[q] = "dead"
  BY <1>3, Zenon DEF KilledInv, At
<1>4. ASSUME NEW p \in Procs, SysAcquire(p) \/ SysRelease(p) \/ Return(p)
      PROVE  killed' = killed /\ \A q \in Procs : pc'[q] = "dead" => pc[q] = "dead"
  BY <1>4, Zenon DEF SysAcquire, SysRelease, Return, Syscall, Goto, TypeOK
<1>5. ASSUME NEW p \in Procs, NEW s, NEW from, NEW to \in Labels \ {"dead"},
             Wait(p, s, from, to) \/ Post(p, s, from, to)
      PROVE  killed' = killed /\ \A q \in Procs : pc'[q] = "dead" => pc[q] = "dead"
  BY <1>5, Zenon DEF Wait, Post, Goto, TypeOK
<1>6. ASSUME NEW p \in Procs, AcquireReadInc(p) \/ ReleaseReadDec(p)
      PROVE  killed' = killed /\ \A q \in Procs : pc'[q] = "dead" => pc[q] = "dead"
  BY <1>6, Zenon DEF AcquireReadInc, ReleaseReadDec, TypeOK
<1>7. CASE UNCHANGED vars
  BY <1>3, <1>7, Zenon DEF vars
<1>8. {"aInc", "aUnlk", "aRet", "dDec", "dUnlk", "user", "wRet"} \subseteq Labels \ {"dead"}
  BY Zenon DEF Labels
<1>9. QED
  BY <1>1, <1>2, <1>3, <1>4, <1>5, <1>6, <1>7, <1>8, Zenon
  DEF Next, Progress, rwlock_acquire_readlock, rwlock_acquire_writelock,
      rwlock_release_readlock, rwlock_release_writelock

(* RWInv holds in the state rwlock_init leaves.                            *)
LEMMA RWInit ==
  ASSUME Init
  PROVE  TypeOK /\ KilledInv /\ RWInv
<1>1. TypeOK
  BY SemAssumption DEF Init, XemInit, TypeOK, SemType, Labels
<1>2. KilledInv
  BY Zenon DEF Init, KilledInv, At
<1>3. LkClaims = {} /\ WlClaims = {} /\ Inside = {} /\ Group = {} /\ At({"aWl"}) = {} /\ At({"dWl"}) = {}
  BY Zenon DEF Init, LkClaims, WlClaims, Inside, Group, At
<1>4. Cardinality({}) = 0
  BY FS_EmptySet, Zenon
<1>5. Permits
  BY <1>3, <1>4, RWAssumption DEF Init, XemInit, Permits
<1>6. ASSUME NEW s \in Sems PROVE QueueInv(s)
  <2>1. Sleepers(s) = {}
    BY Zenon DEF Sleepers, Init, XemInit
  <2>2. QED
    BY <1>4, <2>1, SemAssumption DEF QueueInv, Init, XemInit
<1>7. \A p \in Procs : ChanInv(p)
  BY Zenon DEF Init, XemInit, ChanInv
<1>8. QED
  BY <1>1, <1>2, <1>5, <1>6, <1>7, Zenon DEF RWInv

(* Every step of a group in which nobody was killed keeps RWInv.           *)
LEMMA RWStep ==
  ASSUME TypeOK, TypeOK', KilledInv, RWInv, NoneKilled', [Next]_vars
  PROVE  RWInv'
<1>1. CASE UNCHANGED vars
  <2>1. UNCHANGED <<value, count, dcount, pstate, chan, readers, pc>>
    BY <1>1, SMTT(30) DEF vars, semVars
  <2>2. \A s \in Sems : QueueInv(s)'
    BY <2>1, QueueFrame, Zenon DEF RWInv, Sleepers, InArray
  <2>3. \A p \in Procs : ChanInv(p)'
    BY <2>1, Zenon DEF RWInv, ChanInv, InArray
  <2>4. /\ LkClaims' = LkClaims /\ WlClaims' = WlClaims /\ Inside' = Inside /\ Group' = Group
        /\ At({"aWl"})' = At({"aWl"}) /\ At({"dWl"})' = At({"dWl"})
    BY <2>1, Zenon DEF LkClaims, WlClaims, Inside, Group, At
  <2>5. Permits'
    BY <2>1, <2>4, Zenon DEF RWInv, Permits
  <2>6. QED
    BY <2>2, <2>3, <2>5, Zenon DEF RWInv
<1>2. ASSUME NEW p \in Procs PROVE ~Kill(p) /\ ~ExitKilled(p)
  <2>1. ~ExitKilled(p)
    BY Zenon DEF NoneKilled, ExitKilled
  <2>2. ~Kill(p)
    BY Zenon DEF NoneKilled, Kill, KilledInv
  <2>3. QED
    BY <2>1, <2>2, Zenon
<1>3. QED
  BY <1>1, <1>2, SilentStep, IncStep, DecStep, WaitLkStep, WaitFirstStep, WaitWriterStep, PostStep, Zenon
  DEF Next, Progress, rwlock_acquire_readlock, rwlock_acquire_writelock,
      rwlock_release_readlock, rwlock_release_writelock

IInv == TypeOK /\ KilledInv /\ (NoneKilled => RWInv)

(* The inductive invariant of the readers-writer lock.                     *)
THEOREM RWInductive == Spec => []IInv
<1>1. Init => IInv
  BY RWInit, Zenon DEF IInv
<1>2. IInv /\ [Next]_vars => IInv'
  <2>1. SUFFICES ASSUME IInv, [Next]_vars PROVE IInv'
    BY Zenon
  <2>2. TypeOK' /\ KilledInv' /\ \A q \in Procs : killed[q] => killed'[q]
    BY <2>1, TypeStep, KilledStep, Zenon DEF IInv
  <2>3. NoneKilled' => NoneKilled
    BY <2>2, Zenon DEF NoneKilled
  <2>4. NoneKilled' => RWInv'
    BY <2>1, <2>2, <2>3, RWStep DEF IInv
  <2>5. QED
    BY <2>2, <2>4, Zenon DEF IInv
<1>3. QED
  BY <1>1, <1>2, PTL DEF Spec

(* A set of threads without two different members has at most one.         *)
LEMMA AtMostOne ==
  ASSUME NEW S \in SUBSET Procs, \A p, q \in S : p = q
  PROVE  Cardinality(S) <= 1
<1>1. CASE S = {}
  BY <1>1, FS_EmptySet
<1>2. CASE S # {}
  <2>1. PICK p \in S : TRUE
    BY <1>2, Zenon
  <2>2. S = {p}
    BY <2>1, Zenon
  <2>3. QED
    BY <2>2, FS_Singleton
<1>3. QED
  BY <1>1, <1>2, Zenon

(* Readers share the lock and a writer has it alone, for any number of     *)
(* threads, until one of them is killed: what rwlock_acquire_writelock and *)
(* rwlock_acquire_readlock are for.                                        *)
THEOREM Exclusion == Spec => []RWExclusion
<1>1. IInv => RWExclusion
  <2>1. SUFFICES ASSUME TypeOK, RWInv
                 PROVE  /\ Cardinality(At({"writing", "wPost"})) <= 1
                        /\ At({"writing", "wPost"}) # {} => At({"reading", "dLk", "dDec"}) = {}
    BY Zenon DEF IInv, RWExclusion
  <2>2. At({"writing", "wPost"}) \subseteq WlClaims \ Sleepers("writelock")
    BY <2>1, NoChan, Zenon DEF At, WlClaims, Sleepers
  <2>3. At({"reading", "dLk", "dDec"}) \subseteq Group
    BY Zenon DEF At, Group
  <2>4. At({"writing", "wPost"}) \in SUBSET Procs
    BY Zenon DEF At
  <2>5. QED
    BY <2>1, <2>2, <2>3, <2>4, WlAlone, AtMostOne, Zenon
<1>2. QED
  BY <1>1, RWInductive, PTL

(* readers is updated by one thread at a time and counts the readers       *)
(* inside, for any number of threads, until one of them is killed.         *)
THEOREM Counted == Spec => []ReadersCounted
<1>1. IInv => ReadersCounted
  <2>1. SUFFICES ASSUME TypeOK, RWInv
                 PROVE  Cardinality(InLk) <= 1 /\ readers = Cardinality(Inside)
    BY Zenon DEF IInv, ReadersCounted, Inside
  <2>2. InLk \in SUBSET Procs
    BY Zenon DEF InLk, At
  <2>3. QED
    BY <2>1, <2>2, LkAlone, AtMostOne, Zenon DEF RWInv, Permits
<1>2. QED
  BY <1>1, RWInductive, PTL

(* After the first exit() of a killed thread nobody of its group enters    *)
(* the lock: rwlock_acquire_* may still return, but trap() calls exit().   *)
THEOREM NoneEnters == Spec => NoneEntersAfterExit
<1>1. ASSUME IInv, [Next]_vars, At({"dead"}) # {}
      PROVE  At({"reading", "writing"})' \subseteq At({"reading", "writing"})
  <2>1. \A q \in Procs : killed[q]
    BY <1>1, Zenon DEF IInv, KilledInv
  <2>2. ASSUME NEW p \in Procs, SysAcquire(p) \/ SysRelease(p) \/ Return(p)
        PROVE  FALSE
    BY <2>1, <2>2, Zenon DEF SysAcquire, SysRelease, Return, Syscall
  <2>3. pc \in [Procs -> Labels]
    BY <1>1, Zenon DEF IInv, TypeOK
  <2>4. ASSUME NEW p \in Procs, NEW s, NEW from, NEW to \in Labels \ {"reading", "writing"},
               Wait(p, s, from, to) \/ Post(p, s, from, to)
        PROVE  At({"reading", "writing"})' \subseteq At({"reading", "writing"})
    BY <2>3, <2>4, Zenon DEF Wait, Post, Goto, At
  <2>5. ASSUME NEW p \in Procs,
               AcquireReadInc(p) \/ ReleaseReadDec(p) \/ ExitKilled(p) \/ Kill(p)
        PROVE  At({"reading", "writing"})' \subseteq At({"reading", "writing"})
    BY <2>3, <2>5, Zenon DEF AcquireReadInc, ReleaseReadDec, ExitKilled, Kill, At
  <2>6. CASE UNCHANGED vars
    BY <2>6, Zenon DEF vars, At
  <2>7. {"aInc", "aUnlk", "aRet", "dDec", "dUnlk", "user", "wRet"} \subseteq Labels \ {"reading", "writing"}
    BY Zenon DEF Labels
  <2>8. QED
    BY <1>1, <2>2, <2>4, <2>5, <2>6, <2>7, Zenon
    DEF Next, Progress, rwlock_acquire_readlock, rwlock_acquire_writelock,
        rwlock_release_readlock, rwlock_release_writelock
<1>2. QED
  BY <1>1, RWInductive, PTL DEF Spec, NoneEntersAfterExit
=============================================================================
