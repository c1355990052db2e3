----------------------------- MODULE XemProofs -----------------------------
(***************************************************************************)
(* What xem_wait and xem_unlock promise, proved for any number of threads, *)
(* groups and permits, with kill() and the wrap-around of arr, as long as  *)
(* the semaphores of different address spaces do not overlap.              *)
(***************************************************************************)
EXTENDS Xem, FiniteSetTheorems, TLAPS

(* Lemmas about the elements of arr and about sets of threads, and the     *)
(* type invariant of Xem.                                                  *)

(* Two tickets less than SIZE apart that share an element of arr are the   *)
(* same ticket.                                                            *)
LEMMA ModUnique ==
  ASSUME NEW S \in Nat \ {0}, NEW a \in Nat, NEW b \in Nat,
         a % S = b % S, a <= b, b < a + S
  PROVE  a = b
<1>1. a = S * (a \div S) + (a % S) /\ b = S * (b \div S) + (b % S)
  OBVIOUS
<1> DEFINE k == (b \div S) - (a \div S)
<1>2. k \in Int /\ b - a = S * k
  BY <1>1
<1> HIDE DEF k
<1>3. CASE k <= 0
  <2>1. S * k <= 0
    BY <1>2, <1>3
  <2>2. QED
    BY <1>2, <2>1
<1>4. CASE k >= 1
  <2>1. S * k >= S
    BY <1>2, <1>4
  <2>2. QED
    BY <1>2, <2>1
<1>5. QED
  BY <1>2, <1>3, <1>4

(* An element of arr is inside its own array.                              *)
LEMMA SlotRange ==
  ASSUME NEW s \in Sems, NEW n \in Nat
  PROVE  /\ Slot(s, n) \in Nat
         /\ Base[s] <= Slot(s, n) /\ Slot(s, n) < Base[s] + SIZE
<1>1. n % SIZE \in 0 .. SIZE - 1
  BY SemAssumption
<1>2. Base[s] \in Nat
  BY SemAssumption, Zenon
<1>3. QED
  BY <1>1, <1>2, SemAssumption DEF Slot

(* Different tickets less than SIZE apart have different elements.         *)
LEMMA SlotsDiffer ==
  ASSUME NEW s \in Sems, NEW a \in Nat, NEW b \in Nat, a < b, b < a + SIZE
  PROVE  Slot(s, a) # Slot(s, b)
<1>1. SIZE \in Nat \ {0} /\ Base[s] \in Nat
  BY SemAssumption, Zenon
<1>2. (a % SIZE) \in Int /\ (b % SIZE) \in Int
  BY <1>1
<1>3. ASSUME (a % SIZE) = (b % SIZE) PROVE FALSE
  <2>1. a <= b
    OBVIOUS
  <2>2. a = b
    BY ONLY <1>1, <1>3, <2>1, b < a + SIZE, a \in Nat, b \in Nat, ModUnique, Zenon
  <2>3. QED
    BY <2>2
<1>4. QED
  BY <1>1, <1>2, <1>3 DEF Slot

(* Every set of threads is finite and no larger than arr.                  *)
LEMMA FinProcs ==
  ASSUME NEW T \in SUBSET Procs
  PROVE  /\ IsFiniteSet(T)
         /\ Cardinality(T) \in Nat
         /\ Cardinality(T) <= SIZE
<1>1. IsFiniteSet(T) /\ Cardinality(T) <= Cardinality(Procs)
  BY FS_Subset, SemAssumption, Zenon
<1>2. Cardinality(T) \in Nat /\ Cardinality(Procs) \in Nat
  BY <1>1, FS_CardinalityType, SemAssumption, Zenon
<1>3. QED
  BY <1>1, <1>2, SemAssumption

(* Adding or removing one thread changes a cardinality by one.             *)
LEMMA CardOne ==
  ASSUME NEW S \in SUBSET Procs, NEW x
  PROVE  /\ x \notin S => Cardinality(S \cup {x}) = Cardinality(S) + 1
         /\ x \in S => Cardinality(S \ {x}) = Cardinality(S) - 1
<1>1. IsFiniteSet(S)
  BY FinProcs, Zenon
<1>2. QED
  BY <1>1, FS_AddElement, FS_RemoveElement, Zenon

(* Every step of a thread keeps the types: the counters stay integers, and *)
(* the tickets and channels stay naturals.                                 *)
LEMMA TypeStep ==
  ASSUME TypeOK, [Next]_vars
  PROVE  TypeOK'
<1> USE DEF TypeOK, SemType, Phases
<1>1. CASE UNCHANGED vars
  BY <1>1, Zenon DEF vars, semVars
<1>2. ASSUME NEW p \in Procs, SysXemWait(p)
      PROVE  TypeOK'
  BY <1>2, Zenon DEF SysXemWait, Goto, semVars
<1>3. ASSUME NEW p \in Procs, WaitTake(p)
      PROVE  TypeOK'
  <2>1. SemOf[p] \in Sems
    BY XemAssumption, Zenon
  <2>2. QED
    BY <1>3, <2>1 DEF WaitTake, Goto, XemTake
<1>4. ASSUME NEW p \in Procs, WaitSleep(p)
      PROVE  TypeOK'
  <2>1. SemOf[p] \in Sems /\ Slot(SemOf[p], count[SemOf[p]]) \in Nat
    BY XemAssumption, SlotRange, Zenon
  <2>2. QED
    BY <1>4, <2>1, XemAssumption DEF WaitSleep, Goto, XemSleep
<1>5. ASSUME NEW p \in Procs, WaitResume(p)
      PROVE  TypeOK'
  <2>1. SemOf[p] \in Sems
    BY XemAssumption, Zenon
  <2>2. QED
    BY <1>5, <2>1 DEF WaitResume, Goto, XemResume
<1>6. ASSUME NEW p \in Procs, Return(p)
      PROVE  TypeOK'
  BY <1>6, Zenon DEF Return, Goto, semVars
<1>7. ASSUME NEW p \in Procs, SysXemUnlock(p)
      PROVE  TypeOK'
  BY <1>7, Zenon DEF SysXemUnlock, Goto, semVars
<1>8. ASSUME NEW p \in Procs, Unlock(p)
      PROVE  TypeOK'
  <2>1. SemOf[p] \in Sems
    BY XemAssumption, Zenon
  <2>2. /\ value' \in [Sems -> Int] /\ end' \in [Sems -> Int]
        /\ count' \in [Sems -> Nat] /\ dcount' \in [Sems -> Nat]
    BY <1>8, <2>1 DEF Unlock, XemUnlock
  <2>3. pstate' \in [Procs -> {"RUNNABLE", "SLEEPING"}]
    BY <1>8 DEF Unlock, XemUnlock, Wakeup
  <2>4. QED
    BY <1>8, <2>2, <2>3, Zenon DEF Unlock, Goto, XemUnlock
<1>9. ASSUME NEW p \in Procs, Kill(p)
      PROVE  TypeOK'
  BY <1>9, Zenon DEF Kill, KillWakes
<1>10. ASSUME NEW p \in Procs, ExitKilled(p)
       PROVE  TypeOK'
  <2>1. killed' \in [Procs -> BOOLEAN]
    BY <1>10, Zenon DEF ExitKilled
  <2>2. QED
    BY <1>10, <2>1, Zenon DEF ExitKilled, semVars
<1>11. QED
  BY <1>1, <1>2, <1>3, <1>4, <1>5, <1>6, <1>7, <1>8, <1>9, <1>10 DEF Next

(* The type invariant of Xem, for every number of threads and semaphores.  *)
THEOREM TypeCorrect == Spec => []TypeOK
<1>1. Init => TypeOK
  BY SemAssumption DEF Init, XemInit, TypeOK, SemType, Phases
<1>2. TypeOK /\ [Next]_vars => TypeOK'
  BY TypeStep, Zenon
<1>3. QED
  BY <1>1, <1>2, PTL DEF Spec

----------------------------------------------------------------------------
(* The steps of xem_wait, kill() and trap() keep the inductive invariant   *)
(* of Xem.                                                                 *)

(* A step that changes neither the counters nor the claims nor the tickets *)
(* keeps what the counters say.                                            *)
LEMMA SemFrame ==
  ASSUME NEW s \in Sems, SemInv(s),
         value'[s] = value[s], count'[s] = count[s], dcount'[s] = dcount[s],
         \A p \in Users(s) : claim'[p] = claim[p] /\ ticket'[p] = ticket[p]
  PROVE  SemInv(s)'
<1>1. Claimants(s)' = Claimants(s)
  BY Zenon DEF Claimants, Users
<1>2. Ungranted(s)' = Ungranted(s)
  BY Zenon DEF Ungranted, Users
<1>3. QED
  BY <1>1, <1>2 DEF SemInv, Users

(* The steps that only move a thread between phases, or resume it.         *)
LEMMA QuietStep ==
  ASSUME IInv, TypeOK', NEW p \in Procs,
         SysXemWait(p) \/ WaitResume(p) \/ SysXemUnlock(p) \/ Kill(p) \/ ExitKilled(p)
  PROVE  IInv'
<1> USE DEF IInv
<1>1. UNCHANGED <<value, count, dcount, claim, ticket>>
  BY Zenon DEF SysXemWait, WaitResume, SysXemUnlock, Kill, ExitKilled, XemResume,
         KillWakes, semVars
<1>2. \A s \in Sems : SemInv(s)'
  BY <1>1, SemFrame, Zenon
<1>3. TicketsDiffer'
  BY <1>1, Zenon DEF TicketsDiffer
<1>4. ASSUME NEW q \in Procs
      PROVE  ProcInv(q)'
  <2> USE DEF TypeOK, SemType
  <2>0. ProcInv(q)
    BY Zenon
  <2>1. CASE SysXemWait(p)
    BY <1>1, <2>0, <2>1, Zenon DEF SysXemWait, Goto, semVars, ProcInv, Slot
  <2>2. CASE WaitResume(p)
    BY <1>1, <2>0, <2>2 DEF WaitResume, Goto, XemResume, ProcInv, Slot
  <2>3. CASE SysXemUnlock(p)
    BY <1>1, <2>0, <2>3, Zenon DEF SysXemUnlock, Goto, semVars, ProcInv, Slot
  <2>4. CASE Kill(p)
    BY <1>1, <2>0, <2>4, Zenon DEF Kill, KillWakes, ProcInv, Slot
  <2>5. CASE ExitKilled(p)
    BY <1>1, <2>0, <2>5 DEF ExitKilled, semVars, ProcInv, Slot
  <2>6. QED
    BY <2>1, <2>2, <2>3, <2>4, <2>5, Zenon
<1>5. QED
  BY <1>2, <1>3, <1>4, Zenon

(* xem_wait that takes a free permit: one more claimant, value one less.   *)
LEMMA TakeStep ==
  ASSUME IInv, TypeOK', NEW p \in Procs, WaitTake(p)
  PROVE  IInv'
<1>i. /\ TypeOK /\ TicketsDiffer
      /\ \A s \in Sems : SemInv(s)
      /\ \A q \in Procs : ProcInv(q)
  BY Zenon DEF IInv
<1> TypeOK
  BY <1>i, Zenon
<1> USE DEF TypeOK, SemType
<1> DEFINE sp == SemOf[p]
<1>0. sp \in Sems /\ ProcInv(p)
  BY <1>i, XemAssumption, Zenon
<1>1. /\ claim[p] = "none" /\ phase[p] = "enterWait"
      /\ value[sp] > 0 /\ value' = [value EXCEPT ![sp] = @ - 1]
      /\ claim' = [claim EXCEPT ![p] = "held"]
      /\ phase' = [phase EXCEPT ![p] = "leaveWait"]
      /\ UNCHANGED <<count, dcount, ticket, pstate, chan, killed>>
  BY <1>0, Zenon DEF WaitTake, Goto, XemTake, ProcInv
<1>2. SemInv(sp)'
  <2>1. Claimants(sp)' = Claimants(sp) \cup {p} /\ p \notin Claimants(sp)
    BY <1>1 DEF Claimants, Users
  <2>2. Ungranted(sp)' = Ungranted(sp)
    BY <1>1, Zenon DEF Ungranted, Users
  <2>3. Claimants(sp) \in SUBSET Procs
    BY Zenon DEF Claimants, Users
  <2>4. /\ Cardinality(Claimants(sp)) \in Nat
        /\ Cardinality(Claimants(sp) \cup {p}) = Cardinality(Claimants(sp)) + 1
    BY <2>1, <2>3, FinProcs, CardOne, Zenon
  <2>5. SemInv(sp)
    BY <1>0, <1>i, Zenon
  <2>6. value'[sp] = InitValue - Cardinality(Claimants(sp)')
    BY <1>0, <1>1, <2>1, <2>4, <2>5, SemAssumption DEF SemInv
  <2>7. \A t \in dcount[sp] .. count[sp] - 1 : FALSE
    BY <1>0, <1>1, <2>5 DEF SemInv
  <2>8. QED
    BY <1>0, <1>1, <2>2, <2>5, <2>6, <2>7 DEF SemInv
<1>3. ASSUME NEW s \in Sems, s # sp
      PROVE  SemInv(s)'
  BY <1>1, <1>3, <1>i, SemFrame, Zenon DEF Users
<1>4. TicketsDiffer'
  BY <1>1, <1>i DEF TicketsDiffer
<1>5. ASSUME NEW q \in Procs
      PROVE  ProcInv(q)'
  <2>1. ProcInv(q) /\ SemOf[q] \in Sems
    BY <1>i, XemAssumption, Zenon
  <2>2. QED
    BY <1>1, <2>1 DEF ProcInv, Slot
<1>6. QED
  BY <1>2, <1>3, <1>4, <1>5, Zenon DEF IInv

(* xem_wait that sleeps: the thread draws the ticket count, which nobody   *)
(* else has, and becomes the last of the waiters.                          *)
LEMMA SleepStep ==
  ASSUME IInv, TypeOK', NEW p \in Procs, WaitSleep(p)
  PROVE  IInv'
<1>i. /\ TypeOK /\ TicketsDiffer
      /\ \A s \in Sems : SemInv(s)
      /\ \A q \in Procs : ProcInv(q)
  BY Zenon DEF IInv
<1> TypeOK
  BY <1>i, Zenon
<1> USE DEF TypeOK, SemType
<1> DEFINE sp == SemOf[p]
<1>0. sp \in Sems /\ ProcInv(p)
  BY <1>i, XemAssumption, Zenon
<1>1. /\ claim[p] = "none" /\ phase[p] = "enterWait"
      /\ value[sp] <= 0 /\ value' = [value EXCEPT ![sp] = @ - 1]
      /\ count' = [count EXCEPT ![sp] = @ + 1]
      /\ pstate' = [pstate EXCEPT ![p] = "SLEEPING"]
      /\ chan' = [chan EXCEPT ![p] = Slot(sp, count[sp])]
      /\ ticket' = [ticket EXCEPT ![p] = count[sp]]
      /\ claim' = [claim EXCEPT ![p] = "queued"]
      /\ phase' = [phase EXCEPT ![p] = "waiting"]
      /\ UNCHANGED <<dcount, killed>>
  BY <1>0, Zenon DEF WaitSleep, Goto, XemSleep, ProcInv
<1>2. SemInv(sp)
  BY <1>0, <1>i, Zenon
<1>3. SemInv(sp)'
  <2>1. Claimants(sp)' = Claimants(sp) \cup {p} /\ p \notin Claimants(sp)
    BY <1>1 DEF Claimants, Users
  <2>2. Ungranted(sp)' = Ungranted(sp) \cup {p} /\ p \notin Ungranted(sp)
    BY <1>0, <1>1, <1>2 DEF Ungranted, Users, SemInv
  <2>3. Claimants(sp) \in SUBSET Procs /\ Ungranted(sp) \in SUBSET Procs
    BY Zenon DEF Claimants, Ungranted, Users
  <2>4. /\ Cardinality(Claimants(sp)) \in Nat
        /\ Cardinality(Claimants(sp) \cup {p}) = Cardinality(Claimants(sp)) + 1
        /\ Cardinality(Ungranted(sp)) \in Nat
        /\ Cardinality(Ungranted(sp) \cup {p}) = Cardinality(Ungranted(sp)) + 1
    BY <2>1, <2>2, <2>3, FinProcs, CardOne, Zenon
  <2>5. value'[sp] = InitValue - Cardinality(Claimants(sp)')
    BY <1>0, <1>1, <1>2, <2>1, <2>4, SemAssumption DEF SemInv
  <2>6. Cardinality(Ungranted(sp)') = count'[sp] - dcount'[sp]
    BY <1>0, <1>1, <1>2, <2>2, <2>4 DEF SemInv
  <2>7. ASSUME NEW t \in dcount'[sp] .. count'[sp] - 1
        PROVE  \E q \in Users(sp) : claim'[q] = "queued" /\ ticket'[q] = t
    <3>1. CASE t = count[sp]
      BY <1>1, <3>1, Zenon DEF Users
    <3>2. CASE t # count[sp]
      <4>1. t \in dcount[sp] .. count[sp] - 1
        BY <1>0, <1>1, <3>2
      <4>2. PICK q \in Users(sp) : claim[q] = "queued" /\ ticket[q] = t
        BY <4>1, <1>2, Zenon DEF SemInv
      <4>3. q # p /\ q \in Procs
        BY <1>1, <4>2, Zenon DEF Users
      <4>4. QED
        BY <1>1, <4>2, <4>3
    <3>3. QED
      BY <3>1, <3>2, Zenon
  <2>8. /\ dcount'[sp] <= count'[sp] /\ value'[sp] < 0
        /\ ~(value'[sp] >= 0) /\ count'[sp] - dcount'[sp] = -value'[sp]
    <3>1. /\ value[sp] \in Int /\ count[sp] \in Nat /\ dcount[sp] \in Nat
          /\ value'[sp] = value[sp] - 1 /\ count'[sp] = count[sp] + 1
          /\ dcount'[sp] = dcount[sp]
      BY <1>0, <1>1, Zenon
    <3>2. count[sp] - dcount[sp] = -value[sp] /\ dcount[sp] <= count[sp]
      BY <1>1, <1>2, <3>1 DEF SemInv
    <3>3. QED
      BY <1>1, <3>1, <3>2
  <2>9. QED
    BY <2>5, <2>6, <2>7, <2>8, Zenon DEF SemInv, Users
<1>4. ASSUME NEW s \in Sems, s # sp
      PROVE  SemInv(s)'
  BY <1>1, <1>4, <1>i, SemFrame, Zenon DEF Users
<1>5. ASSUME NEW q \in Procs
      PROVE  ProcInv(q)'
  <2>1. CASE q = p
    BY <1>0, <1>1, <1>2, <2>1 DEF ProcInv, SemInv, Slot
  <2>2. CASE q # p
    <3>1. ProcInv(q)
      BY <1>i, Zenon
    <3>2. SemOf[q] \in Sems
      BY XemAssumption, Zenon
    <3>3. QED
      BY <1>0, <1>1, <2>2, <3>1, <3>2 DEF ProcInv, Slot
  <2>3. QED
    BY <2>1, <2>2, Zenon
<1>6. TicketsDiffer'
  <2>1. \A q \in Procs : claim[q] = "queued" => ticket[q] < count[SemOf[q]]
    BY <1>i, Zenon DEF ProcInv
  <2>2. SUFFICES ASSUME NEW a \in Procs, NEW b \in Procs, a # b, SemOf[a] = SemOf[b],
                        claim'[a] = "queued", claim'[b] = "queued"
                 PROVE  ticket'[a] # ticket'[b]
    BY Zenon DEF TicketsDiffer
  <2>3. CASE a = p
    <3>1. claim[b] = "queued" /\ ticket'[b] = ticket[b] /\ ticket[b] < count[sp]
      BY <1>1, <2>1, <2>2, <2>3, Zenon
    <3>2. ticket'[a] = count[sp]
      BY <1>1, <2>3
    <3>3. QED
      BY <1>0, <3>1, <3>2
  <2>4. CASE b = p
    <3>1. claim[a] = "queued" /\ ticket'[a] = ticket[a] /\ ticket[a] < count[sp]
      BY <1>1, <2>1, <2>2, <2>4
    <3>2. ticket'[b] = count[sp]
      BY <1>1, <2>4, Zenon
    <3>3. QED
      BY <1>0, <3>1, <3>2
  <2>5. CASE a # p /\ b # p
    BY <1>1, <1>i, <2>2, <2>5 DEF TicketsDiffer
  <2>6. QED
    BY <2>3, <2>4, <2>5, Zenon
<1>7. QED
  BY <1>3, <1>4, <1>5, <1>6, Zenon DEF IInv

(* Returning to user code: the thread was not killed, so its ticket, if it *)
(* drew one, has been reached by xem_unlock.                               *)
LEMMA ReturnStep ==
  ASSUME IInv, TypeOK', NEW p \in Procs, Return(p)
  PROVE  IInv'
<1>i. /\ TypeOK /\ TicketsDiffer
      /\ \A s \in Sems : SemInv(s)
      /\ \A q \in Procs : ProcInv(q)
  BY Zenon DEF IInv
<1> TypeOK
  BY <1>i, Zenon
<1> USE DEF TypeOK, SemType
<1>1. /\ phase[p] = "leaveWait" /\ ~killed[p] /\ claim[p] # "none"
      /\ pstate[p] = "RUNNABLE"
      /\ claim' = [claim EXCEPT ![p] = "held"]
      /\ phase' = [phase EXCEPT ![p] = "in"]
      /\ UNCHANGED <<value, count, dcount, ticket, pstate, chan, killed>>
  BY <1>i, Zenon DEF Return, Goto, ProcInv, semVars
<1>2. claim[p] = "queued" => ticket[p] < dcount[SemOf[p]]
  <2>1. ProcInv(p) /\ dcount[SemOf[p]] \in Nat /\ ticket[p] \in Nat
    BY <1>i, XemAssumption, Zenon
  <2>2. QED
    BY <1>1, <2>1 DEF ProcInv
<1>3. ASSUME NEW s \in Sems
      PROVE  SemInv(s)'
  <2>1. Claimants(s)' = Claimants(s)
    BY <1>1, Zenon DEF Claimants, Users
  <2>2. Ungranted(s)' = Ungranted(s)
    BY <1>1, <1>2 DEF Ungranted, Users
  <2>3. SemInv(s)
    BY <1>i, Zenon
  <2>4. ASSUME NEW t \in dcount[s] .. count[s] - 1
        PROVE  \E q \in Users(s) : claim'[q] = "queued" /\ ticket'[q] = t
    <3>1. PICK q \in Users(s) : claim[q] = "queued" /\ ticket[q] = t
      BY <2>3, Zenon DEF SemInv
    <3>2. q # p /\ q \in Procs
      BY <1>2, <3>1 DEF Users
    <3>3. QED
      BY <1>1, <3>1, <3>2, Zenon
  <2>5. QED
    BY <1>1, <2>1, <2>2, <2>3, <2>4, Zenon DEF SemInv, Users
<1>4. ASSUME NEW q \in Procs
      PROVE  ProcInv(q)'
  <2>1. ProcInv(q) /\ SemOf[q] \in Sems
    BY <1>i, XemAssumption, Zenon
  <2>2. QED
    BY <1>1, <2>1, Zenon DEF ProcInv, Slot
<1>5. TicketsDiffer'
  BY <1>1, <1>i DEF TicketsDiffer
<1>6. QED
  BY <1>3, <1>4, <1>5, Zenon DEF IInv

----------------------------------------------------------------------------
(* The steps of xem_unlock keep the inductive invariant of Xem, as long as *)
(* the semaphores of different address spaces do not overlap.              *)

(* xem_unlock while threads wait wakes the one thread whose ticket is      *)
(* dcount, if it still sleeps, and no other: tickets of sleepers are less  *)
(* than SIZE apart and other semaphores have other addresses.              *)
LEMMA WakesOne ==
  ASSUME NoAlias, IInv, NEW s \in Sems, NEW q \in Procs,
         pstate[q] = "SLEEPING", chan[q] = Slot(s, dcount[s])
  PROVE  SemOf[q] = s /\ ticket[q] = dcount[s]
<1>i. /\ TypeOK /\ TicketsDiffer
      /\ \A sem \in Sems : SemInv(sem)
      /\ \A thr \in Procs : ProcInv(thr)
  BY Zenon DEF IInv
<1> TypeOK
  BY <1>i, Zenon
<1> USE DEF TypeOK, SemType
<1> DEFINE sq == SemOf[q]
<1>1. sq \in Sems /\ ProcInv(q) /\ SemInv(s)
  BY <1>i, XemAssumption, Zenon
<1>2. /\ phase[q] = "waiting" /\ claim[q] = "queued"
      /\ chan[q] = Slot(sq, ticket[q])
      /\ ticket[q] >= dcount[sq] /\ ticket[q] < count[sq]
  BY <1>1, Zenon DEF ProcInv
<1>3. sq = s
  <2>1. Base[sq] <= chan[q] /\ chan[q] < Base[sq] + SIZE
    BY <1>1, <1>2, SlotRange, Zenon
  <2>2. Base[s] <= chan[q] /\ chan[q] < Base[s] + SIZE
    BY SlotRange, Zenon
  <2>3. QED
    BY <1>1, <2>1, <2>2, SemAssumption DEF NoAlias
<1>4. count[s] - dcount[s] <= SIZE
  <2>1. Ungranted(s) \in SUBSET Procs
    BY Zenon DEF Ungranted, Users
  <2>2. QED
    BY <1>1, <2>1, FinProcs, Zenon DEF SemInv
<1>5. ticket[q] % SIZE = dcount[s] % SIZE
  <2>1. ticket[q] % SIZE \in Nat /\ dcount[s] % SIZE \in Nat /\ Base[s] \in Nat
    BY SemAssumption
  <2>2. QED
    BY <1>2, <1>3, <2>1 DEF Slot
<1>6. dcount[s] <= ticket[q] /\ ticket[q] < dcount[s] + SIZE
  BY <1>2, <1>3, <1>4, SemAssumption
<1>7. QED
  BY <1>3, <1>5, <1>6, ModUnique, SemAssumption, Zenon

(* xem_unlock with no waiter: one claimant less, value one more.           *)
LEMMA FreeStep ==
  ASSUME IInv, TypeOK', NEW p \in Procs, Unlock(p), value[SemOf[p]] + 1 > 0
  PROVE  IInv'
<1>i. /\ TypeOK /\ TicketsDiffer
      /\ \A s \in Sems : SemInv(s)
      /\ \A q \in Procs : ProcInv(q)
  BY Zenon DEF IInv
<1> TypeOK
  BY <1>i, Zenon
<1> USE DEF TypeOK, SemType
<1> DEFINE sp == SemOf[p]
<1>0. sp \in Sems /\ ProcInv(p)
  BY <1>i, XemAssumption, Zenon
<1>1. /\ phase[p] = "enterPost" /\ claim[p] = "held"
      /\ value' = [value EXCEPT ![sp] = @ + 1]
      /\ claim' = [claim EXCEPT ![p] = "none"]
      /\ phase' = [phase EXCEPT ![p] = "user"]
      /\ UNCHANGED <<count, dcount, ticket, pstate, chan, killed>>
  BY <1>0 DEF Unlock, Goto, XemUnlock, ProcInv
<1>2. SemInv(sp)
  BY <1>0, <1>i, Zenon
<1>3. SemInv(sp)'
  <2>1. Claimants(sp)' = Claimants(sp) \ {p} /\ p \in Claimants(sp)
    BY <1>1, Zenon DEF Claimants, Users
  <2>2. Ungranted(sp)' = Ungranted(sp)
    BY <1>1, Zenon DEF Ungranted, Users
  <2>3. Claimants(sp) \in SUBSET Procs
    BY Zenon DEF Claimants, Users
  <2>4. /\ Cardinality(Claimants(sp)) \in Nat
        /\ Cardinality(Claimants(sp) \ {p}) = Cardinality(Claimants(sp)) - 1
    BY <2>1, <2>3, FinProcs, CardOne, Zenon
  <2>5. value'[sp] = InitValue - Cardinality(Claimants(sp)')
    BY <1>0, <1>1, <1>2, <2>1, <2>4, SemAssumption DEF SemInv
  <2>6. value[sp] >= 0 /\ count[sp] = dcount[sp]
    BY <1>0, <1>2 DEF SemInv
  <2>7. QED
    BY <1>0, <1>1, <1>2, <2>2, <2>5, <2>6 DEF SemInv
<1>4. ASSUME NEW s \in Sems, s # sp
      PROVE  SemInv(s)'
  BY <1>1, <1>4, <1>i, SemFrame, Zenon DEF Users
<1>5. ASSUME NEW q \in Procs
      PROVE  ProcInv(q)'
  <2>1. ProcInv(q) /\ SemOf[q] \in Sems
    BY <1>i, XemAssumption, Zenon
  <2>2. QED
    BY <1>1, <2>1, Zenon DEF ProcInv, Slot
<1>6. TicketsDiffer'
  BY <1>1, <1>i DEF TicketsDiffer
<1>7. QED
  BY <1>3, <1>4, <1>5, <1>6, Zenon DEF IInv

(* xem_unlock with waiters: the permit passes from the caller to the       *)
(* thread with ticket dcount, dead or alive.                               *)
LEMMA HandoverStep ==
  ASSUME NoAlias, IInv, TypeOK', NEW p \in Procs, Unlock(p), value[SemOf[p]] + 1 <= 0
  PROVE  IInv'
<1>i. /\ TypeOK /\ TicketsDiffer
      /\ \A s \in Sems : SemInv(s)
      /\ \A q \in Procs : ProcInv(q)
  BY Zenon DEF IInv
<1> TypeOK
  BY <1>i, Zenon
<1> USE DEF TypeOK, SemType
<1> DEFINE sp == SemOf[p]
<1>0. sp \in Sems /\ ProcInv(p)
  BY <1>i, XemAssumption, Zenon
<1>1. /\ phase[p] = "enterPost" /\ claim[p] = "held"
      /\ value' = [value EXCEPT ![sp] = @ + 1]
      /\ dcount' = [dcount EXCEPT ![sp] = @ + 1]
      /\ Wakeup(Slot(sp, dcount[sp]))
      /\ claim' = [claim EXCEPT ![p] = "none"]
      /\ phase' = [phase EXCEPT ![p] = "user"]
      /\ UNCHANGED <<count, ticket, chan, killed>>
  BY <1>0, Zenon DEF Unlock, Goto, XemUnlock, ProcInv
<1>2. /\ SemInv(sp) /\ InitValue \in Nat
      /\ value[sp] \in Int /\ count[sp] \in Nat /\ dcount[sp] \in Nat
      /\ value'[sp] = value[sp] + 1 /\ dcount'[sp] = dcount[sp] + 1
      /\ count'[sp] = count[sp]
  BY <1>0, <1>1, <1>i, SemAssumption, Zenon
<1>3. PICK r \in Users(sp) : claim[r] = "queued" /\ ticket[r] = dcount[sp]
  <2>1. dcount[sp] \in dcount[sp] .. count[sp] - 1
    BY <1>0, <1>2 DEF SemInv
  <2>2. QED
    BY <1>2, <2>1, Zenon DEF SemInv
<1>4. r \in Procs /\ SemOf[r] = sp /\ r # p
  BY <1>1, <1>3, Zenon DEF Users
<1>5. \A q \in Procs : q # r /\ SemOf[q] = sp /\ claim[q] = "queued"
                       => ticket[q] # dcount[sp]
  BY <1>3, <1>4, <1>i, Zenon DEF TicketsDiffer
<1>6. SemInv(sp)'
  <2>1. Claimants(sp)' = Claimants(sp) \ {p} /\ p \in Claimants(sp)
    BY <1>1, Zenon DEF Claimants, Users
  <2>2. Ungranted(sp)' = Ungranted(sp) \ {r} /\ r \in Ungranted(sp)
    BY <1>0, <1>1, <1>3, <1>4, <1>5 DEF Ungranted, Users
  <2>3. Claimants(sp) \in SUBSET Procs /\ Ungranted(sp) \in SUBSET Procs
    BY Zenon DEF Claimants, Ungranted, Users
  <2>4. /\ Cardinality(Claimants(sp)) \in Nat
        /\ Cardinality(Claimants(sp) \ {p}) = Cardinality(Claimants(sp)) - 1
        /\ Cardinality(Ungranted(sp)) \in Nat
        /\ Cardinality(Ungranted(sp) \ {r}) = Cardinality(Ungranted(sp)) - 1
    BY <2>1, <2>2, <2>3, FinProcs, CardOne, Zenon
  <2>5. value'[sp] = InitValue - Cardinality(Claimants(sp)')
    <3>1. value[sp] = InitValue - Cardinality(Claimants(sp))
      BY ONLY <1>2, Zenon DEF SemInv
    <3>2. QED
      BY ONLY <1>2, <2>1, <2>4, <3>1
  <2>6. Cardinality(Ungranted(sp)') = count'[sp] - dcount'[sp]
    <3>1. Cardinality(Ungranted(sp)) = count[sp] - dcount[sp]
      BY ONLY <1>2, Zenon DEF SemInv
    <3>2. QED
      BY ONLY <1>2, <2>2, <2>4, <3>1
  <2>7. ASSUME NEW t \in dcount'[sp] .. count'[sp] - 1
        PROVE  \E q \in Users(sp) : claim'[q] = "queued" /\ ticket'[q] = t
    <3>1. t \in dcount[sp] .. count[sp] - 1
      BY ONLY <1>2, t \in dcount'[sp] .. count'[sp] - 1
    <3>2. PICK q \in Users(sp) : claim[q] = "queued" /\ ticket[q] = t
      BY <3>1, <1>2, Zenon DEF SemInv
    <3>3. q # p /\ q \in Procs
      BY <1>1, <3>2, Zenon DEF Users
    <3>4. QED
      BY <1>1, <3>2, <3>3, Zenon
  <2>8. QED
    <3>1. /\ value[sp] + 1 <= 0 /\ (value[sp] < 0 => count[sp] - dcount[sp] = -value[sp])
      BY <1>2, Zenon DEF SemInv
    <3>2. /\ dcount'[sp] <= count'[sp]
          /\ value'[sp] < 0 => count'[sp] - dcount'[sp] = -value'[sp]
          /\ value'[sp] >= 0 => count'[sp] = dcount'[sp]
      BY ONLY <1>2, <3>1
    <3>3. QED
      BY ONLY <2>5, <2>6, <2>7, <3>2, Zenon DEF SemInv, Users
<1>7. ASSUME NEW s \in Sems, s # sp
      PROVE  SemInv(s)'
  BY <1>1, <1>7, <1>i, SemFrame, Zenon DEF Users
<1>8. ASSUME NEW q \in Procs
      PROVE  ProcInv(q)'
  <2>0. ProcInv(q) /\ SemOf[q] \in Sems
    BY <1>i, XemAssumption, Zenon
  <2>1. CASE pstate[q] = "SLEEPING" /\ chan[q] = Slot(sp, dcount[sp])
    <3>1. SemOf[q] = sp /\ ticket[q] = dcount[sp]
      BY <1>0, <2>1, WakesOne, Zenon
    <3>2. pstate'[q] = "RUNNABLE"
      BY <1>1, <2>1, Zenon DEF Wakeup
    <3>3. phase[q] = "waiting" /\ q # p
      BY <1>1, <2>0, <2>1, Zenon DEF ProcInv
    <3>4. QED
      BY <1>0, <1>1, <2>0, <3>1, <3>2, <3>3 DEF ProcInv, Slot
  <2>2. CASE ~(pstate[q] = "SLEEPING" /\ chan[q] = Slot(sp, dcount[sp]))
    <3>1. pstate'[q] = pstate[q]
      BY <1>1, <2>2, Zenon DEF Wakeup
    <3>0. ticket[q] \in Nat /\ dcount[SemOf[q]] \in Nat
      BY <2>0, Zenon
    <3>a. dcount'[SemOf[q]] = IF SemOf[q] = sp THEN dcount[SemOf[q]] + 1
                                               ELSE dcount[SemOf[q]]
      BY <1>0, <1>1, <2>0, Zenon
    <3>2. pstate[q] = "SLEEPING" => ticket[q] >= dcount'[SemOf[q]]
      <4>1. pstate[q] = "SLEEPING" => /\ ticket[q] >= dcount[SemOf[q]]
                                      /\ chan[q] = Slot(SemOf[q], ticket[q])
        BY ONLY <2>0, Zenon DEF ProcInv
      <4>2. QED
        BY ONLY <2>2, <3>0, <3>a, <4>1
    <3>3. ticket[q] >= dcount'[SemOf[q]] => ticket[q] >= dcount[SemOf[q]]
      BY ONLY <3>0, <3>a
    <3>4. QED
      BY <1>1, <2>0, <3>1, <3>2, <3>3, Zenon DEF ProcInv, Slot
  <2>3. QED
    BY <2>1, <2>2, Zenon
<1>9. TicketsDiffer'
  BY <1>1, <1>i DEF TicketsDiffer
<1>10. QED
  BY <1>6, <1>7, <1>8, <1>9, Zenon DEF IInv

----------------------------------------------------------------------------
(* One step of any thread, kill() included, keeps the inductive invariant. *)
LEMMA IndStep ==
  ASSUME NoAlias, IInv, [Next]_vars
  PROVE  IInv'
<1>1. TypeOK'
  BY TypeStep, Zenon DEF IInv
<1>2. CASE UNCHANGED vars
  <2>1. \A s \in Sems : SemInv(s)'
    BY <1>2, SemFrame, Zenon DEF IInv, vars, semVars
  <2>2. \A p \in Procs : ProcInv(p)'
    BY <1>2, Zenon DEF IInv, vars, semVars, ProcInv, Slot
  <2>3. TicketsDiffer'
    BY <1>2, Zenon DEF IInv, vars, semVars, TicketsDiffer
  <2>4. QED
    BY <1>1, <2>1, <2>2, <2>3, Zenon DEF IInv
<1>3. ASSUME NEW p \in Procs, Unlock(p)
      PROVE  IInv'
  <2>1. value[SemOf[p]] \in Int
    BY XemAssumption, Zenon DEF IInv, TypeOK, SemType
  <2>2. QED
    BY <1>1, <1>3, <2>1, FreeStep, HandoverStep
<1>4. QED
  BY <1>1, <1>2, <1>3, QuietStep, TakeStep, SleepStep, ReturnStep, Zenon DEF Next

(* The inductive invariant holds in the states xem_init leaves.            *)
LEMMA IndInit ==
  ASSUME Init
  PROVE  IInv
<1> USE DEF Init, XemInit
<1>1. TypeOK
  BY SemAssumption DEF TypeOK, SemType, Phases
<1>2. ASSUME NEW s \in Sems
      PROVE  SemInv(s)
  <2>1. Claimants(s) = {} /\ Ungranted(s) = {}
    BY Zenon DEF Claimants, Ungranted, Users
  <2>2. QED
    BY <2>1, FS_EmptySet, SemAssumption DEF SemInv
<1>3. QED
  BY <1>1, <1>2, Zenon DEF IInv, ProcInv, TicketsDiffer

(* Those inside are claimants whose permit was free or was handed over,    *)
(* and there are exactly InitValue - value or InitValue of those.          *)
LEMMA InvImpliesExclusion ==
  ASSUME IInv
  PROVE  MutualExclusion
<1> SUFFICES ASSUME NEW s \in Sems
             PROVE  Cardinality(Inside(s)) <= InitValue
  BY Zenon DEF MutualExclusion
<1>1. SemInv(s) /\ value[s] \in Int /\ count[s] \in Nat /\ dcount[s] \in Nat
  BY Zenon DEF IInv, TypeOK, SemType
<1> DEFINE C == Claimants(s)
           U == Ungranted(s)
           I == Inside(s)
<1>2. C \in SUBSET Procs /\ U \in SUBSET Procs /\ I \in SUBSET Procs
  BY Zenon DEF Claimants, Ungranted, Inside, Users
<1>3. I \cap U = {} /\ I \cup U \subseteq C
  BY Zenon DEF IInv, ProcInv, Claimants, Ungranted, Inside, Users
<1>4. /\ IsFiniteSet(C) /\ IsFiniteSet(U) /\ IsFiniteSet(I)
      /\ Cardinality(C) \in Nat /\ Cardinality(U) \in Nat /\ Cardinality(I) \in Nat
  BY <1>2, FinProcs, Zenon
<1> HIDE DEF C, U, I
<1>5. Cardinality(I \cup U) = Cardinality(I) + Cardinality(U)
  BY <1>3, <1>4, FS_Union, FS_EmptySet
<1>6. Cardinality(I \cup U) <= Cardinality(C)
  BY <1>3, <1>4, FS_Subset, Zenon
<1>7. Cardinality(C) - Cardinality(U) <= InitValue
  BY <1>1, <1>4, SemAssumption DEF SemInv, C, U
<1>8. QED
  BY <1>4, <1>5, <1>6, <1>7, SemAssumption DEF I

(* The inductive invariant holds in every reachable state.                 *)
THEOREM Inductive ==
  ASSUME NoAlias
  PROVE  Spec => []IInv
<1>1. Init => IInv
  BY IndInit, Zenon
<1>2. IInv /\ [Next]_vars => IInv'
  BY IndStep, Zenon
<1>3. QED
  BY <1>1, <1>2, PTL DEF Spec

(* Mutual exclusion of xem_wait and xem_unlock: for any number of threads  *)
(* and any initial value, with kill() at any moment, never more than       *)
(* InitValue threads of a group are inside, provided the arrays of         *)
(* different semaphores do not share addresses.                            *)
THEOREM XemExclusion ==
  ASSUME NoAlias
  PROVE  Spec => []MutualExclusion
<1>1. IInv => MutualExclusion
  BY InvImpliesExclusion, Zenon
<1>2. QED
  BY <1>1, Inductive, PTL

(* The counters say what they should.                                      *)
LEMMA InvImpliesAccounting ==
  ASSUME IInv
  PROVE  Accounting
<1> SUFFICES ASSUME NEW s \in Sems
             PROVE  /\ value[s] = InitValue - Cardinality(Claimants(s))
                    /\ count[s] - dcount[s] = IF value[s] < 0 THEN -value[s] ELSE 0
                    /\ Cardinality(Ungranted(s)) = count[s] - dcount[s]
  BY Zenon DEF Accounting
<1>1. SemInv(s) /\ value[s] \in Int /\ count[s] \in Nat /\ dcount[s] \in Nat
  BY Zenon DEF IInv, TypeOK, SemType
<1>2. QED
  BY <1>1 DEF SemInv

(* Sleepers hold different tickets of the window from dcount to count,     *)
(* which is no longer than arr, so no two of them share an element.        *)
LEMMA InvImpliesNoLostWakeup ==
  ASSUME IInv
  PROVE  NoLostWakeup
<1> SUFFICES ASSUME NEW s \in Sems
             PROVE  /\ Sleepers(s) \subseteq Ungranted(s)
                    /\ \A p, q \in Sleepers(s) : p # q => chan[p] # chan[q]
  BY Zenon DEF NoLostWakeup
<1>1. /\ SemInv(s) /\ count[s] \in Nat /\ dcount[s] \in Nat
      /\ ticket \in [Procs -> Nat]
  BY Zenon DEF IInv, TypeOK, SemType
<1>2. Sleepers(s) \subseteq Ungranted(s)
  BY Zenon DEF Sleepers, Ungranted, Users, IInv, ProcInv
<1>3. count[s] - dcount[s] <= SIZE
  <2>1. Ungranted(s) \in SUBSET Procs
    BY Zenon DEF Ungranted, Users
  <2>2. QED
    BY <1>1, <2>1, FinProcs, Zenon DEF SemInv
<1>4. ASSUME NEW p \in Sleepers(s), NEW q \in Sleepers(s), p # q, chan[p] = chan[q]
      PROVE  FALSE
  <2>1. /\ p \in Procs /\ q \in Procs /\ SemOf[p] = s /\ SemOf[q] = s
        /\ pstate[p] = "SLEEPING" /\ pstate[q] = "SLEEPING"
    BY Zenon DEF Sleepers, Users
  <2>2. ProcInv(p) /\ ProcInv(q) /\ TicketsDiffer
    BY <2>1, Zenon DEF IInv
  <2>3. /\ claim[p] = "queued" /\ claim[q] = "queued"
        /\ chan[p] = Slot(s, ticket[p]) /\ chan[q] = Slot(s, ticket[q])
        /\ ticket[p] >= dcount[s] /\ ticket[p] < count[s]
        /\ ticket[q] >= dcount[s] /\ ticket[q] < count[s]
    BY <2>1, <2>2, Zenon DEF ProcInv
  <2>4. ticket[p] # ticket[q]
    BY <1>4, <2>1, <2>2, <2>3, Zenon DEF TicketsDiffer
  <2>5. ticket[p] \in Nat /\ ticket[q] \in Nat /\ SIZE \in Nat
    BY <1>1, <2>1, SemAssumption, Zenon
  <2>6. CASE ticket[p] < ticket[q]
    <3>1. ticket[q] < ticket[p] + SIZE
      BY ONLY <1>1, <1>3, <2>3, <2>5
    <3>2. QED
      BY ONLY s \in Sems, chan[p] = chan[q], <2>3, <2>5, <2>6, <3>1, SlotsDiffer, Zenon
  <2>7. CASE ticket[q] < ticket[p]
    <3>1. ticket[p] < ticket[q] + SIZE
      BY ONLY <1>1, <1>3, <2>3, <2>5
    <3>2. QED
      BY ONLY s \in Sems, chan[p] = chan[q], <2>3, <2>5, <2>7, <3>1, SlotsDiffer, Zenon
  <2>8. QED
    BY <2>4, <2>5, <2>6, <2>7
<1>5. QED
  BY <1>2, <1>4, Zenon

(* xem_wait and xem_unlock keep exact count of the permits, whoever is     *)
(* killed meanwhile.                                                       *)
THEOREM XemAccounting ==
  ASSUME NoAlias
  PROVE  Spec => []Accounting
<1>1. IInv => Accounting
  BY InvImpliesAccounting, Zenon
<1>2. QED
  BY <1>1, Inductive, PTL

(* xem_unlock never passes over a sleeper, and arr, whose elements are     *)
(* used again modulo SIZE, never has two threads asleep on one element.    *)
THEOREM XemNoLostWakeup ==
  ASSUME NoAlias
  PROVE  Spec => []NoLostWakeup
<1>1. IInv => NoLostWakeup
  BY InvImpliesNoLostWakeup, Zenon
<1>2. QED
  BY <1>1, Inductive, PTL

(* Nobody but kill() wakes a thread that xem_unlock has not reached.       *)
THEOREM XemInTurn ==
  ASSUME NoAlias
  PROVE  Spec => []OutOfTurnOnlyIfKilled
<1>1. IInv => OutOfTurnOnlyIfKilled
  BY Zenon DEF IInv, ProcInv, OutOfTurnOnlyIfKilled, Ungranted, Users
<1>2. QED
  BY <1>1, Inductive, PTL

(* What one xem_unlock does to the threads asleep on its semaphore, when   *)
(* nobody in line was killed: the thread with the ticket dcount is asleep, *)
(* and it is the only one woken.                                           *)
LEMMA PostStep ==
  ASSUME NoAlias, IInv, NEW p \in Procs, Unlock(p), NEW s \in Sems, s = SemOf[p],
         \A q \in Ungranted(s) : ~killed[q], Sleepers(s) # {}
  PROVE  \E q \in Sleepers(s) :
           /\ Sleepers(s)' = Sleepers(s) \ {q}
           /\ \A r \in Sleepers(s) : ticket[q] <= ticket[r]
<1>1. /\ value[s] \in Int /\ count[s] \in Nat /\ dcount[s] \in Nat
      /\ ticket \in [Procs -> Nat] /\ SemInv(s) /\ TicketsDiffer
      /\ pstate \in [Procs -> {"RUNNABLE", "SLEEPING"}]
  BY Zenon DEF IInv, TypeOK, SemType
<1>2. ASSUME NEW r \in Sleepers(s)
      PROVE  /\ r \in Procs /\ SemOf[r] = s /\ claim[r] = "queued"
             /\ pstate[r] = "SLEEPING"
             /\ ticket[r] >= dcount[s] /\ ticket[r] < count[s]
  BY Zenon DEF Sleepers, Users, IInv, ProcInv
<1>3. dcount[s] < count[s] /\ value[s] + 1 <= 0
  <2>1. PICK r \in Sleepers(s) : TRUE
    BY Zenon
  <2>2. ticket[r] \in Nat /\ ticket[r] >= dcount[s] /\ ticket[r] < count[s]
    BY <1>1, <1>2, Zenon
  <2>3. dcount[s] < count[s]
    BY <1>1, <2>2
  <2>4. value[s] >= 0 => count[s] = dcount[s]
    BY <1>1, Zenon DEF SemInv
  <2>5. QED
    BY ONLY <1>1, <2>3, <2>4
<1>4. pstate' = [q \in Procs |-> IF pstate[q] = "SLEEPING" /\ chan[q] = Slot(s, dcount[s])
                                   THEN "RUNNABLE" ELSE pstate[q]]
  BY <1>3, Zenon DEF Unlock, XemUnlock, Wakeup
<1>5. PICK q \in Users(s) : claim[q] = "queued" /\ ticket[q] = dcount[s]
  BY <1>1, <1>3 DEF SemInv
<1>6. /\ q \in Procs /\ SemOf[q] = s /\ pstate[q] = "SLEEPING"
      /\ chan[q] = Slot(s, dcount[s])
  <2>1. q \in Procs /\ SemOf[q] = s /\ ProcInv(q)
    BY Zenon DEF Users, IInv
  <2>2. q \in Ungranted(s)
    BY <1>1, <1>5 DEF Ungranted
  <2>3. pstate[q] # "RUNNABLE"
    BY <1>1, <1>5, <2>1, <2>2 DEF ProcInv
  <2>4. pstate[q] = "SLEEPING"
    BY <1>1, <2>1, <2>3, Zenon
  <2>5. QED
    BY <1>5, <2>1, <2>4, Zenon DEF ProcInv
<1>7. q \in Sleepers(s)
  BY <1>6, Zenon DEF Sleepers, Users
<1>8. ASSUME NEW r \in Sleepers(s), r # q
      PROVE  chan[r] # Slot(s, dcount[s])
  BY <1>2, <1>5, <1>6, <1>8, <1>1, WakesOne DEF TicketsDiffer
<1>9. Sleepers(s)' = Sleepers(s) \ {q}
  <2>1. \A r \in Procs :
          pstate'[r] = "SLEEPING" <=>
            pstate[r] = "SLEEPING" /\ chan[r] # Slot(s, dcount[s])
    BY <1>1, <1>4, Zenon
  <2>2. QED
    BY <1>6, <1>8, <2>1, Zenon DEF Sleepers, Users
<1>10. QED
  BY <1>1, <1>2, <1>5, <1>7, <1>9, Zenon

(* xem_unlock hands the permit to the thread that has waited longest.      *)
THEOREM XemWakesOldest ==
  ASSUME NoAlias
  PROVE  Spec => PostWakesOldest
<1> DEFINE A == \A p \in Procs :
                  Unlock(p) /\ (\A q \in Ungranted(SemOf[p]) : ~killed[q]) =>
                    LET s == SemOf[p]
                    IN Sleepers(s) # {} =>
                         \E q \in Sleepers(s) :
                           /\ Sleepers(s)' = Sleepers(s) \ {q}
                           /\ \A r \in Sleepers(s) : ticket[q] <= ticket[r]
<1>1. IInv /\ [Next]_vars => [A]_vars
  <2> SUFFICES ASSUME IInv PROVE A
    BY Zenon
  <2>1. \A p \in Procs : SemOf[p] \in Sems
    BY XemAssumption, Zenon
  <2>2. QED
    BY <2>1, PostStep, Zenon
<1>2. QED
  BY <1>1, Inductive, PTL DEF Spec, PostWakesOldest
============================================================================
