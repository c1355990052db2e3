-------------------------------- MODULE Pipe --------------------------------
(***************************************************************************)
(* A pipe (pipe.c) with its writers and readers.  A step is what happens   *)
(* between two points at which p->lock is free, except that a call which   *)
(* is about to sleep has tested killed before sleep() takes ptable.lock:   *)
(* pc[p] = "presleep" is that moment, with p->lock still held.  nread and  *)
(* nwrite are unsigned and wrap around at UINT.                            *)
(***************************************************************************)
EXTENDS Integers, Sequences, FiniteSets

CONSTANTS
  Writers, Readers,
  PIPESIZE,
  UINT,       \* 2^32 in the program; PIPESIZE divides it
  MaxN,       \* bound: bytes per call
  Bytes,
  KillOn      \* whether processes are killed

ASSUME PipeAssumption ==
  /\ PIPESIZE \in Nat \ {0} /\ UINT \in Nat /\ UINT > PIPESIZE /\ UINT % PIPESIZE = 0
  /\ MaxN \in Nat \ {0} /\ Writers \cap Readers = {} /\ KillOn \in BOOLEAN

Procs == Writers \cup Readers

VARIABLES
  data, nread, nwrite, readopen, writeopen,
  freed,      \* kfree'd by pipeclose
  got,        \* the bytes that the latest piperead returned
  pc, killed,
  addr,       \* a writer's bytes that are not written yet
  len         \* what a reader asked for

pipeVars == <<data, nread, nwrite, got>>
openVars == <<readopen, writeopen, freed>>
vars == <<pipeVars, openVars, pc, killed, addr, len>>

\* pipealloc; the page's old contents are still in data.
Init ==
  /\ data \in [0 .. PIPESIZE - 1 -> Bytes]
  /\ nread = 0 /\ nwrite = 0
  /\ readopen = TRUE /\ writeopen = TRUE /\ freed = FALSE
  /\ got = <<>>
  /\ pc = [p \in Procs |-> "user"]
  /\ killed = [p \in Procs |-> FALSE]
  /\ addr = [p \in Writers |-> <<>>]
  /\ len = [p \in Readers |-> 0]

Lock == \A p \in Procs : pc[p] # "presleep"

\* pc after wakeup(&p->nread), which readers sleep on, or wakeup(&p->nwrite).
Woken(f, Q) == [p \in Procs |-> IF p \in Q /\ f[p] = "sleep" THEN "call" ELSE f[p]]

\* Bytes in the buffer, by the program's unsigned arithmetic.
Count == (nwrite + UINT - nread) % UINT
Full == nwrite = (nread + PIPESIZE) % UINT
Empty == nread = nwrite

Minimum(a, b) == IF a < b THEN a ELSE b

-----------------------------------------------------------------------------
\* pipewrite

SysWrite(p) ==
  /\ pc[p] = "user" /\ ~killed[p]
  /\ \E n \in 1 .. MaxN : \E s \in [1 .. n -> Bytes] : addr' = [addr EXCEPT ![p] = s]
  /\ pc' = [pc EXCEPT ![p] = "call"]
  /\ UNCHANGED <<pipeVars, openVars, killed, len>>

\* data[nwrite++ % PIPESIZE] = addr[i], for the next k bytes.
Store(p, k) ==
  /\ data' = [j \in DOMAIN data |->
                IF \E i \in 1 .. k : (nwrite + i - 1) % PIPESIZE = j
                  THEN addr[p][CHOOSE i \in 1 .. k : (nwrite + i - 1) % PIPESIZE = j]
                  ELSE data[j]]
  /\ nwrite' = (nwrite + k) % UINT
  /\ UNCHANGED <<nread, got, openVars, killed, len>>

MutWriteAll(p) ==
  /\ Lock /\ pc[p] = "call"
  /\ Len(addr[p]) <= PIPESIZE - Count
  /\ Store(p, Len(addr[p]))
  /\ addr' = [addr EXCEPT ![p] = <<>>]
  /\ pc' = [pc EXCEPT ![p] = "user"]

\* What is left fits: pipewrite stores it, wakes the readers and returns.
WriteAll(p) ==
  /\ Lock /\ pc[p] = "call"
  /\ Len(addr[p]) <= PIPESIZE - Count
  /\ Store(p, Len(addr[p]))
  /\ addr' = [addr EXCEPT ![p] = <<>>]
  /\ pc' = Woken([pc EXCEPT ![p] = "user"], Readers)

MutWriteFull(p) ==
  LET k == PIPESIZE - Count
      fails == ~readopen \/ killed[p]
  IN
    /\ Lock /\ pc[p] = "call"
    /\ Len(addr[p]) > k
    /\ Store(p, k)
    /\ addr' = [addr EXCEPT ![p] = IF fails THEN <<>> ELSE @]
    /\ pc' = IF fails THEN [pc EXCEPT ![p] = "user"]
                      ELSE Woken([pc EXCEPT ![p] = "presleep"], Readers)

\* The buffer fills up: pipewrite stores what fits, and then returns -1 or
\* wakes the readers and goes to sleep.
WriteFull(p) ==
  LET k == PIPESIZE - Count
      fails == ~readopen \/ killed[p]
  IN
    /\ Lock /\ pc[p] = "call"
    /\ Len(addr[p]) > k
    /\ Store(p, k)
    /\ addr' = [addr EXCEPT ![p] = IF fails THEN <<>> ELSE SubSeq(@, k + 1, Len(@))]
    /\ pc' = IF fails THEN [pc EXCEPT ![p] = "user"]
                      ELSE Woken([pc EXCEPT ![p] = "presleep"], Readers)

-----------------------------------------------------------------------------
\* piperead

SysRead(p) ==
  /\ pc[p] = "user" /\ ~killed[p]
  /\ \E n \in 1 .. MaxN : len' = [len EXCEPT ![p] = n]
  /\ pc' = [pc EXCEPT ![p] = "call"]
  /\ UNCHANGED <<pipeVars, openVars, killed, addr>>

\* Nothing to read: piperead returns -1 or goes to sleep.
ReadEmpty(p) ==
  /\ Lock /\ pc[p] = "call"
  /\ Empty /\ writeopen
  /\ pc' = [pc EXCEPT ![p] = IF killed[p] THEN "user" ELSE "presleep"]
  /\ len' = [len EXCEPT ![p] = IF killed[p] THEN 0 ELSE @]
  /\ UNCHANGED <<pipeVars, openVars, killed, addr>>

\* piperead copies what there is, wakes the writers and returns.
ReadSome(p) ==
  LET k == Minimum(len[p], Count) IN
    /\ Lock /\ pc[p] = "call"
    /\ ~(Empty /\ writeopen)
    /\ got' = [i \in 1 .. k |-> data[(nread + i - 1) % PIPESIZE]]
    /\ nread' = (nread + k) % UINT
    /\ pc' = Woken([pc EXCEPT ![p] = "user"], Writers)
    /\ len' = [len EXCEPT ![p] = 0]
    /\ UNCHANGED <<data, nwrite, openVars, killed, addr>>

-----------------------------------------------------------------------------
\* sleep, kill, exit and pipeclose

\* sleep(): p->lock is released once ptable.lock is held.
Sleep(p) ==
  /\ pc[p] = "presleep"
  /\ pc' = [pc EXCEPT ![p] = "sleep"]
  /\ UNCHANGED <<pipeVars, openVars, killed, addr, len>>

\* kill() by another process.
Kill(p) ==
  /\ KillOn
  /\ pc[p] # "dead" /\ ~killed[p]
  /\ killed' = [killed EXCEPT ![p] = TRUE]
  /\ pc' = Woken(pc, {p})
  /\ UNCHANGED <<pipeVars, openVars, addr, len>>

\* p closes its descriptor, by close() or by exit().  The last one of its end
\* calls pipeclose, which wakes the other end, and frees the pipe when both
\* are closed.
Exit(p) ==
  /\ pc[p] = "user"
  /\ LET mine == IF p \in Writers THEN Writers ELSE Readers
         last == \A r \in mine \ {p} : pc[r] = "dead"
     IN /\ last => Lock
        /\ writeopen' = (writeopen /\ ~(last /\ p \in Writers))
        /\ readopen' = (readopen /\ ~(last /\ p \in Readers))
        /\ pc' = Woken([pc EXCEPT ![p] = "dead"], IF last THEN Procs \ mine ELSE {})
  /\ freed' = (~readopen' /\ ~writeopen')
  /\ UNCHANGED <<pipeVars, killed, addr, len>>

Next ==
  \/ \E p \in Writers : SysWrite(p) \/ WriteAll(p) \/ WriteFull(p)
  \/ \E p \in Readers : SysRead(p) \/ ReadEmpty(p) \/ ReadSome(p)
  \/ \E p \in Procs : Sleep(p) \/ Kill(p) \/ Exit(p)

Spec == Init /\ [][Next]_vars

-----------------------------------------------------------------------------
\* Properties

Queue == INSTANCE Fifo WITH
  want <- addr, q <- [i \in 1 .. Count |-> data[(nread + i - 1) % PIPESIZE]]

\* The ring buffer is a bounded FIFO queue of the bytes that its writers hand
\* to write(), also when nread and nwrite wrap around, when the writes of
\* several processes interleave and when a writer sleeps in the middle of its
\* own: each byte enters once, in its writer's order, and piperead returns the
\* oldest ones, in order, each once.  Bytes are dropped only by a write() that
\* fails, which it does on a full pipe.
IsFifo == Queue!FSpec

\* A reader sleeps only while the pipe is empty and can still be written, a
\* writer only while it is full and can still be read, so that they never all
\* wait for each other.  A killed writer may leave bytes behind and readers
\* asleep.
NoLostWakeup ==
  (\A p \in Procs : ~killed[p]) =>
    \A p \in Procs :
      pc[p] = "sleep" => IF p \in Readers THEN Empty /\ writeopen ELSE Full /\ readopen
=============================================================================
