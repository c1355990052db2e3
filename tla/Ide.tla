--------------------------------- MODULE Ide ---------------------------------
(***************************************************************************)
(* The disk driver (ide.c): the queue of buffers, the request that the     *)
(* controller is working on, and the processes that sleep in iderw.  Each  *)
(* action is one critical section of idelock.                              *)
(***************************************************************************)
EXTENDS Integers, Sequences, FiniteSets

CONSTANTS Procs, Bufs, Blocks, Vals, None

VARIABLES
  flags, blockno, data,   \* of struct buf; blockno is None in a new buffer
  idequeue,
  ctl,                    \* the request of the controller, or None
  disk,
  ioSleep                 \* the buffer whose address p sleeps on, or None

ideVars == <<idequeue, ctl, disk, ioSleep>>

VALID == "B_VALID"
DIRTY == "B_DIRTY"

\* The command that idestart writes to the ports, with the data of a write.
idestart(b, fl) ==
  [buf |-> b, block |-> blockno[b], done |-> FALSE, data |-> data[b],
   cmd |-> IF DIRTY \in fl THEN "write" ELSE "read"]

\* Appends b, starts the disk if necessary, and sleeps: the request cannot
\* have finished before idelock is given up.
iderw(p, b) ==
  /\ ~(VALID \in flags[b] /\ DIRTY \notin flags[b])
  /\ idequeue' = Append(idequeue, b)
  /\ ctl' = IF idequeue = <<>> THEN idestart(b, flags[b]) ELSE ctl
  /\ ioSleep' = [ioSleep EXCEPT ![p] = b]
  /\ UNCHANGED <<flags, data, disk>>

\* The test of iderw's loop after a wakeup.
IderwDone(p, b) ==
  /\ ioSleep[p] = None
  /\ VALID \in flags[b] /\ DIRTY \notin flags[b]
  /\ UNCHANGED <<flags, data, ideVars>>

\* The disk carries out its request and raises the interrupt.
Transfer ==
  /\ ctl # None /\ ~ctl.done
  /\ disk' = IF ctl.cmd = "write" THEN [disk EXCEPT ![ctl.block] = ctl.data] ELSE disk
  /\ ctl' = [ctl EXCEPT !.done = TRUE,
                        !.data = IF ctl.cmd = "read" THEN disk[ctl.block] ELSE @]
  /\ UNCHANGED <<flags, data, idequeue, ioSleep>>

MutIdeintr ==
  LET b == Head(idequeue)  last == Len(idequeue) = 1 IN
  /\ ctl # None /\ ctl.done
  /\ idequeue' = IF last THEN <<>> ELSE idequeue
  /\ data' = IF ~last \/ DIRTY \in flags[b] THEN data ELSE [data EXCEPT ![b] = ctl.data]
  /\ flags' = IF last THEN [flags EXCEPT ![b] = (@ \cup {VALID}) \ {DIRTY}] ELSE flags
  /\ ioSleep' = [q \in Procs |-> IF last /\ ioSleep[q] = b THEN None ELSE ioSleep[q]]
  /\ ctl' = IF last THEN None ELSE idestart(b, flags[b])
  /\ UNCHANGED disk

\* The first queued buffer is the active request: it gets the data of a read,
\* its process is woken, and the next request is started.
ideintr ==
  LET b == Head(idequeue)  rest == Tail(idequeue) IN
  /\ ctl # None /\ ctl.done
  /\ idequeue' = rest
  /\ data' = IF DIRTY \in flags[b] THEN data ELSE [data EXCEPT ![b] = ctl.data]
  /\ flags' = [flags EXCEPT ![b] = (@ \cup {VALID}) \ {DIRTY}]
  /\ ioSleep' = [q \in Procs |-> IF ioSleep[q] = b THEN None ELSE ioSleep[q]]
  /\ ctl' = IF rest = <<>> THEN None ELSE idestart(Head(rest), flags[Head(rest)])
  /\ UNCHANGED disk
=============================================================================
