------------------------------- MODULE MCXem -------------------------------
(***************************************************************************)
(* An instance of Xem: one group of threads on one semaphore.              *)
(***************************************************************************)
EXTENDS Xem

CONSTANT s1

OneBase == [s \in Sems |-> 10]
OneSem == [p \in Procs |-> s1]

\* What the states are told apart by.  Only the distances of count, of the
\* tickets still in line and of the sleepers' elements of arr from dcount make
\* a difference to any step, so that the threads can contend for ever.
Ahead(p) == IF chan[p] = 0 THEN SIZE ELSE (chan[p] - Slot(s1, dcount[s1])) % SIZE
InLine(p) == IF claim[p] = "queued" THEN ticket[p] - dcount[s1] ELSE 0
Seen == <<value, end, count[s1] - dcount[s1], [p \in Procs |-> <<Ahead(p), InLine(p)>>],
          pstate, phase, killed, claim>>
============================================================================
