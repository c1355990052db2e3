------------------------------ MODULE MCRWLock ------------------------------
(***************************************************************************)
(* An instance of RWLock, with the addresses of the two semaphores.        *)
(***************************************************************************)
EXTENDS RWLock

RWSems == {"lk", "writelock"}
RWBase == [s \in RWSems |-> IF s = "lk" THEN 10 ELSE 20]

\* What the states are told apart by: only the distance of count and dcount,
\* and of a sleeper's element of arr from the one that is woken next, makes a
\* difference to any step, so that the threads can contend for ever.
Ahead(p, s) == IF chan[p] \in Base[s] .. Base[s] + SIZE - 1
                 THEN (chan[p] - Slot(s, dcount[s])) % SIZE ELSE SIZE
Seen == <<value, end, [s \in Sems |-> count[s] - dcount[s]],
          [p \in Procs |-> [s \in Sems |-> Ahead(p, s)]], pstate, readers, pc, killed>>
=============================================================================
