----------------------------- MODULE AtomicLog ------------------------------
(***************************************************************************)
(* What the logging layer promises the file system: system calls see and   *)
(* change the current contents of the blocks, and the contents that a      *)
(* crash leaves are those at some moment when no system call was in        *)
(* progress.  So a system call survives a crash whole or not at all.  The  *)
(* promise ends when more is logged than the log has room for.             *)
(***************************************************************************)
CONSTANTS Procs, Blocks, Vals

VARIABLES
  current,   \* the contents that system calls read and write
  durable,   \* the contents after a crash and a restart
  active,    \* processes between begin_op and end_op
  overrun    \* the log was written past its end

avars == <<current, durable, active, overrun>>

AInit ==
  /\ current \in [Blocks -> Vals]
  /\ durable = current
  /\ active = {}
  /\ overrun = FALSE

ABegin(p) == p \notin active /\ active' = active \cup {p} /\ UNCHANGED <<current, durable, overrun>>

AWrite(p, b, v) ==
  /\ p \in active
  /\ current' = [current EXCEPT ![b] = v]
  /\ UNCHANGED <<durable, active, overrun>>

AEnd(p) == p \in active /\ active' = active \ {p} /\ UNCHANGED <<current, durable, overrun>>

ACommit == active = {} /\ durable' = current /\ UNCHANGED <<current, active, overrun>>

ACrash == current' = durable /\ active' = {} /\ UNCHANGED <<durable, overrun>>

AOverrun == active = {} /\ overrun' = TRUE

ANext ==
  \/ \E p \in Procs : ABegin(p) \/ AEnd(p) \/ \E b \in Blocks, v \in Vals : AWrite(p, b, v)
  \/ ACommit
  \/ ACrash
  \/ AOverrun

ASpec == AInit /\ [][ANext]_avars
=============================================================================
