-------------------------------- MODULE MCVm ---------------------------------
(***************************************************************************)
(* An instance of Vm for TLC: programs with one thread and little memory,  *)
(* the same without sbrk and room for three processes, a process with two  *)
(* LWPs that come and go, and one with three that create each other.       *)
(***************************************************************************)
EXTENDS Vm

Steps == {1, -1}
Work(calls, pages, slots) == [calls |-> calls, pages |-> pages, NPROC |-> slots]
Programs ==
  {Work({"fork", "exec", "sbrk", "exit"}, 15, 4),
   Work({"fork", "exec", "exit"}, 19, 4),
   Work({"exec", "thread_create", "thread_exit", "thread_join", "exit"}, 19, 4),
   Work({"thread_create", "thread_exit", "thread_join"}, 20, 5)}
=============================================================================
