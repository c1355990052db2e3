SPECIFICATION Spec
CONSTANTS
  CPUs = {c1, c2}
  NPROC = 4
  MaxPid = 4
  Workloads = {{"fork", "exit", "kill", "nomem", "yield"},
               {"thread_create", "thread_exit", "thread_join", "nomem"},
               {"thread_create", "thread_exit", "thread_join"}}
INVARIANTS
  NoOrphans
  NoLostExit
  KstackAccounting
  OnCpu
