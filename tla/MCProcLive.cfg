SPECIFICATION FairSpec
CONSTANTS
  CPUs = {c1}
  NPROC = 3
  MaxPid = 4
  Workloads = {{"fork", "exit", "kill"},
               {"thread_create", "thread_exit", "thread_join", "exit", "kill", "nomem", "thread exit()"}}
CHECK_DEADLOCK FALSE
PROPERTIES
  ZombiesReaped
  KilledDies
