SPECIFICATION FairSpec
CONSTANTS
  s1 = s1
  Procs = {p1, p2, p3, p4}
  Sems = {s1}
  Base <- OneBase
  SemOf <- OneSem
  SIZE = 4
  InitValue = 1
  MaxCount = 50
  KillOn = TRUE
VIEW Seen
CHECK_DEADLOCK FALSE
INVARIANTS MutualExclusion NoLostWakeup IInv
PROPERTIES PostWakesOldest WaiterGetsIn
