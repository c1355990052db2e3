SPECIFICATION FairSpec
CONSTANTS
  Procs = {p1, p2, p3}
  Sems <- RWSems
  Base <- RWBase
  SIZE = 3
  InitValue = 1
  MaxCount = 50
  MaxKills = 1
CHECK_DEADLOCK FALSE
VIEW Seen
INVARIANTS RWExclusion ReadersCounted
PROPERTIES NoneEntersAfterExit ReaderGetsIn
