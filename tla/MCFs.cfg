SPECIFICATION Spec
CONSTANTS
  p1 = p1
  p2 = p2
  None = None
  Procs = {p1, p2}
  initproc = p1
  NINODES = 3
  NOFILE = 2
  MaxSize = 1
  Names = {"a", "b"}
  Workloads <- Programs
INVARIANTS RefExact NoDangling LinksCovered CrossOnlyInPut
CHECK_DEADLOCK FALSE
