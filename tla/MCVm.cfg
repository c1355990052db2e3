SPECIFICATION Spec
CONSTANTS
  KERNBASE = 8
  NPTE = 4
  Image = {1}
  NCPU = 2
  Sbrk <- Steps
  Workloads <- Programs
INVARIANTS LiveSpace PagesAccounted StackMapped
CHECK_DEADLOCK FALSE
