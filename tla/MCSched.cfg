SPECIFICATION Spec
CONSTANTS
  NCPU = 2
  NPROC = 2
  Ticks = 1
  KillOn = TRUE
INVARIANTS OneStack NoPanic InterruptDiscipline
