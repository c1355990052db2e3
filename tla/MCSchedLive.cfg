SPECIFICATION FairSpec
CONSTANTS
  NCPU = 1
  NPROC = 2
  Ticks = 1
  KillOn = TRUE
PROPERTIES RunnableRuns SleepEnds
