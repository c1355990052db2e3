SPECIFICATION Spec
CONSTANTS
  Procs = {p1, p2}
  Blocks = {b1, b2, b3, b4}
  Vals = {v1, v2}
  LOGSIZE = 4
  MAXOPBLOCKS = 2
  OpBlocks = 2
  None = None
  NLOG = 4
SYMMETRY Symmetry
INVARIANTS
  DurableWhenQuiet
  PinnedUntilInstalled
  SleeperHasReason
PROPERTIES
  AtomicSpec
