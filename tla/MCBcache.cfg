SPECIFICATION FairSpec
CONSTANTS
  Procs = {p1, p2}
  Bufs = {b1, b2}
  Blocks = {1, 2, 3}
  Vals = {v1, v2}
  None = None
  LOGSIZE = 1
  MaxHeld = 2
INVARIANTS
  OneBufPerBlock
  HolderSeesLatest
  NoneSleepsOnFree
PROPERTIES
  IderwEnds
