SPECIFICATION Spec
CONSTANTS
  Inos = {1, 2}
  NDIRECT = 1
  NINDIRECT = 2
  FSSIZE = 18
  nmeta = 1
  BPB = 6
  MAXOPBLOCKS = 8
  max = 1
  Writes <- WritesDeep
  Reads <- ReadsDeep
  Reach = 11
  Beyond = {0}
  MaxLost = 4
  Sizes <- Images
INVARIANTS FitsInOp BitmapExact ReadsBack
