SPECIFICATION FairSpec
CONSTANTS
  t0 = t0
  t1 = t1
  t2 = t2
  First = 5
  NumOddSums = 4
  Inputs <- SharedOut
  Helpers = 2
  Answered <- Sparse
  GridThreads = {t0, t1, t2}
  Leader = t0
  Wrap = 16
  Marker = 3
  MaxLaunches = 2
  Faults = {"reset", "launch", "sync"}
INVARIANTS
  ChunksTile
  DrawnOnce
PROPERTIES
  ImplementsSearch
