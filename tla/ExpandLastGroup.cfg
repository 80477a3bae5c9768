SPECIFICATION Spec
CONSTANTS
  t1 = t1
  t2 = t2
  MapBytes = 14
  SlabBytes = 32
  TileBytes = 16
  Threads = {t1, t2}
  Faults = {"arena"}
INVARIANTS
  WritesStayInWindow
