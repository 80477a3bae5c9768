SPECIFICATION Spec
CONSTANTS
  d1 = d1
  d2 = d2
  Homeless = Homeless
  NoDevice = NoDevice
  NoSlab = NoSlab
  Devices = {d1, d2}
  NumSlabs = 3
  Cap <- Cap21
  OwnerOf <- OwnerMixed3
  ResidencyDev = d2
  Faults = {"alloc", "contig", "stream", "event", "compute", "record", "wait", "enqueue", "copy", "fence"}
INVARIANTS
  AllPulledOnce
  NothingLeaks
  SoleProducer
