SPECIFICATION FairSpec
CONSTANTS
  d1 = d1
  d2 = d2
  Homeless = Homeless
  NoDevice = NoDevice
  NoSlab = NoSlab
  Devices = {d1, d2}
  NumSlabs = 4
  Cap <- Cap22
  OwnerOf <- OwnerMixed4
  ResidencyDev = d1
  Faults = {"alloc", "contig", "compute", "wait", "enqueue", "copy"}
INVARIANTS
  TypeOK
  SuccessIsComplete
  NoCopyBeforeSieve
  HandOffIsFinal
  NoFreeUnderCopy
PROPERTIES
  ImplementsPromise
  QuietAfterReturn
