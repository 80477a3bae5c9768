SPECIFICATION Spec
CONSTANTS
  Buses = {"01", "02", "03"}
  Machines <- TheMachines
  MaxDevices = 2
  Slots = 2
  MaxForces = 1
INVARIANTS
  ReachesItsCard
  BuffersKeepTheirDevice
  CallsReachTheirObjects
