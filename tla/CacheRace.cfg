SPECIFICATION CacheSpec
CONSTANTS
  d1 = d1
  d2 = d2
  d3 = d3
  amd = amd
  nvidia = nvidia
  NoDevice = NoDevice
  Devices = {d1, d2}
  Units = {amd, nvidia}
  Calls = 2
  Faults = {"malloc", "copy"}
INVARIANTS
  KernelsReadTheirPrimes
