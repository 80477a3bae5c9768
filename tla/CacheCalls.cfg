SPECIFICATION SerialSpec
CONSTANTS
  d1 = d1
  d2 = d2
  d3 = d3
  amd = amd
  nvidia = nvidia
  NoDevice = NoDevice
  Devices = {d1, d2, d3}
  Units = {amd, nvidia}
  Calls = 3
  Faults = {"malloc", "copy"}
INVARIANTS
  LoneDeviceKeepsItsPrimes
  MisledByFailedUploadOnly
  OneBlockHeld
