SPECIFICATION Spec
CONSTANTS
  BytesPerThread = 8
  ThreadsPerBlock = 2
  BlocksPerSubBlock = 2
  Stages = 2
  SmallPrimeCut = 12
  Span = 1376
  Slabs <- SlabsOfMap
  R = 4096
  Magic = 2185
  SlabSizeBytes = 32
  Top = 2800
INVARIANTS
  SlabIsSieved
  WordsHaveOneOwner
  MapTellsPrimes
  MillerRabinTellsPrimes
