SPECIFICATION FairSpec
CONSTANTS
  a = a
  n1 = n1
  n2 = n2
  None = None
  AllDevices <- Machine
  Vendor <- Vendors
  Backing <- Backings
  Fits = {n1, n2}
  Slabs = {s1, s2, s3}
  HostTier = 2
  Configs <- CommandLines
  Sums = {3, 7, 8}
  Faults = {"enumerate", "prepare", "sieve", "open", "init", "alloc", "memset", "launch", "d2h"}
INVARIANTS
  InputOutlivesKernel
  KernelReadsFilledMap
  RightLayout
  FreedOnce
PROPERTIES
  ImplementsSearch
