SPECIFICATION FairSpec
CONSTANTS
  Tokens <- MCTokens
  MaxArgs = 4
  Files <- MCFiles
  Size <- MCSize
  Fraction <- MCFraction
  Number <- MCNumber
  FractionSpec <- MCFractionSpec
  WeightSpec <- MCWeightSpec
  HostAuto = 60
  Machines <- MCMachines
  SlabDefault = 16
  Granularity = 4
  Headroom = 8
  ScratchCap = 12
INVARIANTS
  BudgetKept
  PlanIsLegal
  CapsFollowWeights
  RegionsLineUp
PROPERTIES
  Terminates
