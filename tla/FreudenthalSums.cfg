SPECIFICATION TestSpec
CONSTANTS
  SumLimit = 257
  TestedSums <- OddSums
  Idle = Idle
INVARIANTS
  VerdictIsTheRiddles
  PrimesLast
  TablesSuffice
PROPERTIES
  TrialsAreRight
