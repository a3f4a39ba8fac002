CONSTANTS
  f1 = f1
  f2 = f2
  good = good
  bad = bad
  large = large
  w1 = w1
  w2 = w2
  Files <- MCFileSet
  Contents <- MCContents
  Infected <- MCInfected
  Misfits <- MCMisfits
  Evidence <- MCEvidence
  Workers <- MCWorkers
  MaxFaults = 1
SPECIFICATION FilesSpec
INVARIANTS
  UsedWasScanned
PROPERTIES
  VerdictIsFinal
  VerdictReached
CHECK_DEADLOCK FALSE
