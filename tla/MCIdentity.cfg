SPECIFICATION IdentitySpec
CONSTANTS
  r1 = r1
  r2 = r2
  s1 = s1
  s2 = s2
  Requests <- TwoRequests
  Sessions <- TwoSessions
  MaxFailures = 3
  CodeNumbers = {1}
  MaxTokens = 3
  MaxSeeds = 2
  MaxBatches = 2
INVARIANTS
  LockedInTime
  RecoveryUsedOnce
PROPERTIES
  RevokedIsFinal
SYMMETRY Symmetry
CHECK_DEADLOCK FALSE
