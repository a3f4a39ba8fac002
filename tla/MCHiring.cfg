SPECIFICATION HiringSpec
CONSTANTS
  f1 = f1
  f2 = f2
  r1 = r1
  r2 = r2
  Freelancers <- TwoFreelancers
  Requests <- TwoRequests
  MaxVersion = 3
INVARIANTS
  VersionsGapFree
  AcceptedHasContract
  ContractIsSound
SYMMETRY Symmetry
CHECK_DEADLOCK FALSE
