SPECIFICATION HiringSpec
CONSTANTS
  f1 = f1
  f2 = f2
  r1 = r1
  r2 = r2
  Freelancers <- TwoFreelancers
  Requests <- TwoRequests
  MaxVersion = 2
PROPERTIES
  TransitionsEnforced
CHECK_DEADLOCK FALSE
