CONSTANTS
  client = client
  freelancer = freelancer
  t1 = t1
  t2 = t2
  w1 = w1
  w2 = w2
  Members <- MCMembers
  Roles <- MCPageRoles
  Threads <- MCThreads
  Workers <- MCWorkers
  MaxMessages = 1
  PageSize = 2
  MaxFaults = 0
SPECIFICATION PageSpec
PROPERTY ShownInTheEnd
CHECK_DEADLOCK FALSE
