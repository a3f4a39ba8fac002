CONSTANTS
  client = client
  freelancer = freelancer
  c1 = c1
  c2 = c2
  Members <- MCMembers
  Calls <- MCCallSet
  MaxFaults = 0
SPECIFICATION CallsSpec
PROPERTY EndedIsLeft
CHECK_DEADLOCK FALSE
