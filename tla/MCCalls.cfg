CONSTANTS
  client = client
  freelancer = freelancer
  c1 = c1
  c2 = c2
  Members <- MCMembers
  Calls <- MCCallSet
  MaxFaults = 1
SPECIFICATION CallsSpec
SYMMETRY MCSymmetry
INVARIANTS
  OneLiveCall
  ConnectedToPeer
PROPERTIES
  CallAdvances
CHECK_DEADLOCK FALSE
