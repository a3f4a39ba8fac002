CONSTANTS
  client = client
  freelancer = freelancer
  t1 = t1
  t2 = t2
  w1 = w1
  w2 = w2
  Members <- MCMembers
  Roles <- MCRoles
  Threads <- MCThreads
  Workers <- MCWorkers
  MaxMessages = 2
  PageSize = 2
  MaxFaults = 1
SPECIFICATION FairSpec
INVARIANTS
  SequencesGapFree
  ReadMeansReceipts
  AnnouncedOnce
PROPERTIES
  SentAsWritten
  RecipientNotified
CHECK_DEADLOCK FALSE
