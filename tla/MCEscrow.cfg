SPECIFICATION FairSpec
CONSTANTS
  m1 = m1
  p1 = p1
  i1 = i1
  i2 = i2
  k1 = k1
  k2 = k2
  d1 = d1
  d2 = d2
  Milestones <- OneMilestone
  Providers <- OneProvider
  Intents <- TwoIntents
  IntentOf <- IntentsOfOne
  IntentProvider <- ThroughOne
  Keys <- TwoKeys
  KeyOf <- KeysOfOne
  KeyProvider <- KeysThroughOne
  Amount <- AmountTwo
  CommissionBps = 5000
  Overlap = FALSE
  LateCapture = FALSE
  DecisionKeys <- TwoDecisions
INVARIANTS
  EscrowMatchesStatus
  CapturedMoneyAccounted
  RefundsOfDistinctPayments
  CancelledIsEmpty
  ProviderHasPaid
  DecisionRefundWasPaid
  FreelancerPaidOnce
  FreezeExcludesRelease
PROPERTIES
  RefundCommitsOnce
  ImplementsBox
  RefundSettles
  CapturedReachesEscrow
CHECK_DEADLOCK FALSE
