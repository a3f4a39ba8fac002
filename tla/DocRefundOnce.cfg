SPECIFICATION Spec
CONSTANTS
  m1 = m1
  p1 = p1
  i1 = i1
  i2 = i2
  k1 = k1
  k2 = k2
  d1 = d1
  d2 = d2
  Milestones <- OneMilestone
  Providers <- OneProvider
  Intents <- TwoIntents
  IntentOf <- IntentsOfOne
  IntentProvider <- ThroughOne
  Keys <- OneKey
  KeyOf <- KeysOfOne
  KeyProvider <- KeysThroughOne
  Amount <- AmountThree
  CommissionBps = 4000
  Overlap = TRUE
  LateCapture = FALSE
  DecisionKeys <- OneDecision
PROPERTIES
  RefundCommitsOnce
CHECK_DEADLOCK FALSE
