SPECIFICATION MoneySpec
CONSTANTS
  m1 = m1
  p1 = p1
  p2 = p2
  i1 = i1
  k1 = k1
  w1 = w1
  w2 = w2
  a1 = a1
  a2 = a2
  d1 = d1
  Milestones <- OneMilestone
  Providers <- TwoProviders
  Intents <- OneIntent
  IntentOf <- IntentsOfOne
  IntentProvider <- ThroughOne
  Keys <- OneKey
  KeyOf <- KeysOfOne
  KeyProvider <- KeysThroughOne
  Amount <- AmountFive
  CommissionBps = 2000
  Overlap = FALSE
  LateCapture = FALSE
  DecisionKeys <- OneDecision
  PayoutKeys <- TwoPayouts
  PayoutProvider <- PayoutEach
  PayoutAmount <- PayoutsTwoThree
  Accounts <- TwoAccounts
  PayoutOverlap = FALSE
INVARIANTS
  WalletNeverNegative
  WalletAccounted
  ClearingAccounted
  PayoutHasPaid
PROPERTIES
  NotRedirected
CHECK_DEADLOCK FALSE
