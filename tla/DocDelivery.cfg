SPECIFICATION SearchFairSpec
CONSTANTS
  profile1 = profile1
  profile2 = profile2
  review = review
  item = item
  w1 = w1
  w2 = w2
  ColumnEdits <- TwoColumnEdits
  RowEdits <- TwoRowEdits
  Workers <- OneWorker
  MaxFaults = 0
PROPERTIES
  EventDelivered
CHECK_DEADLOCK FALSE
