SPECIFICATION ProviderFairSpec
CONSTANTS
  Keys = {k1, k2}
  None = None
  MaxFaults = 2
INVARIANTS
  StatusIsTrue
  ChargedOnce
PROPERTIES
  DriftFound
