\* One worker, killed once and started again, under fairness.
CONSTANTS
  Jobs = {j1}
  Workers = {w1}
  None = None
  MaxCrashes = 1
  MaxDbErrors = 0
SPECIFICATION FairSpec
PROPERTIES
  OrphanIsRecovered
