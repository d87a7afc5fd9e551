\* Two workers that may start late, one of which may be killed, under fairness.
CONSTANTS
  Jobs = {j1, j2}
  Workers = {w1, w2}
  None = None
  MaxCrashes = 1
  MaxDbErrors = 0
SPECIFICATION FairSpec
PROPERTIES
  PendingIsClaimed
  SettledOrOrphaned
