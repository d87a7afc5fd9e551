\* One worker, and one UPDATE that the database refuses.
CONSTANTS
  Jobs = {j1}
  Workers = {w1}
  None = None
  MaxCrashes = 0
  MaxDbErrors = 1
SPECIFICATION Spec
PROPERTIES
  JobNeverKillsLoop
