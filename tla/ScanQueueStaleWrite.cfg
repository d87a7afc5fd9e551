\* A slow worker and a second one that starts late; nothing fails.
CONSTANTS
  Jobs = {j1}
  Workers = {w1, w2}
  None = None
  MaxCrashes = 0
  MaxDbErrors = 0
SPECIFICATION Spec
PROPERTIES
  StaleWriteIsNoOp
