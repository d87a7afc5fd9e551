\* Two deliveries for two pushes.
CONSTANTS
  Tasks = {t1, t2}
  Lockfiles = {l1}
  Heads <- MCHeads
  MaxLockfiles = 1
  MaxListed = 2
  MaxPushes = 2
  MaxComments = 0
SPECIFICATION Spec
SYMMETRY Symmetry
INVARIANTS
  SingleComment
