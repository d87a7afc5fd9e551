\* Three deliveries for two pushes, three lockfiles, two of, somebody else's comment,
\* and pages for two comments.
CONSTANTS
  Tasks = {t1, t2, t3}
  Lockfiles = {l1, l2, l3}
  Heads <- MCHeads
  MaxLockfiles = 2
  MaxListed = 2
  MaxPushes = 2
  MaxComments = 1
SPECIFICATION Spec
SYMMETRY Symmetry
INVARIANTS
  TypeOK
  DuplicatesOnlyFromRaces
  ReportsAreWhole
  ReportsJoinTwoHeads
PROPERTIES
  DuplicatesAreFrozen
