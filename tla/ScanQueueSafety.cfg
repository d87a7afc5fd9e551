\* Two scans, two workers, one kill and one refused statement.
CONSTANTS
  Jobs = {j1, j2}
  Workers = {w1, w2}
  None = None
  MaxCrashes = 1
  MaxDbErrors = 1
SPECIFICATION Spec
SYMMETRY Symmetry
INVARIANTS
  TypeOK
  RowConsistent
  ClaimIsExclusive
  SoleRunnerUnlessReclaimed
  RunningIsHeldOrOrphaned
  NoOvertaking
PROPERTIES
  AnswerIsFinal
  JobLifecycle
