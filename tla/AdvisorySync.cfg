\* Four runs in any overlap, in batches of two, over three ids and four exports.
CONSTANTS
  Runs = {r1, r2, r3, r4}
  Ids = {"a", "b", "c"}
  v1 = v1
  v2 = v2
  v3 = v3
  Versions = {v1, v2, v3}
  Columns <- MCColumns
  Values = {1, 2}
  Field <- MCField
  Exports <- MCExports
  CommitEvery = 2
  None = None
SYMMETRY Symmetry
SPECIFICATION Spec
INVARIANTS
  TypeOK
  DoneMeansSynced
  CrashLosesABatch
  WritesAreNeeded
  MixedOnlyByOverlap
