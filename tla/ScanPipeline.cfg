\* Three scans on one event loop and a cold cache, over two days, in batches of two.
CONSTANTS
  s1 = s1
  s2 = s2
  Scans = {s1, s2, s3}
  a = a
  b = b
  Keys = {a, b}
  v1 = v1
  v2 = v2
  v3 = v3
  Vulns = {v1, v2, v3}
  c1 = c1
  c2 = c2
  c3 = c3
  CVEs = {c1, c2, c3}
  None = None
  MaxDay = 1
  Lockfile <- MCLockfile
  Hits <- MCHits
  Affected <- MCAffected
  Severity <- MCSeverity
  Aliases <- MCAliases
  Epss <- MCEpss
  Kev <- MCKev
  BatchSize = 2
SPECIFICATION PipelineFairSpec
INVARIANTS
  PipelineTypeOK
  NoStampede
  ReportIsComplete
  RankedByRisk
PROPERTIES
  ScansAreAtomic
  EveryScanSettles
