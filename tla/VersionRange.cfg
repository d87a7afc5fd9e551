\* Every list of up to three events, and pairs of shorter ones, over three versions.
CONSTANTS
  Versions <- MCVersions
  Packages <- MCPackages
  Junk = Junk
  Zero = Zero
  None = None
SPECIFICATION Spec
INVARIANTS
  TypeOK
  MatchesByIntervals
  MinimalSafeUpgrade
  UpgradeIfAnyFix
