\* Four findings and two retries, with and without a drafter.
CONSTANTS
  Findings = {f1, f2, f3, f4}
  MaxRetries = 2
SPECIFICATION Spec
SYMMETRY Symmetry
INVARIANTS
  TypeOK
  EachFindingOnce
  VerifiedStillPasses
  DroppedOnlyForForeignCitations
  SpendBounded
  SuperstepsBounded
