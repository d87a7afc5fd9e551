\* Three calls, two attempts each, and a bucket of one and a half tokens.
CONSTANTS
  Requests = {r1, r2, r3}
  Cost = 2
  Capacity = 3
  MaxAttempts = 2
SPECIFICATION FairSpec
INVARIANTS
  TypeOK
  AttemptsAreExact
PROPERTIES
  RateLimited
  RequestEnds
