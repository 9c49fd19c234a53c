\* Two callers; tokens that expire, rotations and reviews that fail, rights that are taken away.
SPECIFICATION Spec
CONSTANTS
  Callers = {p1, p2}
  None = none
  Lifetime = 1
  ExpiryDelta = 0
  Leeway = 0
  PruneAge = 1
  SuccessTTL = 2
  FailureTTL = 1
  AllowCacheTTL = 2
  DenyCacheTTL = 1
  MaxTime = 3
  MaxTokens = 2
  MaxSources = 2
SYMMETRY Symmetry
INVARIANTS
  TypeOK
  LockHeldByFetcher
PROPERTIES
  ResetTakesTheRejected
  RotatedWhenDue
  LetInOnRecentProof
CHECK_DEADLOCK FALSE
