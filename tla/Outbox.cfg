\* Two workers, crashes, requeues and retention.
SPECIFICATION Spec
CONSTANTS
  Calls = {c1, c2}
  Requeuable = {c1}
  Welcomes = {c2}
  Workers = {w1, w2}
  Limits = {1, 2}
  ClaimTTL = 2
  MaxCrashes = 1
  None = None
INVARIANTS
  SentMeansDelivered
PROPERTIES
  UnexpiredClaimsKept
