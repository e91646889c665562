\* Two /start messages, two workers.
SPECIFICATION StartSpec
CONSTANTS
  Updates = {1, 2}
  MaxMessages = 3
  Calls <- FollowedCalls
  Requeuable = {}
  Welcomes <- StartWelcomes
  Workers = {w1, w2}
  Limits = {2}
  ClaimTTL = 1
  MaxCrashes = 1
  None = None
SYMMETRY WorkerSymmetry
INVARIANTS
  WelcomesAccounted
  SentMeansAnswered
CHECK_DEADLOCK FALSE
