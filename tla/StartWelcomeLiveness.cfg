\* Every call is settled and the newest /start answered although a worker crashes.
SPECIFICATION FairStartSpec
CONSTANTS
  Updates = {1, 2}
  MaxMessages = 5
  Calls <- FollowedCalls
  Requeuable = {}
  Welcomes <- StartWelcomes
  Workers = {w1, w2}
  Limits = {2}
  ClaimTTL = 1
  MaxCrashes = 1
  None = None
PROPERTIES
  NewestStartAnswered
  CallsSettle
CHECK_DEADLOCK FALSE
