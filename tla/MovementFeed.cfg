\* Two writers, and a reader who may be demoted between two pages.
SPECIFICATION Spec
CONSTANTS
  Writers = {"w1", "w2"}
  Author <- EngAndOwn
  Moved <- OneForEach
  Items = {1, 2}
  LongItems = {1, 2}
  Reader = "eng"
  ReaderRoles = {"ENGINEER", "SENIOR_ENGINEER"}
  Asks <- SomeAsks
  Limit = 1
  Period = 2
  CursorTTL = 2
  XidWidth = 16
  MaxClock = 3
  MaxTurns = 1
  None = None
PROPERTIES
  PagingEnds
INVARIANTS
  FeedIsSnapshot
  PagesStay
CHECK_DEADLOCK FALSE
