CONSTANTS
  N = 3
  Clients = {r1}
  Feeds = {"home"}
  PageSize = 1
  Batch = 3
  MaxChanges = 0
  MaxPages = 3
  MaxSecond = 3
SPECIFICATION FeedSpec
INVARIANTS
  EndReached
CHECK_DEADLOCK FALSE
