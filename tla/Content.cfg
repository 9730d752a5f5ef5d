CONSTANTS
  x1 = x1
  x2 = x2
  y1 = y1
  y2 = y2
  z1 = z1
  z2 = z2
  z3 = z3
  p1 = p1
  p2 = p2
  p3 = p3
  u1 = u1
  u2 = u2
  u3 = u3
  Runs = {x1, x2}
  Ids = {y1, y2}
  Urls = {z1, z2, z3}
  MaxTargets = 3
  Total = 2
  PerMax = 2
  Listings <- MCListings
  Topics <- MCTopics
  ValidTopics = {"general", "world"}
  PageUrls = {p1, p2, p3}
  HostOf <- MCHostOf
  Links <- MCLinks
  Limit = 2
  PerSite = 2
  MaxTotal = 3
  Calls = 2
  MaxRuns = 2
  MaxOthers = 1
  Cats = {"news", "tech"}
  Subs = {"local"}
  Defaults <- MCDefaults
  Slugs = {"dawn", "bbc", "new"}
  FeedUrls = {u1, u2, u3}
  Catalog <- MCCatalog
  Editors = {x1, x2}
  MaxEdits = 3
  Unit = 10
  Threshold = 6
  LocalThreshold = 5
  Sources <- MCSources
  Shapes <- MCShapes
  Checks <- MCSources
  Docs = {a1}
  Numbers <- MCShapes
  N = 3
  Clients = {r1}
  Feeds = {"home", "category", "search"}
  PageSize = 1
  Batch = 2
  MaxChanges = 2
  MaxPages = 3
  MaxSecond = 3
SPECIFICATION ContentSpec
SYMMETRY Symmetry
INVARIANTS
  ContentTypeOK
  FairKept
  PagesExact
  RealBacked
  NoLimbo
  RunKept
  FactSound
PROPERTIES
  FreshCache
  EditsLocal
CHECK_DEADLOCK FALSE
