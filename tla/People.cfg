CONSTANTS
  x1 = x1
  x2 = x2
  y1 = y1
  y2 = y2
  t1 = t1
  t2 = t2
  Emails = {e1}
  NoOne = NoOne
  Workers = {x1, x2}
  Ops = {"login", "verify", "contact", "check", "confirm", "password", "sendlogin", "sendverify", "resend", "sendcontact", "sendreset", "register", "token"}
  MaxAttempts = 2
  MaxFailures = 2
  MaxRequests = 3
  MaxLapses = 1
  Readers = {r1}
  Admins = {m1}
  Articles = {a1, a2}
  Keywords = {y1, y2}
  Threads = {x1, x2}
  Window = 1
  CutOff = 1
  PruneLimit = 1
  MaxLegacy = 2
  MaxNow = 2
  MaxEvents = 3
  Reporters = {u1}
  Stories = {s1}
  NoStory = NoStory
  Categories = {"other"}
  Handlers = {x1, x2}
  RateLimit = 2
  DedupeHours = 1
  LastHour = 2
  MaxPosts = 3
  MaxReviews = 1
  Askers = {x1, x2}
  Listers = {y1, y2}
  Crews <- MCCrews
  Legacy <- MCLegacy
  Ids = {1, 2, 3, 4}
  MaxMessages = 2
  MaxConvs = 1
  MaxDeaths = 1
  Messages <- MCMessages
  OffTerms = {"joke"}
  Filler = {"mate"}
  Anchors = {"pakistan"}
  Stock <- MCStock
  Models = 2
  MaxTurns = 3
SPECIFICATION PeopleSpec
SYMMETRY Symmetry
INVARIANTS
  PeopleTypeOK
  Backed
  GuessBound
  InboxHonest
  ReportLimits
  ConversationsKept
  AnswerKept
PROPERTIES
  WritesStick
  JobComplete
CHECK_DEADLOCK FALSE
