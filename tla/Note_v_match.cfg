CONSTANTS
  Readers = {r1}
  Admins = {}
  Articles = {a1}
  Keywords = {k1, k2}
  Threads = {t1}
  Window = 1
  CutOff = 1
  PruneLimit = 1
  MaxLegacy = 0
  MaxNow = 2
  MaxEvents = 3
SPECIFICATION NoteSpec
PROPERTY MatchNotified
CHECK_DEADLOCK FALSE
