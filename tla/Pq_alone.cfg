CONSTANTS
  Articles = {1, 2}
  Drains = {d1}
  Slots = {1, 2}
  Healers = {h1}
  Legacy = {1}
  BatchSize = 1
  MaxArticles = 1
  MaxAging = 0
  MaxCrashes = 1
  MaxTransient = 1
  MaxDbErrors = 1
  MaxOps = 1
SPECIFICATION Spec
INVARIANTS
  BatchOvershoot
  ExclusiveClaim
  InFlightCounted
PROPERTIES
  CountedOnce
  DecisionSticks
