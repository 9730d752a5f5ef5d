CONSTANTS
  Articles = {1}
  Drains = {d1, d2}
  Slots = {1}
  Healers = {h1}
  Legacy = {}
  BatchSize = 1
  MaxArticles = 0
  MaxAging = 1
  MaxCrashes = 1
  MaxTransient = 1
  MaxDbErrors = 1
  MaxOps = 1
SPECIFICATION Spec
INVARIANTS
  TypeOK
  DoneHasOutput
PROPERTIES
  SweepSparesOwn
  LifecycleSafe
SYMMETRY Symmetry
