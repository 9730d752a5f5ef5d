CONSTANTS
  Articles = {1}
  Loop = loop
  ApiKicks = {k1}
  CliKicks = {}
  Cycles = {c1}
  Drains = {loop, k1, c1}
  Healers = {loop, k1}
  Foreign = {c1}
  Slots = {1}
  Legacy = {}
  BatchSize = 1
  MaxArticles = 0
  MaxAging = 0
  MaxCrashes = 1
  MaxTransient = 0
  MaxDbErrors = 0
  MaxOps = 0
  MaxRestarts = 1
  MaxRaises = 1
SPECIFICATION AutoSpec
INVARIANTS
  AutoTypeOK
  GuardExact
  LeaseNotForgotten
  OneDrainEach
