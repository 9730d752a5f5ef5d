CONSTANTS
  Articles = {1}
  Loop = loop
  ApiKicks = {}
  CliKicks = {}
  Cycles = {c1}
  Drains = {loop, c1}
  Healers = {loop}
  Foreign = {c1}
  Slots = {1}
  Legacy = {}
  BatchSize = 1
  MaxArticles = 0
  MaxAging = 1
  MaxCrashes = 1
  MaxTransient = 0
  MaxDbErrors = 1
  MaxOps = 0
  MaxRestarts = 1
  MaxRaises = 1
SPECIFICATION AutoFair
PROPERTIES
  Drained
