CONSTANTS
  Loops = {l1}
  Commands = {c1}
  Served = {l1}
  Requests = {1}
  Foreign = {c1}
  Interval = 2
  Limit = 1
  AdminLimit = 2
  MaxFaults = 1
SPECIFICATION FairSpec
INVARIANTS
  TypeOK
PROPERTIES
  OncePerInterval
  CountTold
  RunsAgain
CHECK_DEADLOCK FALSE
