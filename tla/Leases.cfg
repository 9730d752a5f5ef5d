CONSTANTS
  Kinds = {"auto_drain", "pipeline_cycle", "scheduled_scrape"}
  Owners = {o1, o2, o3}
  Watchers = {w1}
  Remote = {o3, w1}
  Alike = {o1, o3}
  TTL = 2
  Punctual = {o1, o2}
  MaxFaults = 1
SPECIFICATION FairSpec
INVARIANTS
  TypeOK
  MutualExclusion
PROPERTIES
  LeaseRespected
  TakenAgain
