CONSTANTS
  Kinds = {"pipeline_cycle"}
  Owners = {o1}
  Watchers = {w1}
  Remote = {o1}
  Alike = {}
  TTL = 2
  Punctual = {o1}
  MaxFaults = 0
SPECIFICATION Spec
INVARIANTS
  HeldThroughout
