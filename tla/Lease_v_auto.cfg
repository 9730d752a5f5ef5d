CONSTANTS
  Kinds = {"auto_drain"}
  Owners = {o1, o2}
  Watchers = {}
  Remote = {}
  Alike = {}
  TTL = 2
  Punctual = {o1, o2}
  MaxFaults = 0
SPECIFICATION Spec
INVARIANTS
  OneDrain
