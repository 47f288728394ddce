SPECIFICATION Spec
CONSTANTS
  Nodes = {n1}
  Strangers = {}
  Shared = shared
  Roles = {download}
  Commands = {c1, c2, c3}
  NoCommand = none
  Faults = {}
INVARIANTS StopStops
CHECK_DEADLOCK FALSE
