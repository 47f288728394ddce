SPECIFICATION FairSpec
CONSTANTS
  Nodes = {n1}
  Strangers = {n9}
  Shared = shared
  Roles = {download}
  Commands = {c1, c2, c3}
  NoCommand = none
  Faults = {"crash", "exit"}
INVARIANTS TypeOK AliveIsManaged StoppedIsGone
PROPERTIES CommandsAreHandled
CHECK_DEADLOCK FALSE
