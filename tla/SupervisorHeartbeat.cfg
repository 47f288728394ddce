SPECIFICATION FairSpec
CONSTANTS
  N = 1
  Faults = {"signal", "crash", "remote"}
PROPERTIES HeartbeatGoesOn
