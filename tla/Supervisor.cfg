SPECIFICATION FairSpec
CONSTANTS
  N = 2
  Faults = {"signal", "registry", "spawn", "crash", "remote"}
INVARIANTS TypeOK NoOrphans FinalRecordIsOfExit
PROPERTIES HeartbeatGoesOn WorkerComesBack
