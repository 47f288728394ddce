SPECIFICATION FairSpec
CONSTANTS
  Tasks = {t1, t2}
  Threads = {w1, w2}
  MaxRetries = 1
  Backend = "redis"
  Faults = {}
PROPERTIES EveryEventIsHandled
CHECK_DEADLOCK FALSE
