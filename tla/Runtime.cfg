SPECIFICATION UploadFairSpec
CONSTANTS
  Tasks = {t1, t2}
  Threads = {w1, w2, w3}
  MaxRetries = 1
  Backend = "memory"
  Faults = {"database"}
  Clients = {c1, c2, c3}
  Unstoppable = {c3}
INVARIANTS TypeOK OnePlacePerEvent SomeThreadLives RegisteredIsLive OnlyFailedStopsLeak
PROPERTIES FailsOnlyAfterRetries EveryEventIsHandled UploadsEnd
