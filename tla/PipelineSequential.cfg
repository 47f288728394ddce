SPECIFICATION Spec
CONSTANTS
  Tasks = {t1}
  Sources = {s1, s2}
  Create = create
  Admins = {}
  MaxRetries = 2
  Faults = {"crash", "database"}
INVARIANTS OneRunAtATime RecordMatchesRun
PROPERTIES SucceededIsFinal
CHECK_DEADLOCK FALSE
