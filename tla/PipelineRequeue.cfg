SPECIFICATION Spec
CONSTANTS
  Tasks = {t1}
  Sources = {s1}
  Create = create
  Admins = {a1}
  MaxRetries = 1
  Faults = {}
PROPERTIES OnlyFailedIsRequeued
CHECK_DEADLOCK FALSE
