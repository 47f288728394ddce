SPECIFICATION Spec
CONSTANTS
  Tasks = {t1}
  Sources = {s1, s2}
  Create = create
  Admins = {}
  MaxRetries = 1
  Faults = {"crash", "database", "publish"}
SYMMETRY Symmetry
INVARIANTS TypeOK IInv StatusHasOwner SucceededIsUploaded RetryBudget
CHECK_DEADLOCK FALSE
