SPECIFICATION FairSpec
CONSTANTS
  Requests = {r1}
  Pool = 1
  Sizes = {1, 2}
  Slot = 1
INVARIANTS TypeOK IntentKept LimitKept
PROPERTIES RecordHeals
