CONSTANTS
  None = None
  MaxOrders = 2
  MaxTids = 3
  MaxNotices = 1
  MaxDrops = 1
SPECIFICATION Spec
CHECK_DEADLOCK FALSE
INVARIANTS
  TypeOK
  OneContainer
  AlreadyNotified
  KillsOwn
  Truthful
PROPERTIES
  ImplementsContract
