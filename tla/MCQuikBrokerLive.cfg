CONSTANTS
  None = None
  MaxOrders = 1
  MaxTids = 3
  MaxNotices = 1
  MaxDrops = 2
SPECIFICATION FairSpec
CHECK_DEADLOCK FALSE
PROPERTIES
  EndIsLearned
