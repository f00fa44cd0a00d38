CONSTANTS
  None = None
  MaxOrders = 2
  Securities = {"a"}
  Kinds <- MCKinds
  Ticks <- MCTicks
  StartCash = 12
  Capacity = 1
  Scale = 10
  Units = {1, 10, 100}
  MaxStarts = 3
  MaxCommands = 2
  Other = Other
SPECIFICATION FairGatewaySpec
CHECK_DEADLOCK FALSE
INVARIANTS
  GatewayTypeOK
PROPERTIES
  RestartRestores
  CallsReturn
