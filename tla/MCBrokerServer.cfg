CONSTANTS
  p1 = p1
  p2 = p2
  virtual = virtual
  quik = quik
  demo = demo
  real = real
  nobody = nobody
  None = None
  Peers = {p1, p2}
  ClientIds = {0, 1}
  Brokers = {virtual, quik}
  Accounts = {demo, real, nobody}
  BrokerOf <- MCBrokerOf
  Commands <- MCCommands
  MaxOrders = 2
  MaxInbox = 1
  MaxNotices = 1
SPECIFICATION Spec
SYMMETRY Symmetry
INVARIANTS
  TypeOK
  Routing
  NoOrphanNotice
  UpToDate
  KillsOwn
  CancelFindsLatest
PROPERTIES
  NoRegress
