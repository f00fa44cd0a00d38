CONSTANTS
  p1 = p1
  p2 = p2
  virtual = virtual
  quik = quik
  demo = demo
  real = real
  nobody = nobody
  None = None
  Peers = {p1}
  ClientIds = {0, 1}
  Brokers = {virtual, quik}
  Accounts = {demo, real, nobody}
  BrokerOf <- MCBrokerOf
  Commands <- MCLiveCommands
  MaxOrders = 2
  MaxInbox = 2
  MaxNotices = 1
SPECIFICATION FairSpec
PROPERTIES
  TerminalTold
