CONSTANTS
  None = None
  p1 = p1
  p2 = p2
  a = a
  b = b
  Peers = {p1, p2}
  Tickers = {a, b}
  Datatypes = {"price", "best_bid"}
  Price = "price"
  Messages <- MCMessages
  Half = 4
  MaxSends = 3
  MaxTicks = 2
  PipeLimit = 2
SPECIFICATION FairSpec
INVARIANTS
  TypeOK
  NoOverdraft
  OneEntry
  InOrder
PROPERTIES
  StreamsWhatIsPaid
  TicksLeavePipe
