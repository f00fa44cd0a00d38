CONSTANTS
  None = None
  c1 = c1
  c2 = c2
  Codes = {c1, c2}
  Books <- MCBooks
  Prices = {1, 2, 3}
  StartVolumes = {1}
  ExtraColumns = {{"OpenInterest", "TotalSupply"}}
  MaxTraded = 2
  MaxSessions = 1
SYMMETRY ContractSymmetry
SPECIFICATION Spec
INVARIANTS
  TypeOK
  NeverInvents
PROPERTIES
  EveryTradeStreamed
