CONSTANTS
  None = None
  MaxOrders = 2
  Securities = {"a", "b"}
  Kinds <- MCKinds
  Ticks <- MCTicks
  StartCash = 3
SPECIFICATION FairSpec
INVARIANTS
  TypeOK
  EnabledIffPending
  OneTrade
  LimitRespected
  BooksBalance
  SweptBehind
PROPERTIES
  TickFills
  ImplementsContract
