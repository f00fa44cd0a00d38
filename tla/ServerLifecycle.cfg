SPECIFICATION FairSpec
CHECK_DEADLOCK FALSE
PROPERTIES
  BrokerAnswers
  QuotesourceStopReturns
  BrokerStopReturnsOnceServed
