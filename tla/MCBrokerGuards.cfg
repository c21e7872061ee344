SPECIFICATION BrokerSpec
CONSTANTS
  MaxObserve = 22
  MaxChanges = 2
  MaxSurplus = 1
  MaxBacklog = 2
INVARIANTS PublishedUnderPin OneLateEffect OneVersion
PROPERTY FreshView
CHECK_DEADLOCK FALSE
