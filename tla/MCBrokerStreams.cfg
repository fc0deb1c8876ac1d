SPECIFICATION StreamSpec
CONSTANTS
  c1 = c1
  c2 = c2
  t1 = t1
  t2 = t2
  Consumers <- MCConsumers
  Topics <- MCTopics
  Messages <- MCMessages
  QueueSize = 2
  MaxPublished <- MCMaxPublished
INVARIANTS
  BrokerTypeOK
  SubscribersHaveQueues
  Bounded
  StreamInOrder
  FreshestKept
  MetricsBalance
PROPERTIES
  ImplementsWindow
  LateEventsOnlyDrain
