SPECIFICATION FairHubSpec
CONSTANTS
  c1 = c1
  c2 = c2
  t1 = t1
  t2 = t2
  Nobody = Nobody
  Runner = Runner
  Stopper = Stopper
  Conns <- MCConns
  Topics <- MCOneTopic
  Traded <- MCNoTopic
  Faulty <- MCNobody
  QueueSize = 1
  MaxDrops = 2
CHECK_DEADLOCK FALSE
INVARIANTS
  DemandIsUpstream
  QuietHubServesDemand
PROPERTIES
  HandlersSettle
  DemandIsServed
