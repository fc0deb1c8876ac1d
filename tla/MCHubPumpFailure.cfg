SPECIFICATION HubSpec
CONSTANTS
  c1 = c1
  c2 = c2
  t1 = t1
  t2 = t2
  Nobody = Nobody
  Runner = Runner
  Stopper = Stopper
  Conns <- MCConns
  Topics <- MCOneTopic
  Traded <- MCOneTopic
  Faulty <- MCNobody
  QueueSize = 1
  MaxDrops = 0
CHECK_DEADLOCK FALSE
INVARIANT
  DisconnectCleansUp
