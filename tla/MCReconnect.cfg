SPECIFICATION FairReconnectSpec
CONSTANTS
  k1 = k1
  k2 = k2
  t1 = t1
  Runner = Runner
  Stopper = Stopper
  Callers <- MCCallers
  Topics <- MCTopics
  Faulty <- MCNobody
  FatalFrames = FALSE
  MaxDrops = 2
  Base = 1
  MaxBackoff = 60
  Jitters <- MCJitters
INVARIANTS
  DelayWithinBounds
PROPERTIES
  RetriesSlowDown
  ConnectionForgives
  CallsReturn
  StopReturns
  DemandReachesWire
