SPECIFICATION ClientSpec
CONSTANTS
  k1 = k1
  k2 = k2
  t1 = t1
  t2 = t2
  Runner = Runner
  Stopper = Stopper
  Callers <- MCCallers
  Topics <- MCOneTopic
  Faulty <- MCNobody
  FatalFrames = TRUE
  MaxDrops = 1
INVARIANT
  OnlyStopEndsRunner
