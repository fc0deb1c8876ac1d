SPECIFICATION IngestionSpec
CONSTANTS
  t1 = t1
  t2 = t2
  Bad = Bad
  NoPrice = NoPrice
  Topics <- MCTopics
  Prices <- MCPrices
  Frames <- MCFrames
  Threshold = 1
  MaxFrames = 3
  MaxTime = 2
INVARIANTS
  StoreTypeOK
  SnapshotIsLastKnown
  StaleIsExact
PROPERTY
  UpdatedAtAdvances
