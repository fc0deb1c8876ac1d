SPECIFICATION ViewsSpec
CONSTANTS
  c1 = c1
  c2 = c2
  c3 = c3
  t1 = t1
  t2 = t2
  bad = bad
  NoPrice = NoPrice
  NoString = NoString
  Consumers <- MCConsumers
  Topics <- MCTopics
  Prices <- MCPrices
  Defaults <- MCDefaults
  BadIds <- MCBadIds
  Threshold = 1
  MaxTime = 2
INVARIANTS
  RefcountsExact
  StatusAddsUp
  EveryTopicListed
  OneTruth
  ToolsFollowSpecs
PROPERTIES
  OneStepDemand
  ListedStaysReadable
SYMMETRY MCSymmetry
