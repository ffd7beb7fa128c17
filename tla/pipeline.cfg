SPECIFICATION FairSpec
CONSTANTS
  p1 = p1
  p2 = p2
  s1 = s1
  s2 = s2
  c1 = c1
  Servers = {s1}
  Commands = {c1}
  MaxOrders = 2
  Partitions = {p1}
  PartOf <- MCPartOf
  RelayBatch = 1
CHECK_DEADLOCK FALSE
INVARIANTS
  ReportsHold
  NothingLost
PROPERTIES
  EverythingSettles
