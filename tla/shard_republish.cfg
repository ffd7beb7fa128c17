SPECIFICATION Spec
CONSTANTS
  o1 = o1
  o2 = o2
  o3 = o3
  v1 = v1
  v2 = v2
  Orders = {o1, o2}
  Venues = {v1, v2}
  Rank <- MCRank
  Requests <- MCRequests
  QtyScale = 1
  BpsScale = 1
  MaxMinor = 100
  CollarBps = 1
  Window = 2
  Batch = 2
  MaxFaults = 2
  ProduceFails = FALSE
SYMMETRY OrderSymmetry
CHECK_DEADLOCK FALSE
INVARIANTS
  ExecutedWithinSize
