SPECIFICATION FairSpec
CONSTANTS
  Writers = {w1, w2, w3}
  Instances = {i1, i2}
  Ttl = 2
CHECK_DEADLOCK FALSE
INVARIANTS
  TxUnderCurrentEpoch
  OneTimelyHolder
PROPERTIES
  StandbyTakesOver
