SPECIFICATION MakerSpec
CONSTANTS
  QtyScale = 1
  BpsScale = 10
  MaxMinor = 100
  Marks = {1, 5, 6}
  SpreadBps = 2
  LevelStep = 1
  Levels = 1
  RequoteBps = 3
  Backing = 3
  MaxSeq = 6
  MaxTicks = 3
  MaxFaults = 1
CHECK_DEADLOCK FALSE
INVARIANT PlacedAsAsked
