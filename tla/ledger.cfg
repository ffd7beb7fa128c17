SPECIFICATION Spec
CONSTANTS
  a1 = a1
  a2 = a2
  p1 = p1
  p2 = p2
  f1 = f1
  f2 = f2
  k1 = k1
  k2 = k2
  Accounts = {a1, a2}
  Partitions = {p1, p2}
  PartOf <- MCPartOf
  Fills = {f1, f2}
  Trades <- MCTrades
  Deposits <- MCDeposits
  Openings <- MCOpenings
  TakerFeeBps = 1
  MakerFeeBps = 0
  QtyScale = 2
  BpsScale = 2
  MaxMinor = 100
  Word = 1024
  Checkpointers = {k1, k2}
  SnapshotsKept = 1
  MaxDeposits <- MCDepositBound
  MaxOpenings <- MCOpeningBound
  MaxAudits = 2
  Visits <- MCVisits
SYMMETRY Interchangeable
CHECK_DEADLOCK FALSE
INVARIANTS
  RecoveryAgrees
  BasisIsWhatWasPaid
  ClearingNamesOpenFills
  OnlyOpenOrCrossingFillsAlarm
PROPERTIES
  NewestSurvives
  ReportNamesTheStuck
  QuietReconciles
