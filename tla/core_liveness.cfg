SPECIFICATION FairSpec
CONSTANTS
  a1 = a1
  a2 = a2
  p1 = p1
  p2 = p2
  o1 = o1
  o2 = o2
  o3 = o3
  Accounts = {a1, a2}
  Orders = {o1, o2}
  Partitions = {p1, p2}
  PartOf <- MCPartOf
  Cash0 <- MCCash
  Shares0 <- MCShares
  Funding <- MCFunding
  Requests <- MCRequests
  MaxFunding = 0
  QtyScale = 1
  BpsScale = 1
  MaxMinor = 100
  CollarBps = 0
  TakerFeeBps = 1
  MakerFeeBps = 0
  MaxRepeats = 1
  TransientErrors = {}
CHECK_DEADLOCK FALSE
INVARIANTS
  FilledOnce
PROPERTIES
  TerminalIsFinal
  OrdersConclude
