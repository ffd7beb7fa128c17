SPECIFICATION Spec
CONSTANTS
  a1 = a1
  a2 = a2
  p1 = p1
  p2 = p2
  o1 = o1
  o2 = o2
  o3 = o3
  Accounts = {a1, a2}
  Orders = {o1, o2, o3}
  Partitions = {p1, p2}
  PartOf <- MCPartOf
  Cash0 <- FractionalCash
  Shares0 <- FractionalShares
  Funding <- FractionalFunding
  Requests <- FractionalRequests
  MaxFunding = 1
  QtyScale = 2
  BpsScale = 2
  MaxMinor = 100
  CollarBps = 0
  TakerFeeBps = 1
  MakerFeeBps = 0
  MaxRepeats = 0
  TransientErrors = {p1}
SYMMETRY OrderSymmetry
CHECK_DEADLOCK FALSE
INVARIANTS
  TypeOK
  TerminalIsSettled
  Solvent
  Conserved
  ShortByCents
PROPERTIES
  PendingCancelHolds
  Escrows
