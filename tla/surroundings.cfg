SPECIFICATION Spec
CONSTANTS
  p1 = p1
  p2 = p2
  c1 = c1
  c2 = c2
  a1 = a1
  a2 = a2
  Partitions = {p1, p2}
  Published <- MCPublished
  MaxRecords <- MCMaxRecords
  Clients = {c1, c2}
  AccountOf <- MCAccountOf
  PartOf <- MCPartOf
  Capacity = 1
  FetchFails = TRUE
  BatchSize = 2
  MaxTime = 1
  MaxFailures = 1
  MaxLives = 2
  l1 = l1
  l2 = l2
  l3 = l3
  s1 = s1
  h1 = h1
  h2 = h2
  QtyScale = 1
  BpsScale = 10
  MaxMinor = 100
  Marks = {1, 5, 6}
  SpreadBps = 2
  LevelStep = 1
  Levels = 1
  RequoteBps = 3
  Backing = 3
  MaxSeq = 6
  MaxTicks = 3
  MaxFaults = 1
  Logins = {l1, l2, l3}
  Starts = {s1}
  Desk = Desk
  Label <- MCLabel
  Fundings <- MCFundings
  MaxInterrupts = 1
CHECK_DEADLOCK FALSE
INVARIANTS
  FeedInOrder
  CountedOnce
  NoRowForgotten
  OwnQuotesNeverMeet
  EveryQuoteWatched
  OneAccountEach
PROPERTIES
  FeedArrives
  EverythingRecorded
  QuotesFollowMark
