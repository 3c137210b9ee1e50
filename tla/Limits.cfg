SPECIFICATION MCSpec
CONSTANTS
  Clients = {"c1", "c2"}
  Domains = {"d"}
  Answers <- MCAnswers
  MinTTL = 1
  MaxTTL = 2
  Grace = 1
  MaxEntries = 2
  MaxNow = 4
  MaxAnswers = 2
  Requests <- MCRequests
  ClientLimit = 1
  IpLimit = 2
  MaxMinutes = 3
  WebPages <- MCWebPages
  Root = "r"
  SensitivePages = {"a"}
  Depths = {1, 2}
  PageLimits = {1, 3, 4, 8}
  MaxCross = 2
  MaxLines = 7
  MaxSize = 2
  Generations = 2
  MaxCrashes = 1
  FeedRows <- MCFeedRows
  QueuedDomains = {"d1", "d2"}
  Vulnerable = {"d1"}
  SweepLimit = 1
CHECK_DEADLOCK FALSE
INVARIANTS LimitsHold CrawlIsFair FeedsAreWhole
PROPERTIES LedgerIsFaithful LogHolds
