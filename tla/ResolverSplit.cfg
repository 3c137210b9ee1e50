SPECIFICATION Spec
CONSTANTS
  None = None
  bank = bank
  shop = shop
  evil = evil
  q1 = q1
  q2 = q2
  Queries = {q1}
  Domains = {evil}
  NeverBlock = {}
  Split = {evil}
  Collisions = {}
  Answers = {"block", "clean", "unknown"}
  BlockTTL = 1
  CleanTTL = 0
  WarnTTL = 0
  AnalyzingTTL = 0
  MaxNow = 0
  MaxQueries = 1
  MaxFetches = 1
  MaxFaults = 0
  Faults = {}
CHECK_DEADLOCK FALSE
INVARIANT ListedIsRefused
