SPECIFICATION Spec
CONSTANTS
  None = None
  bank = bank
  shop = shop
  evil = evil
  q1 = q1
  q2 = q2
  Queries = {q1, q2}
  Domains = {evil}
  NeverBlock = {}
  Split = {}
  Collisions = {}
  Answers = {"block", "clean", "unknown"}
  BlockTTL = 0
  CleanTTL = 0
  WarnTTL = 0
  AnalyzingTTL = 0
  MaxNow = 1
  MaxQueries = 2
  MaxFetches = 1
  MaxFaults = 1
  Faults = {"redis", "fetcher"}
CHECK_DEADLOCK FALSE
SYMMETRY Callers
INVARIANTS ListedIsRefused ListsTakeEffect
PROPERTY BlockOverwrittenByRaceOnly
