SPECIFICATION FairSpec
CONSTANTS
  t1 = t1
  t2 = t2
  k1 = k1
  k2 = k2
  k3 = k3
  None = None
  plain = plain
  login = login
  slashed = slashed
  Tabs = {t1}
  Urls = {plain}
  Sensitive = {}
  Normal <- Exact
  Answers = {"ALLOW"}
  Tasks = {k1, k2}
  TokenTTL = 0
  Window = 0
  AllowTTL = 0
  WarnTTL = 0
  BlockTTL = 0
  Limit = 3
  MaxNow = 0
  MaxVisits = 1
  MaxFaults = 1
  Faults = {"storage"}
CHECK_DEADLOCK FALSE
PROPERTY NeverHangs
