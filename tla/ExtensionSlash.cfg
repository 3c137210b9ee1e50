SPECIFICATION Spec
CONSTANTS
  t1 = t1
  t2 = t2
  k1 = k1
  k2 = k2
  k3 = k3
  None = None
  plain = plain
  login = login
  slashed = slashed
  Tabs = {t1}
  Urls = {plain, slashed}
  Sensitive = {}
  Normal <- Slash
  Answers = {"BLOCK"}
  Tasks = {k1, k2}
  TokenTTL = 0
  Window = 0
  AllowTTL = 0
  WarnTTL = 0
  BlockTTL = 0
  Limit = 1
  MaxNow = 0
  MaxVisits = 2
  MaxFaults = 0
  Faults = {}
CHECK_DEADLOCK FALSE
PROPERTY KnownBadStaysBlocked
SYMMETRY Handlers
