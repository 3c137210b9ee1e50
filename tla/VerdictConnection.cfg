\* A cached answer carries another client's connection identity.
SPECIFICATION Spec
CONSTANTS
  r1 = r1  r2 = r2  home = home  bare = bare  file = file  login = login
  None = None  Failed = Failed
  Requests <- TwoRequests
  Urls <- HomeOnly
  Key <- TrimSlash
  Sensitive <- NoPages
  Uncached <- NoPages
  Suspicious <- HomeOnly
  Profiles <- Connections
  Listings <- Unlisted
  Pages <- CleanOnly
SYMMETRY RequestSymmetry
INVARIANTS
  ConnectionAbsentWhenNotSupplied
CHECK_DEADLOCK FALSE
