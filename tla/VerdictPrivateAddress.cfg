\* A cached ALLOW answers a request whose browser reached a private address.
SPECIFICATION Spec
CONSTANTS
  r1 = r1  r2 = r2  home = home  bare = bare  file = file  login = login
  None = None  Failed = Failed
  Requests <- TwoRequests
  Urls <- HomeOnly
  Key <- TrimSlash
  Sensitive <- NoPages
  Uncached <- NoPages
  Suspicious <- HomeOnly
  Profiles <- Hijacked
  Listings <- Unlisted
  Pages <- CleanOnly
SYMMETRY RequestSymmetry
INVARIANTS
  PrivateAddressBlocked
CHECK_DEADLOCK FALSE
