\* A category block is served to a user whose filter is off.
SPECIFICATION Spec
CONSTANTS
  r1 = r1  r2 = r2  home = home  bare = bare  file = file  login = login
  None = None  Failed = Failed
  Requests <- TwoRequests
  Urls <- HomeOnly
  Key <- TrimSlash
  Sensitive <- NoPages
  Uncached <- NoPages
  Suspicious <- HomeOnly
  Profiles <- Filters
  Listings <- ContentListed
  Pages <- CleanOnly
SYMMETRY RequestSymmetry
INVARIANTS
  CategoryBlocksOnlyWhenOn
CHECK_DEADLOCK FALSE
