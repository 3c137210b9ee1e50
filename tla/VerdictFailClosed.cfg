\* A login page on a content feed passes a light scan unseen.
SPECIFICATION Spec
CONSTANTS
  r1 = r1  r2 = r2  home = home  bare = bare  file = file  login = login
  None = None  Failed = Failed
  Requests <- TwoRequests
  Urls <- HomeAndLogin
  Key <- TrimSlash
  Sensitive <- LoginOnly
  Uncached <- LoginOnly
  Suspicious <- HomeAndLogin
  Profiles <- LightLogin
  Listings <- ContentListed
  Pages <- CleanOnly
SYMMETRY RequestSymmetry
INVARIANTS
  SensitiveFailsClosed
CHECK_DEADLOCK FALSE
