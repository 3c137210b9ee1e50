\* A slower scan of an older page displaces a paranoid detection.
SPECIFICATION Spec
CONSTANTS
  r1 = r1  r2 = r2  home = home  bare = bare  file = file  login = login
  None = None  Failed = Failed
  Requests <- TwoRequests
  Urls <- HomeOnly
  Key <- TrimSlash
  Sensitive <- NoPages
  Uncached <- NoPages
  Suspicious <- HomeOnly
  Profiles <- ParanoidAndNormal
  Listings <- Unlisted
  Pages <- CleanOnly
SYMMETRY RequestSymmetry
PROPERTY
  ParanoidDetectionKept
CHECK_DEADLOCK FALSE
