\* Modes, stored renders, shared answers and rows: any two of six kinds of request.
SPECIFICATION Spec
CONSTANTS
  r1 = r1  r2 = r2  home = home  bare = bare  file = file  login = login
  None = None  Failed = Failed
  Requests <- TwoRequests
  Urls <- AllPages
  Key <- TrimSlash
  Sensitive <- BareAndFile
  Uncached <- BareOnly
  Suspicious <- AllPages
  Profiles <- Mixed
  Listings <- ContentListed
  Pages <- CleanOnly
SYMMETRY RequestSymmetry
CHECK_DEADLOCK FALSE
INVARIANTS CachedAnswersFit EvidenceIsFit
PROPERTY RowsHold
