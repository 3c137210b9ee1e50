\* Every request is answered, and a challenge page is nobody else's evidence.
SPECIFICATION FairSpec
CONSTANTS
  r1 = r1  r2 = r2  home = home  bare = bare  file = file  login = login
  None = None  Failed = Failed
  Requests <- TwoRequests
  Urls <- HomeOnly
  Key <- TrimSlash
  Sensitive <- NoPages
  Uncached <- NoPages
  Suspicious <- HomeOnly
  Profiles <- Waiting
  Listings <- ContentListed
  Pages <- CleanOrChallenge
INVARIANT
  ChallengeNotReused
PROPERTY
  EveryRequestAnswered
CHECK_DEADLOCK FALSE
