SPECIFICATION MCSpec
CONSTANTS
  MaxSeen = 3
  Signals <- MCSignals
  MaxSignals = 3
  UrlClasses = {"generic", "login"}
  Hosts = {"unknown"}
  PageAges = {"8y"}
  Matches <- MCMatches
  Keywords <- MCKeywords
  Letters = {"o", "0", "1", "r", "n"}
  MaxEdits = 2
  HostWords = {"shop", "pay", "bank", "install", "rust", "reset"}
  Segments = {"news", "login", "pay", "docs", "rust", "app.exe", "x86"}
  MaxWords = 2
  MaxSegments = 2
CHECK_DEADLOCK FALSE
PROPERTIES ScoresAreSound EvidenceIsHeeded NamesAreSought SensitiveAreSeen
