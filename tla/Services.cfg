SPECIFICATION MCSpec
CONSTANTS
  HostRows <- MCHostRows
  OtherRows <- MCOtherRows
  Scoped <- MCScoped
  Curated <- MCCurated
  Local <- MCLocal
  AskedHosts <- MCAsked
  LabelTails <- MCTails
  MaxEdits = 3
  MaxQueries = 4
  StreamLimit = 2
  ReadCount = 2
  MaxRestarts = 1
  Urls <- MCUrls
  Batch = 3
  Interval = 2
  PerDomain = 2
  TokenSet = FALSE
  Keywords = {"pay", "bank", "shop"}
  CertDomains = {"pay-a"}
  Holds <- MCFound
  Resembles <- MCFound
  PerKeyword = 2
  Others <- MCOthers
  PerCycle = 2
  Lookback = 2
  Callers = {"p1", "p2"}
  Bases = 2
  Vendors = {"v1", "v2"}
  Sinks = {"v2"}
  Blockers = {"v2"}
  AgeTTL = 4
  NotFoundTTL = 2
  ErrorTTL = 1
  DnsTTL = 1
  RiskTTL = 2
  MaxHours = 3
  Watched = {{"rdap"}, {"dns"}, {"risk"}}
CHECK_DEADLOCK FALSE
INVARIANTS RegistriesHold EntriesAccountedFor MissedAreCaught SharedAnswersHold
PROPERTIES DomainsAreSpaced KeepsPromise ServicesMove
