SPECIFICATION ProgramsSpec
CONSTANTS
  Services = {s1, s2}
  Flag = 0
  TimeoutFlags <- MCTimeoutFlags
  ThreeSeconds = 3
  Grace = 1
  Clients = {c1}
  Capacity = 1
  MaxRounds = 3
  Probed <- MCProbed
  Timeouts <- MCTimeouts
  Interval = 2
  MaxClock = 6
  Listings <- MCListings
  UrlOf <- MCUrlOf
  Concurrency = 2
  Appends <- MCAppends
  Repos <- MCRepos
  WellFormed <- MCWellFormed
  CurrentMap <- MCCurrentMap
  Current <- MCCurrent
  Tags <- MCTags
  Fetchers = 1
  RetryFlags <- MCRetryFlags
  OutdatedExit = 3
  Missing = Missing
  Slots <- MCSlots
  Stable <- MCStable
  Protected <- MCProtected
  Operations <- MCOperations
  Choices <- MCChoices
  MaxTime = 1
  MaxPods = 3
  Commands <- MCCommands
  Sensitive <- MCSensitive
  When <- MCWhen
  Ids <- MCIds
  Queries <- MCQueries
  MaxOffset = 5
  Threshold = 80
  Percents <- MCPercents
  Inputs <- MCInputs
  TempEntries <- MCTempEntries
  slow = slow
  quick = quick
  db = db
  agent = agent
  op1 = op1
  op2 = op2
  ls = ls
  rm = rm
  cp = cp
  tmp1 = tmp1
  tmp2 = tmp2
CHECK_DEADLOCK FALSE
INVARIANTS TypesOK NothingMissed ScrapeOfTwoRounds AppendKeepsHistory ReportIsRight PagerSeesAll
PROPERTIES UpToDate NewestProbeWins EndsOnlyWhatItMay CommandsEnd
