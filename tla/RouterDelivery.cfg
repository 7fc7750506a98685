\* Two handlers and one route with both channels, a small queue, failures and a restart.
SPECIFICATION FairSpec
CONSTANTS
  a1 = a1
  a2 = a2
  Alerts = {a1, a2}
  Handlers = {h1, h2}
  Routes <- OneRoute
  Matches <- AllMatch
  Limit <- NoLimit
  Window <- Window0
  Channels <- BothChannels
  Payloads <- Singles
  Silences = {}
  Covers <- CoverAll
  Capacity = 1
  SecondTicks = 1
  MinuteTicks = 4
  Horizon = 0
  MaxPosts = 3
  MaxRestarts = 1
INVARIANTS
  NothingLostInside
  NoSilentLoss
PROPERTIES
  EventuallySettled
CHECK_DEADLOCK FALSE
