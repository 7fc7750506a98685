\* Two handlers; two routes, one of them rate limited; silences, restarts and time.
SPECIFICATION Spec
CONSTANTS
  a1 = a1
  a2 = a2
  Alerts = {a1, a2}
  Handlers = {h1, h2}
  Routes <- TwoRoutes
  Matches <- SomeMatch
  Limit <- SomeLimit
  Window <- Window3
  Channels <- NoChannels
  Payloads <- Pairs
  Silences = {s1}
  Covers <- CoverAll
  Capacity = 1
  SecondTicks = 2
  MinuteTicks = 2
  Horizon = 3
  MaxPosts = 2
  MaxRestarts = 1
INVARIANTS
  WindowKept
PROPERTIES
  PurgeIsInvisible
SYMMETRY HandlersAlike
CHECK_DEADLOCK FALSE
