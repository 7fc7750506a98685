\* One file, bundles of two lines, a full channel, alerts within the cooldown.
SPECIFICATION Spec
CONSTANTS
  Keys = {a}
  Cooldown = 3
  BundleWindow = 2
  BundleMax = 2
  Capacity = 2
  MaxLines = 4
CHECK_DEADLOCK FALSE
INVARIANTS
  LostOnlyToTheClip
PROPERTIES
  OnlyRacesBreakTheCooldown
  ScheduledIsAlerted
