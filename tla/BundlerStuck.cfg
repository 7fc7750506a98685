SPECIFICATION Spec
CONSTANTS
  Keys = {a}
  Cooldown = 3
  BundleWindow = 2
  BundleMax = 2
  Capacity = 2
  MaxLines = 3
CHECK_DEADLOCK FALSE
PROPERTY EventuallyAlerted
