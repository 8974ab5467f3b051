CONSTANTS
  None = None
  Hosts = {h1}
  Interval = 3
  MaxTime = 3
  MaxBoots = 0
SPECIFICATION AdjustedSpec
CHECK_DEADLOCK FALSE
INVARIANT NeverNegative
