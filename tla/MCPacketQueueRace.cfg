CONSTANTS
  MaxPackets = 3
SPECIFICATION Spec
CHECK_DEADLOCK FALSE
INVARIANT NothingLost
