CONSTANTS
  MaxPackets = 2
SPECIFICATION FairSpec
CHECK_DEADLOCK FALSE
PROPERTY NoPacketLeftAsleep
