CONSTANTS
  MaxPackets = 4
SPECIFICATION FairSpec
CHECK_DEADLOCK FALSE
INVARIANTS TypeOK DequeueFindsPacket InOrder IntactUntilRaced
PROPERTIES ImplementsChannel WakeupDrains
