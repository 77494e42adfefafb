SPECIFICATION Spec
CONSTANTS
  Checksum <- x25crc
  Packets <- MCPackets
  Heartbeats <- MCHeartbeats
  Remainders <- MCRemainders
  Chunks = {1, 18}
  MaxPackets = 2
  Faults = {"lose", "damage", "io", "broken"}
  DamagedAt = {1, 2, 3, 8, 16}
  MaxFaults = 1
INVARIANTS
  ParsingIsExact
  HeartbeatsAreGenuine
  HeardFromWithin
  CommandsReachFirmware
  UndisturbedSuccessIsDone
PROPERTY Finishes
