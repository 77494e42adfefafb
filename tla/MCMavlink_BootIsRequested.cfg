SPECIFICATION Spec
CONSTANTS
  Checksum <- x25crc
  Packets <- MCPackets
  Heartbeats <- MCHeartbeats
  Remainders <- MCRemainders
  Chunks = {1, 18}
  MaxPackets = 1
  Faults = {"lose", "io", "broken"}
  DamagedAt = {1, 2, 3, 8, 16}
  MaxFaults = 2
INVARIANT BootIsRequested
