SPECIFICATION Spec
CONSTANTS
  FlashSize = 4
  Cell = {0, 1, 2, 255}
  BoardId = 9
  FirmwareBoardId = 50
  Crc <- MCCrc
  Image <- MCBigImage
  ChunkSize = 2
  Faults = {}
  MaxFaults = 0
  MaxRetries = 2
  ReprobeRetries = 2
  ExpectingFailure = FALSE
  InitialDevice <- MCModernDevices
INVARIANT TargetIsSuitable
