SPECIFICATION Spec
CONSTANTS
  FlashSize = 4
  Cell = {0, 1, 2, 255}
  BoardId = 9
  FirmwareBoardId = 9
  Crc <- MCCrc
  Image <- MCImage
  ChunkSize = 2
  Faults = {"late", "lose"}
  MaxFaults = 2
  MaxRetries = 2
  ReprobeRetries = 2
  ExpectingFailure = FALSE
  InitialDevice <- MCModernDevices
INVARIANT SuccessMeansProgrammed
