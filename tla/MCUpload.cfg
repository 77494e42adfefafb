SPECIFICATION Spec
CONSTANTS
  FlashSize = 4
  Cell = {0, 1, 2, 255}
  BoardId = 9
  FirmwareBoardId = 9
  Crc <- MCCrc
  Image <- MCImage
  ChunkSize = 2
  Faults = {"lose", "split", "reject", "io", "eof", "late", "heartbeat"}
  MaxFaults = 3
  MaxRetries = 2
  ReprobeRetries = 2
  ExpectingFailure = FALSE
  InitialDevice <- MCDevices
INVARIANTS
  PointersAgree
  NoFalseMismatch
  VerifiedMeansProgrammed
PROPERTIES
  ProgressIsKept
  UnsupportedIsUntouched
  ImplementsFlashUpdate
  Finishes
