SPECIFICATION Spec
CONSTANTS
  FlashSize = 3
  Cell = {1, 2, 3, 255}
  BoardId = 9
  Crc <- MCCrc
  Faults = {"lose", "split", "late", "reject", "io", "eof", "heartbeat"}
  MaxFaults = 3
  Requests <- MCRequests
  RetryLimits = {1}
  MaxCalls = 3
  InitialDevice <- MCInitialDevice
INVARIANTS
  ReturnMeansExecuted
  AnswerIsCurrent
  NeverInvalidState
PROPERTIES
  CallsEnd
  LoopPays
