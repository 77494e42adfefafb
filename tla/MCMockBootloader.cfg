SPECIFICATION Spec
CONSTANTS
  FlashSize = 3
  Cell = {1, 32, 35, 255}
  BoardId = 9
  Crc <- MCCrc
  Clients = {c1, c2}
  NoClient = none
  Requests <- MCRequests
  SimulateDesync = TRUE
  DesyncFrom = 3
  MaxSent = 2
  MaxFaults = 1
INVARIANTS
  CommandsAreExact
  AnswersAsCommanded
PROPERTY TurnsEnd
CHECK_DEADLOCK FALSE
