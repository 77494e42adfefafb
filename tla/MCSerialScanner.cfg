SPECIFICATION ScanSpec
CONSTANTS
  Names = {"usb", "modem"}
  Suitable = {"usb"}
  Ports <- MCPorts
  MaxRetries = 2
  MaxConcurrency = 1
  ExpectedAfterReboot = 2
  TellsRetrying = TRUE
INVARIANTS
  TypeOK
  TokensAreExact
  AttemptsAreCounted
  FailuresAreReported
PROPERTIES
  TasksEnd
  OneTaskPerStay
  StayIsServed
