SPECIFICATION Spec
CONSTANTS
  Peers = {a, b}
  BufferSize = 2
  UnmatchedSize = 2
  MaxArrivals = 4
  MaxSends = 2
INVARIANTS
  StreamIsExact
  TargetsAreUnique
PROPERTY SendersProceed
CHECK_DEADLOCK FALSE
