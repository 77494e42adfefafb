SPECIFICATION Spec
CONSTANTS
  Peers = {a, b}
  BufferSize = 2
  UnmatchedSize = 2
  MaxArrivals = 4
  MaxSends = 2
INVARIANT ReaderSurvives
CHECK_DEADLOCK FALSE
