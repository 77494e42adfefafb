SPECIFICATION Spec
CONSTANTS
  MaxReadSize = 2
  MaxIn = 3
  MaxOut = 2
INVARIANTS
  WritesAreKept
  ReadsAreExact
  ClosingIsQuiet
PROPERTY ClosingEnds
