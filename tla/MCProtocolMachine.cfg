SPECIFICATION Spec
CONSTANTS
  Fragments <- MCFragments
  Commands <- MCCommands
  MaxHeld = 6
INVARIANTS
  WaitsAreSound
  TurnIsClean
  ResponseIsFramed
PROPERTIES
  NoUnsolicitedResponse
  BytesAreConserved
