SPECIFICATION Spec
CONSTANTS
  Shapes <- MCShapes
  Blank = Blank
  Binary = Binary
  MaxBytes = 1
  Bodies2xx <- MCBodies
  Room = 1
  MaxPieces = 5
  MaxLines = 3
  MaxNotes = 1
INVARIANTS
  ExchangeTypeOK
  RefusedStaysHere
  MisreadAsNamed
PROPERTIES
  ImplementsMediation
  EveryLineSettled
CHECK_DEADLOCK FALSE
