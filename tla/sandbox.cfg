SPECIFICATION Spec
CONSTANTS
  Room = 2
  Widths <- MCWidths
  MaxOutput = 2
  MaxInput = 3
  MaxChars = 2
INVARIANTS
  FaithfulResult
  NoOrphan
PROPERTIES
  EndsOrIsStuck
CHECK_DEADLOCK FALSE
