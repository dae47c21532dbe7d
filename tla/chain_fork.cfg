SPECIFICATION ChainSpec
CONSTANTS
  w1 = w1  w2 = w2  w3 = w3  b1 = b1  n1 = n1
  NoBody = NoBody
  Writers <- TwoWriters
  Bodies <- OneBody
  Notes <- OneNote
  MaxEvents = 3
  ReadsMayFail = FALSE
  WritesMayFail = FALSE
INVARIANT ChainVerifies
CHECK_DEADLOCK FALSE
