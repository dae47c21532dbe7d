SPECIFICATION ChainSpec
CONSTANTS
  w1 = w1  w2 = w2  w3 = w3  b1 = b1  n1 = n1
  NoBody = NoBody
  Writers <- ThreeWriters
  Bodies <- OneBody
  Notes <- OneNote
  MaxEvents = 5
  ReadsMayFail = TRUE
  WritesMayFail = TRUE
INVARIANTS ChainTypeOK PredecessorStored FailureIsFork
PROPERTIES ForkIsPermanent ImplementsLedger
CHECK_DEADLOCK FALSE
