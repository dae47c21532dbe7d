SPECIFICATION Spec
CONSTANTS
  w1 = w1  w2 = w2  b1 = b1  b2 = b2  n1 = n1  n2 = n2
  NoBody = NoBody
  Writers <- OneWriter
  Bodies <- TwoBodies
  Notes <- TwoNotes
  MaxEvents = 4
  MaxAlterations = 2
  ReadsMayFail = FALSE
  WritesMayFail = FALSE
INVARIANT VerifiedIsGenuine
PROPERTY InteriorDamageIsDetected
CHECK_DEADLOCK FALSE
