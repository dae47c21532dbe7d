SPECIFICATION QueueSpec
CONSTANTS
  w1 = w1
  w2 = w2
  o1 = o1
  o2 = o2
  c1 = c1
  c2 = c2
  Workers <- MCWorkers
  Operators <- MCOperators
  Calls <- MCCalls
  NoCall = NoCall
  TTL = 1
  MaxTime = 2
  MaxRows = 2
  Faults <- MCNoFault
CHECK_DEADLOCK FALSE
SYMMETRY MCSymmetry
INVARIANTS
  OutcomeFitsCall
  DecisionsRecorded
PROPERTIES
  LapsedNeverHonoured
  ImplementsConsent
