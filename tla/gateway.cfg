SPECIFICATION SafeSpec
CONSTANTS
  w1 = w1
  w2 = w2
  o1 = o1
  c1 = c1
  c2 = c2
  NoCall = NoCall
  Workers <- TwoWorkers
  Operators <- OneOperator
  Calls <- TwoCalls
  TTL = 1
  MaxTime = 1
  MaxRows = 2
  Faults <- AllFaults
  Findings <- MCFindings
  AiRisks <- MCAiRisks
  ClassifierYields = TRUE
  MaxMessages = 2
  MaxDecisions = 1
SYMMETRY MCSymmetry
INVARIANTS
  GatewayTypeOK
  ForwardedOnlyWhenCleared
PROPERTY NeverAsksForForbidden
CHECK_DEADLOCK FALSE
