SPECIFICATION LiveSpec
CONSTANTS
  w1 = w1
  w2 = w2
  o1 = o1
  c1 = c1
  c2 = c2
  NoCall = NoCall
  Workers <- TwoWorkers
  Operators <- OneOperator
  Calls <- OneCall
  TTL = 1
  MaxTime = 1
  MaxRows = 2
  Faults <- NoFault
  Findings <- FewFindings
  AiRisks <- MCAiRisks
  ClassifierYields = FALSE
  MaxMessages = 2
  MaxDecisions = 1
PROPERTY EveryCallAnswered
CHECK_DEADLOCK FALSE
