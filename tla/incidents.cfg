SPECIFICATION Spec
CONSTANTS
  w1 = w1
  w2 = w2
  Workers <- TwoWorkers
  Cases <- SomeCases
  Window = 4
  MaxCalls = 3
  MaxTriages = 1
  Faults <- AnyFault
SYMMETRY WorkerSymmetry
INVARIANTS
  IncidentTypeOK
  SequentialIds
  OnlyOthersTakeTheId
PROPERTY ImplementsDocket
CHECK_DEADLOCK FALSE
