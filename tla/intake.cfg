SPECIFICATION Spec
CONSTANTS
  s1 = s1
  SessionIds <- OneSession
  Cost = 2
  Burst = 2
  MaxTime = 3
  MaxLines = 3
  Day = 4
  Second = 1
  Certain = 268435456
  Blank = ""
  Fields <- MCFields
  CallsMade <- MCCalls
  Lists <- MCLists
  Owner = "owner"
  Settings <- MCSettings
  RuleSets <- MCRuleSets
  Bundles <- MCBundles
  Dirs <- MCDirs
  MaxEdits = 1
  MaxLives = 2
INVARIANTS
  IntakeTypeOK
  BurstBound
  ObservedRateBounded
  OnlySignedRules
  DemandLostOnlyWithFile
  RoundingHarmless
  PathsJudgedByPlace
  MistakesNarrow
  WindowIsArc
  DriftReported
PROPERTY RefusedOnlyWhenSpent
CHECK_DEADLOCK FALSE
