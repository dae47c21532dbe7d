SPECIFICATION Spec
CONSTANTS
  s1 = s1
  SessionIds <- OneSession
  Cost = 2
  Burst = 2
  MaxTime = 3
  MaxLines = 3
  Day = 4
  Second = 1
  Certain = 268435456
  Blank = ""
  Fields <- MCFields
  CallsMade <- MCCalls
  Lists <- MCLists
  Owner = "owner"
  Settings <- NoBundle
  RuleSets <- MCRuleSets
  Bundles <- MCBundles
  Dirs <- ShippedDir
  MaxEdits = 0
  MaxLives = 2
INVARIANT TaintedEgressIsDenied
CHECK_DEADLOCK FALSE
