SPECIFICATION MCSpec
CONSTANTS
  Targets = {main, legacy}
  Main = main
  Legacy = legacy
  Files <- MCFiles
  Receipt = "receipt"
  NoFile = NoFile
  Bundles <- MCBundles
  Limit <- MCLimit
INVARIANTS
  PreviousSurvives
  HonestReport
  AcceptedFits
PROPERTIES
  ForeignKept
CONSTRAINTS
  TwoMishaps
CHECK_DEADLOCK FALSE
