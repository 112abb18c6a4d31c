SPECIFICATION MCSpec
CONSTANTS
  Targets = {main, legacy}
  Main = main
  Legacy = legacy
  Files <- MCFiles
  Receipt = "receipt"
  NoFile = NoFile
  Bundles <- MCBundles
  Limit <- DriftOnly
INVARIANTS RecoveryKept
CHECK_DEADLOCK FALSE
