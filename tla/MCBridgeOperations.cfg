SPECIFICATION Spec
CONSTANTS
  Largest = 3
  MaxListed = 2
  LongNames = {"long"}
  WideNames = {"wide"}
  LongestDuration = 2
  Opacities <- MCOpacities
  Margins <- MCMargins
  Widths <- MCWidths
  Durations <- MCDurations
  LongShortcut = "longShortcut"
  Attempts = 2
  MaxChanges = 2
  Requests <- MCRequests
  Operations <- MCOperations
  Worlds <- MCWorlds
  Changes <- MCChanges
  Drifts <- MCDrifts
INVARIANTS
  VerifiedHeld
  FailureIsReal
  RefusedChangedNothing
  ActivityIsOurs
