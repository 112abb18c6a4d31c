SPECIFICATION Spec
CONSTANTS
    a = a
    b = b
    c = c
    p = p
    q = q
    r = r
    Scenes <- ThreeScenes
    Paths <- ThreePaths
    FileOf <- FoldingDisk
    OutputLimit = 2
    HistoryLimit = 2
    MaxSessions = 3
SYMMETRY ScenesAndSpellingsSymmetry
CONSTRAINT SmallLastSession
CHECK_DEADLOCK FALSE
INVARIANTS WithinLimit Exclusive NoOrphans StopsAreTrue
PROPERTIES OnlyNamedStops
