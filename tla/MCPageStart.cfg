CONSTANTS
    Presses = {}
    MaxProcs = 2
SPECIFICATION PageSpec
INVARIANTS PageTypeOK ReadAgain
PROPERTIES PageShows
CHECK_DEADLOCK FALSE
