\* One download whose writes may be lost, one restart: it settles.
SPECIFICATION Spec
CONSTANTS
    Gids = {g1}
    NoGid = NoGid
    SameDir <- OneDir
    LostWrites = TRUE
    MaxRestarts = 1
PROPERTIES CancelTakesEffect EveryDownloadSettles
CHECK_DEADLOCK FALSE
