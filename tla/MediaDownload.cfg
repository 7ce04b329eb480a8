\* Two downloads, one restart: the safety of the list and of the table.
SPECIFICATION SafetySpec
CONSTANTS
    Gids = {g1, g2}
    NoGid = NoGid
    SameDir <- OneDir
    LostWrites = FALSE
    MaxRestarts = 1
SYMMETRY AnyGid
INVARIANTS ActiveIsAttended TableAgrees OnlyAFailedCleanUpLeavesAPartial OnlyALateWorkerUndoesADeletion
CHECK_DEADLOCK FALSE
