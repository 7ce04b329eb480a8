\* Two threads, three changes of the drives, two failures of lsblk.
SPECIFICATION StorageSpec
CONSTANTS
    Monitor = Monitor
    Server = Server
    MaxFailures = 2
    MaxPlugs = 3
INVARIANT OnlyAnEmptyCacheHangs
PROPERTIES CacheConverges CallsReturnUnlessHung
CHECK_DEADLOCK FALSE
