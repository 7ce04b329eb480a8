\* Two operations of this page, one upload of two files.
SPECIFICATION CardFairSpec
CONSTANTS
    Own = {t1, t2}
    Other = {}
    Uploads = {u}
    NoTask = NoTask
    MaxFiles = 2
INVARIANT CardAndTaskAgree
PROPERTIES OnlyThreeThingsKeepTheCard
CHECK_DEADLOCK FALSE
