\* Two directories of one item each, two operations, three listings.
SPECIFICATION Spec
CONSTANTS
    Dirs = {d1, d2}
    Names = {a}
    Ops = {o1, o2}
    None = None
    MaxSeq = 3
INVARIANTS WhatIsShownIsMeant TheLastWishIsShown OwnChangesShow
SYMMETRY Alike
CHECK_DEADLOCK FALSE
