\* Two sockets, so that an old one can close while a new one is open; two
\* tokens for a sign-in after a sign-out or a rename; one network fault.
SPECIFICATION FairSpec
CONSTANTS
    Sockets = {s1, s2}
    None = None
    MaxTokens = 2
    MaxFaults = 1
INVARIANTS OneLiveFeed OnlyASlowSignOutLeavesAFeed
PROPERTIES OnlyALateRenameLosesTheFeed
CHECK_DEADLOCK FALSE
