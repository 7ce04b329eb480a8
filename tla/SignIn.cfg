\* Three accounts ever, two sessions, one address: a lockout of two ticks after the
\* third failure in a row.
SPECIFICATION SignInSpec
CONSTANTS
    root = root
    n1 = n1
    s1 = s1
    s2 = s2
    Names = {root, n1}
    AdminName = root
    Tokens = {s1, s2}
    MaxUsers = 3
    NoUser = NoUser
    Keep = Keep
    a1 = a1
    Addresses = {a1}
    MaxAttempts = 3
    Lockout = 2
    MaxTime = 4
    MaxFailures = 4
INVARIANTS AdministrationSurvives GuessesAreSpaced
PROPERTIES DeadSessionsStayDead
CHECK_DEADLOCK FALSE
