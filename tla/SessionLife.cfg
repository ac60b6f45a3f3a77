SPECIFICATION FairSpec
CONSTANTS
    NoRow = NoRow
    Undefined = Undefined
    s1 = s1
    s2 = s2
    p1 = p1
    Sockets = {s1, s2}
    Polls = {p1}
    MaxLinks = 1
    MaxUnlinks = 1
    MaxLosses = 1
    MaxCrashes = 1
    MaxErrors = 1
    MayDelete = TRUE
    MayStall = FALSE
INVARIANTS
    TypeOK
    OneSocket
    StatusIsTrue
PROPERTY
    ComesBack
CHECK_DEADLOCK FALSE
