SPECIFICATION HistorySpec
CONSTANTS
    x1 = x1
    x2 = x2
    x3 = x3
    id1 = id1
    a1 = a1
    a2 = a2
    p1 = p1
    p2 = p2
    blank = blank
    hashed = hashed
    NoXid = NoXid
    Xact = {x1, x2, x3}
    UserId <- MCUserId
    Email = {a1, a2}
    Password = {p1, p2, blank, hashed}
    Short = {blank}
    Unhashable = {}
    Blank = blank
    HashedPwd = hashed
    Workload <- MCWorkload
    InitialRows <- MCInitialRows
INVARIANTS TypeOK UniqueWhenSeen NoInternalError
PROPERTIES StatementsAreAtomic EveryStatementEnds
CHECK_DEADLOCK FALSE
