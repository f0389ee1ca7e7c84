\* Every pair of concurrent requests.
CONSTANTS
    u1 = u1
    u2 = u2
    i1 = i1
    i2 = i2
    Users = {u1, u2}
    Items = {i1, i2}
    Scores <- MCScores
    Txns = {t1, t2}
    NoTxn = NoTxn
    NoRating = NoRating
    NoRequest = NoRequest
    Menu <- FullMenu
    InitialRatings <- MCInitialRatings
    InitialId = 4
SPECIFICATION Spec
INVARIANTS
    TypeOK
    EventIffContent
    ErasedUserLeavesNoRows
PROPERTIES
    SoloRequestsLeaveExact
    ImplementsLedger
\* Requests end; when all have, nothing is left to do.
CHECK_DEADLOCK FALSE
