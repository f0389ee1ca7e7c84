\* Three concurrent requests that lock the same rows in different orders.
CONSTANTS
    u1 = u1
    u2 = u2
    i1 = i1
    i2 = i2
    Users = {u1, u2}
    Items = {i1, i2}
    Scores <- MCScores
    Txns = {t1, t2, t3}
    NoTxn = NoTxn
    NoRating = NoRating
    NoRequest = NoRequest
    Menu <- BatchMenu
    InitialRatings <- BatchRatings
    InitialId = 4
SPECIFICATION FairSpec
PROPERTIES
    RequestsEnd
CHECK_DEADLOCK FALSE
