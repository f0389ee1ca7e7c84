\* Two raters of one item and the promise of docs/schema.md.
CONSTANTS
    u1 = u1
    u2 = u2
    i1 = i1
    i2 = i2
    Users = {u1, u2}
    Items = {i1, i2}
    Scores <- MCScores
    Txns = {t1, t2}
    NoTxn = NoTxn
    NoRating = NoRating
    NoRequest = NoRequest
    Menu <- RaterMenu
    InitialRatings <- NoReviews
    InitialId = 0
SPECIFICATION Spec
INVARIANTS
    AggregatesMatchReviews
CHECK_DEADLOCK FALSE
