\* Two overlapping slices over two homonyms and a third id.
CONSTANTS
    a = a
    b = b
    c = c
    s1 = s1
    s2 = s2
    s3 = s3
    NoId = NoId
    Ids = {a, b, c}
    Slugs = {s1, s2}
    Rank <- MCRank
    Runs = {r1, r2}
    SliceSize = 2
    ChunkSize = 2
    MaxAttempts = 1
    Sources <- MCSources
    Listings <- SomeListed
    MaxFaults = 1
    MaxChanges = 1
SYMMETRY RunSymmetry
SPECIFICATION Spec
INVARIANTS
    TypeOK
    BudgetSpentOnAnswers
    AttemptsBounded
    KeysUnique
